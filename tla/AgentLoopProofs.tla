--------------------------- MODULE AgentLoopProofs ---------------------------
(***************************************************************************)
(* Proofs about the agent's loop, for every limit, number of calls and     *)
(* length of the chat.                                                     *)
(*                                                                         *)
(* The error budget (ErrorsAreCounted).  The counter                       *)
(* _consecutive_tool_errors is compared with what the run's recorder has   *)
(* noted.  The two are written at different moments of an iteration, an    *)
(* invalid answer even notes its failures before it counts as a step, so   *)
(* the invariant says, for every place of the worker, up to which step the *)
(* counter speaks (Counted) and that the recorder is never ahead of it by  *)
(* more than that (Noted).                                                 *)
(*                                                                         *)
(* The types (TypeCorrect).  The recorder's snapshots are kept by call id, *)
(* and the timeline is picked from the log, so the types of the payload    *)
(* and of the messages replayed to the model follow from what is picked    *)
(* (PickedType, ...) and from the ids being below the next one.            *)
(*                                                                         *)
(* The records and the requests (RecordsAreTrue, RequestsOrdered).  Both   *)
(* are built from the log of one run: the payload names calls that         *)
(* succeeded, the replayed chat puts tool messages behind their answer.    *)
(* RInv says what the log, the snapshots, the calls left of the answer and *)
(* its tool messages have to do with each other at every place of the      *)
(* worker.                                                                 *)
(***************************************************************************)
EXTENDS AgentLoop, FiniteSetTheorems, WellFoundedInduction, TLAPS

-----------------------------------------------------------------------------
(* Sequences that are built entry by entry.                                *)

LEMMA Minimum ==
    ASSUME NEW S \in SUBSET Nat, S # {}
    PROVE  \E n \in S : \A m \in S : n <= m
<1> DEFINE Less == OpToRel(<, Nat)
<1>1. IsWellFoundedOn(Less, Nat)
  BY NatLessThanWellFounded
<1>2. \A x, y \in Nat : x < y => <<x, y>> \in Less
  BY DEF OpToRel
<1> HIDE DEF Less
<1>3. PICK n \in S : \A m \in S : ~ (<<m, n>> \in Less)
  BY <1>1, WFMin
<1>4. \A m \in S : ~ (m < n)
  BY <1>2, <1>3
<1> QED BY <1>4

\* A set of numbers with 0 and the successor of each of its members below n.
LEMMA CountedUp ==
    ASSUME NEW n \in Nat, NEW S, 0 \in S, \A i \in 0..n : i \in S /\ i < n => i + 1 \in S
    PROVE  0..n \subseteq S
<1> SUFFICES ASSUME NEW k \in 0..n, k \notin S PROVE FALSE
  OBVIOUS
<1> DEFINE B == {i \in 0..n : i \notin S}
<1>1. B \in SUBSET Nat /\ B # {}
  OBVIOUS
<1>2. PICK m \in B : \A i \in B : m <= i
  <2> HIDE DEF B
  <2> QED BY <1>1, Minimum
<1>3. m # 0 /\ m \in 0..n /\ m \notin S
  OBVIOUS
<1>4. m - 1 \in 0..n /\ m - 1 \notin B
  BY <1>2, <1>3
<1> QED BY <1>3, <1>4

\* f[n] is what is kept of the first n entries.
Building(f, seq, kept, L) ==
    f = [n \in 0..L |->
           IF n = 0 THEN <<>>
           ELSE IF kept[n] THEN Append(f[n - 1], seq[n]) ELSE f[n - 1]]

LEMMA BuildingExists ==
    ASSUME NEW seq, NEW kept, NEW L \in Nat
    PROVE  \E f : Building(f, seq, kept, L)
<1> DEFINE S == {m \in 0..L : \E f : Building(f, seq, kept, m)}
<1>1. 0 \in S
  <2> DEFINE f == [n \in 0..0 |-> <<>>]
  <2>1. Building(f, seq, kept, 0)
    BY DEF Building
  <2> HIDE DEF f
  <2> QED BY <2>1
<1>2. ASSUME NEW m \in 0..L, m \in S, m < L PROVE m + 1 \in S
  <2>1. PICK f : Building(f, seq, kept, m)
    BY <1>2
  <2> DEFINE g == [n \in 0..(m + 1) |->
                     IF n <= m THEN f[n]
                     ELSE IF kept[n] THEN Append(f[m], seq[n]) ELSE f[m]]
  <2>2. ASSUME NEW n \in 0..(m + 1)
        PROVE  g[n] = IF n = 0 THEN <<>>
                      ELSE IF kept[n] THEN Append(g[n - 1], seq[n]) ELSE g[n - 1]
    <3>1. CASE n <= m
      <4>1. n \in 0..m /\ g[n] = f[n] /\ (n # 0 => n - 1 \in 0..(m + 1) /\ n - 1 <= m)
        BY <3>1
      <4>2. n # 0 => g[n - 1] = f[n - 1]
        BY <4>1
      <4>3. f[n] = IF n = 0 THEN <<>>
                   ELSE IF kept[n] THEN Append(f[n - 1], seq[n]) ELSE f[n - 1]
        BY <2>1, <4>1 DEF Building
      <4> HIDE DEF g
      <4> QED BY <4>1, <4>2, <4>3
    <3>2. CASE n = m + 1
      <4>1. g[m] = f[m] /\ n # 0 /\ n - 1 = m /\ ~(n <= m)
        BY <3>2
      <4> QED BY <4>1
    <3> QED BY <3>1, <3>2
  <2>3. g = [n \in 0..(m + 1) |->
               IF n = 0 THEN <<>>
               ELSE IF kept[n] THEN Append(g[n - 1], seq[n]) ELSE g[n - 1]]
    <3> DEFINE h == [n \in 0..(m + 1) |->
               IF n = 0 THEN <<>>
               ELSE IF kept[n] THEN Append(g[n - 1], seq[n]) ELSE g[n - 1]]
    <3>1. \A n \in 0..(m + 1) : g[n] = h[n]
      BY <2>2
    <3>2. g = [n \in 0..(m + 1) |-> g[n]] /\ h = [n \in 0..(m + 1) |-> h[n]]
      OBVIOUS
    <3> HIDE DEF g, h
    <3>3. g = h
      BY <3>1, <3>2
    <3> QED BY <3>3 DEF h
  <2>4. Building(g, seq, kept, m + 1)
    <3> HIDE DEF g
    <3> QED BY <2>3 DEF Building
  <2> HIDE DEF g
  <2> QED BY <1>2, <2>4
<1> HIDE DEF S
<1>3. 0..L \subseteq S
  BY <1>1, <1>2, CountedUp
<1>4. L \in S
  BY <1>3
<1> QED BY <1>4 DEF S

\* What is kept of two sequences is the same as far as they agree.
Agree(s, t, a, b, L) == \A n \in 1..L : s[n] = t[n] /\ a[n] = b[n]

LEMMA BuildingSame ==
    ASSUME NEW s, NEW t, NEW a, NEW b, NEW L \in Nat, NEW M \in Nat, L <= M,
           NEW f, Building(f, s, a, L), NEW g, Building(g, t, b, M),
           Agree(s, t, a, b, L)
    PROVE  f[L] = g[L]
<1> DEFINE S == {n \in 0..L : f[n] = g[n]}
<1>1. 0 \in S
  BY DEF Building
<1>2. ASSUME NEW n \in 0..L, n \in S, n < L PROVE n + 1 \in S
  <2>1. n + 1 \in 0..L /\ n + 1 \in 0..M /\ n + 1 # 0 /\ (n + 1) - 1 = n /\ n + 1 \in 1..L
    BY <1>2
  <2>2. f[n + 1] = IF a[n + 1] THEN Append(f[n], s[n + 1]) ELSE f[n]
    BY <2>1 DEF Building
  <2>3. g[n + 1] = IF b[n + 1] THEN Append(g[n], t[n + 1]) ELSE g[n]
    BY <2>1 DEF Building
  <2>4. s[n + 1] = t[n + 1] /\ a[n + 1] = b[n + 1]
    BY <2>1 DEF Agree
  <2> QED BY <1>2, <2>1, <2>2, <2>3, <2>4
<1> HIDE DEF S
<1>3. 0..L \subseteq S
  BY <1>1, <1>2, CountedUp
<1>4. L \in S
  BY <1>3
<1> QED BY <1>4 DEF S

LEMMA PickedIs ==
    ASSUME NEW seq, NEW kept, Len(seq) \in Nat
    PROVE  \E f : Building(f, seq, kept, Len(seq)) /\ Picked(seq, kept) = f[Len(seq)]
<1> DEFINE f == CHOOSE f : Building(f, seq, kept, Len(seq))
<1>1. Building(f, seq, kept, Len(seq))
  BY BuildingExists
<1>2. Picked(seq, kept) = f[Len(seq)]
  BY DEF Picked, Building
<1> HIDE DEF f
<1> QED BY <1>1, <1>2

\* What is kept of a longer sequence.
LEMMA PickedEmpty == ASSUME NEW kept PROVE Picked(<<>>, kept) = <<>>
<1>1. Len(<<>>) = 0 /\ Len(<<>>) \in Nat
  OBVIOUS
<1>2. PICK f : Building(f, <<>>, kept, Len(<<>>)) /\ Picked(<<>>, kept) = f[Len(<<>>)]
  BY <1>1, PickedIs
<1> QED BY <1>1, <1>2 DEF Building

LEMMA PickedAppend ==
    ASSUME NEW T, NEW seq \in Seq(T), NEW e \in T, NEW a, NEW b,
           \A n \in 1..Len(seq) : a[n] = b[n]
    PROVE  Picked(Append(seq, e), b) =
             IF b[Len(seq) + 1] THEN Append(Picked(seq, a), e) ELSE Picked(seq, a)
<1> DEFINE t == Append(seq, e)
<1>1. /\ Len(seq) \in Nat /\ Len(t) = Len(seq) + 1 /\ Len(t) \in Nat
      /\ \A n \in 1..Len(seq) : seq[n] = t[n]
      /\ t[Len(seq) + 1] = e
  OBVIOUS
<1> HIDE DEF t
<1>2. PICK f : Building(f, seq, a, Len(seq)) /\ Picked(seq, a) = f[Len(seq)]
  BY <1>1, PickedIs
<1>3. PICK g : Building(g, t, b, Len(t)) /\ Picked(t, b) = g[Len(t)]
  BY <1>1, PickedIs
<1>4. f[Len(seq)] = g[Len(seq)]
  <2>1. Agree(seq, t, a, b, Len(seq))
    BY <1>1 DEF Agree
  <2>2. Len(seq) <= Len(t)
    BY <1>1
  <2> QED BY <1>1, <1>2, <1>3, <2>1, <2>2, BuildingSame
<1>5. Len(t) \in 0..Len(t) /\ Len(t) # 0 /\ Len(t) - 1 = Len(seq)
  BY <1>1
<1>6. g[Len(t)] = IF b[Len(t)] THEN Append(g[Len(seq)], t[Len(t)]) ELSE g[Len(seq)]
  BY <1>3, <1>5 DEF Building
<1> QED BY <1>1, <1>2, <1>3, <1>4, <1>6 DEF t

LEMMA PickedSame ==
    ASSUME NEW seq, Len(seq) \in Nat, NEW a, NEW b, \A n \in 1..Len(seq) : a[n] = b[n]
    PROVE  Picked(seq, a) = Picked(seq, b)
<1>1. PICK f : Building(f, seq, a, Len(seq)) /\ Picked(seq, a) = f[Len(seq)]
  BY PickedIs
<1>2. PICK g : Building(g, seq, b, Len(seq)) /\ Picked(seq, b) = g[Len(seq)]
  BY PickedIs
<1>3. Agree(seq, seq, a, b, Len(seq))
  BY DEF Agree
<1>4. Len(seq) <= Len(seq)
  OBVIOUS
<1>5. f[Len(seq)] = g[Len(seq)]
  BY <1>1, <1>2, <1>3, <1>4, BuildingSame
<1> QED BY <1>1, <1>2, <1>5

\* What holds of every entry that is kept holds of every entry of the result.
LEMMA PickedType ==
    ASSUME NEW T, NEW seq, Len(seq) \in Nat, NEW kept,
           \A n \in 1..Len(seq) : kept[n] => seq[n] \in T
    PROVE  Picked(seq, kept) \in Seq(T)
<1>1. PICK f : Building(f, seq, kept, Len(seq)) /\ Picked(seq, kept) = f[Len(seq)]
  BY PickedIs
<1> DEFINE L == Len(seq)
           S == {n \in 0..L : f[n] \in Seq(T)}
<1>2. 0 \in S
  <2>1. f[0] = <<>>
    BY <1>1 DEF Building
  <2>2. <<>> \in Seq(T) /\ 0 \in 0..L
    OBVIOUS
  <2> QED BY <2>1, <2>2
<1>3. ASSUME NEW n \in 0..L, n \in S, n < L PROVE n + 1 \in S
  <2>1. n + 1 \in 0..L /\ n + 1 # 0 /\ (n + 1) - 1 = n /\ n + 1 \in 1..L
    BY <1>3
  <2>2. f[n + 1] = IF kept[n + 1] THEN Append(f[n], seq[n + 1]) ELSE f[n]
    BY <1>1, <2>1 DEF Building
  <2>3. f[n] \in Seq(T) /\ (kept[n + 1] => seq[n + 1] \in T)
    BY <1>3, <2>1
  <2>4. f[n + 1] \in Seq(T)
    BY <2>2, <2>3
  <2> QED BY <2>1, <2>4
<1> HIDE DEF S, L
<1>4. 0..L \subseteq S
  BY <1>2, <1>3, CountedUp DEF L
<1>5. L \in S
  BY <1>4 DEF L
<1> QED BY <1>1, <1>5 DEF S, L

-----------------------------------------------------------------------------
(* Failures in a row.                                                      *)

\* Step s has a failed call in the log.
FailedIn(log, s) ==
    \E k \in DOMAIN log : log[k].kind = "tool_completed" /\ log[k].step = s /\ ~log[k].ok

Row(log, n) == {s \in 1..n : \A t \in s..n : FailedIn(log, t)}

LEMMA FailuresInARowIs == FailuresInARow = Cardinality(Row(events, step))
BY DEF FailuresInARow, FailedStep, Row, FailedIn

\* Rows are finite and depend on the failures up to n only.
LEMMA RowSame ==
    ASSUME NEW a, NEW b, NEW n \in Nat,
           \A s \in 1..n : FailedIn(a, s) <=> FailedIn(b, s)
    PROVE  Row(a, n) = Row(b, n)
<1>1. \A s \in 1..n : \A t \in s..n : t \in 1..n
  OBVIOUS
<1> QED BY <1>1 DEF Row

LEMMA RowFinite ==
    ASSUME NEW a, NEW n \in Nat
    PROVE  IsFiniteSet(Row(a, n)) /\ Cardinality(Row(a, n)) \in 0..n
<1>1. IsFiniteSet(1..n) /\ Cardinality(1..n) = n
  <2>1. 1 \in Int /\ n \in Int /\ (IF 1 > n THEN 0 ELSE n - 1 + 1) = n
    OBVIOUS
  <2> QED BY <2>1, FS_Interval
<1>2. Row(a, n) \subseteq 1..n
  BY DEF Row
<1>3. IsFiniteSet(Row(a, n)) /\ Cardinality(Row(a, n)) <= n
  BY <1>1, <1>2, FS_Subset
<1> QED BY <1>3, FS_CardinalityType

\* One more failed step lengthens the row by one; any other step ends it.
LEMMA RowGrows ==
    ASSUME NEW a, NEW n \in Nat, FailedIn(a, n + 1)
    PROVE  Cardinality(Row(a, n + 1)) = Cardinality(Row(a, n)) + 1
<1>1. Row(a, n + 1) = Row(a, n) \cup {n + 1}
  <2>1. ASSUME NEW s \in Row(a, n + 1) PROVE s \in Row(a, n) \cup {n + 1}
    <3>1. s \in 1..(n + 1) /\ \A t \in s..(n + 1) : FailedIn(a, t)
      BY <2>1 DEF Row
    <3>2. \A t \in s..n : t \in s..(n + 1)
      BY <3>1
    <3>3. s = n + 1 \/ s \in 1..n
      BY <3>1
    <3> QED BY <3>1, <3>2, <3>3 DEF Row
  <2>2. ASSUME NEW s \in Row(a, n) \cup {n + 1} PROVE s \in Row(a, n + 1)
    <3>1. CASE s = n + 1
      <4>1. s \in 1..(n + 1) /\ \A t \in s..(n + 1) : t = n + 1
        BY <3>1
      <4> QED BY <4>1 DEF Row
    <3>2. CASE s \in Row(a, n)
      <4>1. s \in 1..n /\ \A t \in s..n : FailedIn(a, t)
        BY <3>2 DEF Row
      <4>2. s \in 1..(n + 1) /\ \A t \in s..(n + 1) : t = n + 1 \/ t \in s..n
        BY <4>1
      <4> QED BY <4>1, <4>2 DEF Row
    <3> QED BY <2>2, <3>1, <3>2
  <2> QED BY <2>1, <2>2
<1>2. n + 1 \notin Row(a, n)
  BY DEF Row
<1> QED BY <1>1, <1>2, RowFinite, FS_AddElement

LEMMA RowEnds ==
    ASSUME NEW a, NEW n \in Nat, n = 0 \/ ~FailedIn(a, n)
    PROVE  Row(a, n) = {} /\ Cardinality(Row(a, n)) = 0
<1>1. \A s \in 1..n : n \in s..n /\ n # 0
  OBVIOUS
<1>2. Row(a, n) = {}
  BY <1>1 DEF Row
<1> QED BY <1>2, FS_EmptySet

\* Appending to the log.
LEMMA FailedAppend ==
    ASSUME NEW S, NEW a \in Seq(S), NEW b \in Seq(S), NEW s
    PROVE  FailedIn(a \o b, s) <=> FailedIn(a, s) \/ FailedIn(b, s)
<1>1. /\ \A k \in DOMAIN a : k \in DOMAIN (a \o b) /\ (a \o b)[k] = a[k]
      /\ \A k \in DOMAIN b : Len(a) + k \in DOMAIN (a \o b) /\ (a \o b)[Len(a) + k] = b[k]
      /\ \A k \in DOMAIN (a \o b) :
            k \in DOMAIN a \/ (k - Len(a) \in DOMAIN b /\ (a \o b)[k] = b[k - Len(a)])
  OBVIOUS
<1> DEFINE c == a \o b
<1> HIDE DEF c
<1>2. /\ \A k \in DOMAIN a : k \in DOMAIN c /\ c[k] = a[k]
      /\ \A k \in DOMAIN b : Len(a) + k \in DOMAIN c /\ c[Len(a) + k] = b[k]
      /\ \A k \in DOMAIN c :
            k \in DOMAIN a \/ (k - Len(a) \in DOMAIN b /\ c[k] = b[k - Len(a)])
  BY <1>1 DEF c
<1>3. FailedIn(c, s) <=> FailedIn(a, s) \/ FailedIn(b, s)
  BY <1>2 DEF FailedIn
<1> QED BY <1>3 DEF c

LEMMA FailedQuiet ==
    ASSUME NEW S, NEW a \in Seq(S), NEW e \in S, e.kind # "tool_completed" \/ e.ok, NEW s
    PROVE  FailedIn(Append(a, e), s) <=> FailedIn(a, s)
<1>1. <<e>> \in Seq(S) /\ Append(a, e) = a \o <<e>>
  OBVIOUS
<1>2. ~FailedIn(<<e>>, s)
  <2>1. DOMAIN <<e>> = {1} /\ <<e>>[1] = e
    OBVIOUS
  <2> QED BY <2>1 DEF FailedIn
<1> DEFINE b == <<e>>
<1> HIDE DEF b
<1>3. b \in Seq(S) /\ Append(a, e) = a \o b /\ ~FailedIn(b, s)
  BY <1>1, <1>2 DEF b
<1> QED BY <1>3, FailedAppend

LEMMA FailedLoud ==
    ASSUME NEW S, NEW a \in Seq(S), NEW e \in S, e.kind = "tool_completed", ~e.ok, NEW s
    PROVE  FailedIn(Append(a, e), s) <=> FailedIn(a, s) \/ s = e.step
<1>1. <<e>> \in Seq(S) /\ Append(a, e) = a \o <<e>>
  OBVIOUS
<1>2. FailedIn(<<e>>, s) <=> s = e.step
  <2>1. DOMAIN <<e>> = {1} /\ <<e>>[1] = e
    OBVIOUS
  <2> QED BY <2>1 DEF FailedIn
<1> DEFINE b == <<e>>
<1> HIDE DEF b
<1>3. b \in Seq(S) /\ Append(a, e) = a \o b /\ (FailedIn(b, s) <=> s = e.step)
  BY <1>1, <1>2 DEF b
<1> QED BY <1>3, FailedAppend

-----------------------------------------------------------------------------
(* Types of what the argument rests on.                                    *)

Entry == [kind : {"llm_step", "tool_started", "tool_completed", "agent_finished"},
          of : Int, calls : Seq(Int), step : Int, ok : BOOLEAN]

Resting == {"idle", "done"}
Working == {"head", "waiting", "invalid", "call", "running", "between"}

Types ==
    /\ pc \in Resting \cup Working
    /\ events \in Seq(Entry)
    /\ turn \in Seq(Int)
    /\ pc \in {"running", "invalid"} => turn # <<>>
    /\ step \in Nat /\ errors \in Nat

LEMMA EventTypes ==
    ASSUME NEW s \in Int, NEW id \in Int, NEW ok \in BOOLEAN
    PROVE  /\ Begun(s, id) \in Entry /\ Begun(s, id).kind = "tool_started"
           /\ Ended(s, id, ok) \in Entry /\ Ended(s, id, ok).kind = "tool_completed"
           /\ Ended(s, id, ok).ok = ok /\ Ended(s, id, ok).step = s
<1>1. <<>> \in Seq(Int)
  OBVIOUS
<1> QED BY <1>1 DEF Begun, Ended, Event, Entry

LEMMA AnsweredType ==
    ASSUME NEW s \in Int, NEW ids \in Seq(Int)
    PROVE  Answered(s, ids) \in Entry /\ Answered(s, ids).kind = "llm_step"
BY DEF Answered, Event, Entry

LEMMA FinishedType ==
    ASSUME step \in Int, NEW ok \in BOOLEAN
    PROVE  Finished(ok) \in Entry /\ Finished(ok).kind = "agent_finished"
<1>1. <<>> \in Seq(Int)
  OBVIOUS
<1> QED BY <1>1 DEF Finished, Event, Entry

LEMMA RangeFinite == ASSUME NEW q \in Seq(Int) PROVE IsFiniteSet(Range(q))
<1>1. DOMAIN q = 1 .. Len(q) /\ Len(q) \in Int
  OBVIOUS
<1>2. IsFiniteSet(1 .. Len(q))
  BY <1>1, FS_Interval
<1>3. q \in Surjection(DOMAIN q, Range(q))
  BY DEF Surjection, Range
<1> QED BY <1>1, <1>2, <1>3, FS_Surjection DEF ExistsSurjection

\* Finitely many ids were given out.
Given(log) == UNION {Range(log[k].calls) : k \in DOMAIN log}

LEMMA GivenFinite ==
    ASSUME NEW log \in Seq(Entry)
    PROVE  IsFiniteSet(Given(log)) /\ Cardinality(Given(log)) \in Nat
<1> DEFINE ranges == {Range(log[k].calls) : k \in DOMAIN log}
<1>1. \A q : q \in Seq(Int) => IsFiniteSet(Range(q))
  BY RangeFinite
<1>2. IsFiniteSet(DOMAIN log)
  <2>1. DOMAIN log = 1 .. Len(log) /\ Len(log) \in Int
    OBVIOUS
  <2> QED BY <2>1, FS_Interval
<1>3. IsFiniteSet(ranges)
  <2> DEFINE f == [k \in DOMAIN log |-> Range(log[k].calls)]
  <2>1. f \in Surjection(DOMAIN log, ranges)
    BY DEF Surjection
  <2> HIDE DEF f, ranges
  <2> QED BY <1>2, <2>1, FS_Surjection
<1>4. \A k \in DOMAIN log : log[k].calls \in Seq(Int)
  <2>1. \A k \in DOMAIN log : log[k] \in Entry
    OBVIOUS
  <2> QED BY <2>1 DEF Entry
<1>5. \A R \in ranges : IsFiniteSet(R)
  BY <1>1, <1>4
<1>6. IsFiniteSet(UNION ranges)
  BY <1>3, <1>5, FS_UNION
<1> QED BY <1>6, FS_CardinalityType DEF Given

LEMMA NamedType == events \in Seq(Entry) => Named \in Nat
BY GivenFinite DEF Named, Given

LEMMA CallIdsType ==
    ASSUME events \in Seq(Entry), NEW n \in Nat
    PROVE  CallIds(n) \in Seq(Int) /\ Len(CallIds(n)) = n
<1>1. Named \in Nat
  BY NamedType
<1> QED BY <1>1 DEF CallIds

-----------------------------------------------------------------------------
(* The invariant.                                                          *)

\* The counter speaks of the steps whose calls are over.
Counted ==
    /\ pc \in {"head", "waiting", "invalid", "between"} =>
         errors = Cardinality(Row(events, step))
    /\ pc \in {"call", "running"} =>
         /\ step > 0
         /\ errors = Cardinality(Row(events, step - 1))
         /\ ~FailedIn(events, step)

\* The recorder is ahead of the counter by an invalid answer only.
Noted ==
    /\ pc = "invalid" => FailedIn(events, step + 1)
    /\ pc \in Working => \A s \in Int :
         s > step /\ ~(pc = "invalid" /\ s = step + 1) => ~FailedIn(events, s)

Budget ==
    Limited(MaxToolErrors) =>
      /\ pc \in Working => errors <= MaxToolErrors
      /\ pc \in Working \ {"between"} => errors < MaxToolErrors

Verdict ==
    /\ pc \in Working => payload = None
    /\ pc = "done" /\ payload # None /\ payload.stop \in {"errors", "steps"} =>
         (payload.stop = "errors" <=>
            Limited(MaxToolErrors) /\ Cardinality(Row(events, step)) = MaxToolErrors)

IInv == Types /\ Counted /\ Noted /\ Budget /\ Verdict

LEMMA IInvInit == Init => IInv
<1> SUFFICES ASSUME Init PROVE IInv
  OBVIOUS
<1>1. pc = "idle" /\ events = <<>> /\ turn = <<>> /\ step = 0 /\ errors = 0
  BY DEF Init
<1>2. <<>> \in Seq(Entry) /\ <<>> \in Seq(Int)
  OBVIOUS
<1> QED BY <1>1, <1>2 DEF IInv, Types, Counted, Noted, Budget, Verdict, Resting, Working

\* A run starts with an empty log.
LEMMA PromptCounted == IInv /\ Prompt => IInv'
<1> SUFFICES ASSUME IInv, Prompt PROVE IInv'
  OBVIOUS
<1>1. /\ pc' = "head" /\ events' = <<>> /\ turn' = <<>> /\ step' = 0 /\ errors' = 0
      /\ payload' = None
  BY DEF Prompt
<1>2. <<>> \in Seq(Entry) /\ <<>> \in Seq(Int)
  OBVIOUS
<1>3. \A s : ~FailedIn(<<>>, s)
  BY DEF FailedIn
<1>4. Cardinality(Row(<<>>, 0)) = 0
  BY RowFinite
<1>5. Types'
  BY <1>1, <1>2 DEF Types, Resting, Working
<1>6. Counted'
  BY <1>1, <1>4 DEF Counted
<1>7. Noted'
  BY <1>1, <1>3 DEF Noted
<1>8. Budget'
  BY <1>1, AgentLoopAssumption DEF Budget, Limited
<1>9. Verdict'
  BY <1>1 DEF Verdict
<1> QED BY <1>5, <1>6, <1>7, <1>8, <1>9 DEF IInv

\* Steps that neither note nor count anything.
LEMMA SilentCounted ==
    ASSUME IInv, UNCHANGED <<events, turn, step, errors, payload>>,
           \/ pc' = pc
           \/ pc \in Working /\ pc' = "done"
           \/ pc = "head" /\ pc' = "waiting"
           \/ pc = "between" /\ pc' = "head" /\ ~OutOfErrors
    PROVE  IInv'
<1>1. Types'
  BY DEF IInv, Types, Resting, Working
<1>2. Counted'
  BY DEF IInv, Counted
<1>3. Noted'
  BY DEF IInv, Noted, Working
<1>4. Budget'
  BY AgentLoopAssumption DEF IInv, Types, Budget, Working, Limited, OutOfErrors
<1>5. Verdict'
  BY DEF IInv, Verdict, Working
<1> QED BY <1>1, <1>2, <1>3, <1>4, <1>5 DEF IInv

\* Steps that note something that is no failure and count nothing.
LEMMA QuietCounted ==
    ASSUME IInv, UNCHANGED <<turn, step, errors, payload>>,
           NEW e \in Entry, e.kind # "tool_completed" \/ e.ok, events' = Append(events, e),
           pc = "call", pc' = "running", turn # <<>>
    PROVE  IInv'
<1>1. events \in Seq(Entry) /\ step \in Nat
  BY DEF IInv, Types
<1>2. events' \in Seq(Entry)
  BY <1>1
<1>3. \A s : FailedIn(events', s) <=> FailedIn(events, s)
  BY <1>1, FailedQuiet
<1>4. step > 0 /\ Row(events', step - 1) = Row(events, step - 1)
  BY <1>1, <1>3, RowSame DEF IInv, Counted
<1>5. Types'
  BY <1>2 DEF IInv, Types, Resting, Working
<1>6. Counted'
  BY <1>3, <1>4 DEF IInv, Counted
<1>7. Noted'
  BY <1>3 DEF IInv, Noted, Working
<1>8. Budget'
  BY DEF IInv, Budget, Working
<1>9. Verdict'
  BY DEF IInv, Verdict, Working
<1> QED BY <1>5, <1>6, <1>7, <1>8, <1>9 DEF IInv

LEMMA RunToolCounted == IInv /\ RunTool => IInv'
<1> SUFFICES ASSUME IInv, RunTool PROVE IInv'
  OBVIOUS
<1> DEFINE e == Begun(step, Head(turn))
<1>1. /\ pc = "call" /\ turn # <<>> /\ pc' = "running" /\ events' = Append(events, e)
      /\ UNCHANGED <<turn, step, errors, payload>>
  BY DEF RunTool
<1>2. step \in Int /\ Head(turn) \in Int /\ <<>> \in Seq(Int)
  BY <1>1 DEF IInv, Types
<1>3. e \in Entry /\ e.kind = "tool_started"
  BY <1>2, EventTypes
<1> HIDE DEF e
<1> QED BY <1>1, <1>3, QuietCounted

LEMMA ToolSucceedsCounted == IInv /\ ToolSucceeds => IInv'
<1> SUFFICES ASSUME IInv, ToolSucceeds PROVE IInv'
  OBVIOUS
<1> DEFINE e == Ended(step, Head(turn), TRUE)
<1>1. /\ pc = "running" /\ pc' = "call" /\ events' = Append(events, e) /\ turn' = Tail(turn)
      /\ UNCHANGED <<step, errors, payload>>
  BY DEF ToolSucceeds
<1>2. turn \in Seq(Int) /\ turn # <<>> /\ step \in Nat /\ events \in Seq(Entry)
  BY <1>1 DEF IInv, Types
<1>3. Head(turn) \in Int /\ Tail(turn) \in Seq(Int) /\ <<>> \in Seq(Int) /\ step \in Int
  BY <1>2
<1>4. e \in Entry /\ e.ok
  BY <1>2, <1>3, EventTypes
<1> HIDE DEF e
<1>5. events' \in Seq(Entry)
  BY <1>1, <1>2, <1>4
<1>6. \A s : FailedIn(events', s) <=> FailedIn(events, s)
  BY <1>1, <1>2, <1>4, FailedQuiet
<1>7. step > 0 /\ Row(events', step - 1) = Row(events, step - 1)
  BY <1>1, <1>2, <1>6, RowSame DEF IInv, Counted
<1>8. Types'
  BY <1>1, <1>3, <1>5 DEF IInv, Types, Resting, Working
<1>9. Counted'
  BY <1>1, <1>6, <1>7 DEF IInv, Counted
<1>10. Noted'
  BY <1>1, <1>6 DEF IInv, Noted, Working
<1>11. Budget'
  BY <1>1 DEF IInv, Budget, Working
<1>12. Verdict'
  BY <1>1 DEF IInv, Verdict, Working
<1> QED BY <1>8, <1>9, <1>10, <1>11, <1>12 DEF IInv

\* A failed call ends the turn: its step joins the row.
LEMMA ToolFailsCounted == IInv /\ ToolFails => IInv'
<1> SUFFICES ASSUME IInv, ToolFails PROVE IInv'
  OBVIOUS
<1> DEFINE e == Ended(step, Head(turn), FALSE)
<1>1. /\ pc = "running" /\ pc' = "between" /\ events' = Append(events, e) /\ turn' = <<>>
      /\ errors' = errors + 1
      /\ UNCHANGED <<step, payload>>
  BY DEF ToolFails
<1>2. /\ turn \in Seq(Int) /\ turn # <<>> /\ step \in Nat /\ errors \in Nat
      /\ events \in Seq(Entry) /\ step > 0
  BY <1>1 DEF IInv, Types, Counted
<1>3. Head(turn) \in Int /\ <<>> \in Seq(Int) /\ step \in Int
  BY <1>2
<1>4. e \in Entry /\ e.kind = "tool_completed" /\ ~e.ok /\ e.step = step
  BY <1>3, EventTypes
<1> HIDE DEF e
<1>5. events' \in Seq(Entry)
  BY <1>1, <1>2, <1>4
<1>6. \A s : FailedIn(events', s) <=> FailedIn(events, s) \/ s = step
  BY <1>1, <1>2, <1>4, FailedLoud
<1>7. Row(events', step - 1) = Row(events, step - 1)
  BY <1>2, <1>6, RowSame
<1>8. Cardinality(Row(events', step)) = errors + 1
  <2>1. step - 1 \in Nat /\ (step - 1) + 1 = step
    BY <1>2
  <2>2. FailedIn(events', (step - 1) + 1)
    BY <1>6, <2>1
  <2>3. Cardinality(Row(events', (step - 1) + 1)) = Cardinality(Row(events', step - 1)) + 1
    BY <2>1, <2>2, RowGrows
  <2> QED BY <1>1, <1>7, <2>1, <2>3 DEF IInv, Counted
<1>9. Types'
  BY <1>1, <1>2, <1>3, <1>5 DEF Types, Resting, Working
<1>10. Counted'
  BY <1>1, <1>8 DEF Counted
<1>11. Noted'
  BY <1>1, <1>2, <1>6 DEF IInv, Noted, Working
<1>12. Budget'
  BY <1>1, <1>2, AgentLoopAssumption DEF IInv, Budget, Working
<1>13. Verdict'
  BY <1>1 DEF IInv, Verdict, Working
<1> QED BY <1>9, <1>10, <1>11, <1>12, <1>13 DEF IInv

\* A turn without a failure ends every row.
LEMMA EndTurnCounted == IInv /\ EndTurn => IInv'
<1> SUFFICES ASSUME IInv, EndTurn PROVE IInv'
  OBVIOUS
<1>1. /\ pc = "call" /\ pc' = "between" /\ errors' = 0
      /\ UNCHANGED <<events, turn, step, payload>>
  BY DEF EndTurn
<1>2. step \in Nat /\ step > 0 /\ ~FailedIn(events, step)
  BY <1>1 DEF IInv, Types, Counted
<1>3. Cardinality(Row(events, step)) = 0
  BY <1>2, RowEnds
<1>4. Types'
  BY <1>1 DEF IInv, Types, Resting, Working
<1>5. Counted'
  BY <1>1, <1>3 DEF Counted
<1>6. Noted'
  BY <1>1 DEF IInv, Noted, Working
<1>7. Budget'
  BY <1>1, AgentLoopAssumption DEF Budget, Working, Limited
<1>8. Verdict'
  BY <1>1 DEF IInv, Verdict, Working
<1> QED BY <1>4, <1>5, <1>6, <1>7, <1>8 DEF IInv

\* The answer's calls belong to the next step, of which nothing was noted.
LEMMA AnswerCallsCounted == IInv /\ AnswerCalls => IInv'
<1> SUFFICES ASSUME IInv, AnswerCalls PROVE IInv'
  OBVIOUS
<1>1. /\ pc = "waiting" /\ pc' = "call" /\ step' = step + 1
      /\ UNCHANGED <<errors, payload>>
  BY DEF AnswerCalls
<1>2. PICK n \in 1..MaxCalls : /\ turn' = CallIds(n)
                               /\ events' = Append(events, Answered(step + 1, CallIds(n)))
  BY DEF AnswerCalls
<1> DEFINE e == Answered(step + 1, CallIds(n))
<1>3. events \in Seq(Entry) /\ step \in Nat /\ n \in Nat
  BY AgentLoopAssumption DEF IInv, Types
<1>4. CallIds(n) \in Seq(Int)
  BY <1>3, CallIdsType
<1>5. e \in Entry /\ e.kind = "llm_step"
  <2>1. step + 1 \in Int
    BY <1>3
  <2> QED BY <1>4, <2>1, AnsweredType
<1>6. turn' \in Seq(Int) /\ events' = Append(events, e)
  BY <1>2, <1>4
<1> HIDE DEF e
<1>7. events' \in Seq(Entry)
  BY <1>3, <1>5, <1>6
<1>8. \A s : FailedIn(events', s) <=> FailedIn(events, s)
  BY <1>3, <1>5, <1>6, FailedQuiet
<1>9. Row(events', step) = Row(events, step)
  BY <1>3, <1>8, RowSame
<1>10. step' > 0 /\ step' - 1 = step /\ step' \in Nat
  BY <1>1, <1>3
<1>11. Types'
  BY <1>1, <1>6, <1>7, <1>10 DEF IInv, Types, Resting, Working
<1>12. ~FailedIn(events, step')
  BY <1>1, <1>3 DEF IInv, Noted, Working
<1>13. Counted'
  BY <1>1, <1>8, <1>9, <1>10, <1>12 DEF IInv, Counted
<1>14. Noted'
  BY <1>1, <1>3, <1>8 DEF IInv, Noted, Working
<1>15. Budget'
  BY <1>1 DEF IInv, Budget, Working
<1>16. Verdict'
  BY <1>1 DEF IInv, Verdict, Working
<1> QED BY <1>11, <1>13, <1>14, <1>15, <1>16 DEF IInv

\* What is noted of an invalid answer: failures of one step, at least one.
FailedCalls(s, ids) ==
    [k \in 1..(2 * Len(ids)) |-> IF k % 2 = 1 THEN Begun(s, ids[(k + 1) \div 2])
                                 ELSE Ended(s, ids[k \div 2], FALSE)]

LEMMA InvalidLog ==
    ASSUME NEW s \in Int, NEW ids \in Seq(Int), ids # <<>>
    PROVE  /\ FailedCalls(s, ids) \in Seq(Entry)
           /\ \A t : FailedIn(FailedCalls(s, ids), t) <=> t = s
<1> DEFINE calls == FailedCalls(s, ids)
<1>1. Len(ids) \in Nat /\ Len(ids) > 0 /\ 2 * Len(ids) \in Nat
  OBVIOUS
<1>2. \A k \in 1..(2 * Len(ids)) :
        /\ k % 2 = 1 => (k + 1) \div 2 \in 1..Len(ids)
        /\ k % 2 # 1 => k \div 2 \in 1..Len(ids)
  BY <1>1
<1>3. \A k \in 1..(2 * Len(ids)) :
        /\ k % 2 = 1 => ids[(k + 1) \div 2] \in Int
        /\ k % 2 # 1 => ids[k \div 2] \in Int
  BY <1>2
<1>4. \A id \in Int : /\ Begun(s, id) \in Entry /\ Begun(s, id).kind = "tool_started"
                      /\ Ended(s, id, FALSE) \in Entry
                      /\ Ended(s, id, FALSE).kind = "tool_completed"
                      /\ ~Ended(s, id, FALSE).ok /\ Ended(s, id, FALSE).step = s
  <2>1. <<>> \in Seq(Int) /\ FALSE \in BOOLEAN
    OBVIOUS
  <2> QED BY <2>1, EventTypes
<1>5. \A k \in 1..(2 * Len(ids)) :
        /\ calls[k] \in Entry
        /\ k % 2 = 1 => calls[k].kind = "tool_started"
        /\ k % 2 # 1 => /\ calls[k].kind = "tool_completed"
                        /\ ~calls[k].ok /\ calls[k].step = s
  BY <1>3, <1>4 DEF FailedCalls
<1> DEFINE n == 2 * Len(ids)
<1>6. calls \in [1..n -> Entry]
  BY <1>5 DEF FailedCalls
<1>7. n \in Nat /\ 2 \in 1..n /\ 2 % 2 # 1
  BY <1>1
<1>8. /\ \A k \in 1..n : calls[k].kind = "tool_completed" => calls[k].step = s
      /\ calls[2].kind = "tool_completed" /\ calls[2].step = s /\ ~calls[2].ok
  BY <1>5, <1>7
<1> HIDE DEF n, calls
<1>9. calls \in Seq(Entry) /\ DOMAIN calls = 1..n
  BY <1>6, <1>7
<1>10. \A t : FailedIn(calls, t) <=> t = s
  BY <1>7, <1>8, <1>9 DEF FailedIn
<1> QED BY <1>9, <1>10 DEF calls

LEMMA AnswerInvalidCounted == IInv /\ AnswerInvalid => IInv'
<1> SUFFICES ASSUME IInv, AnswerInvalid PROVE IInv'
  OBVIOUS
<1>1. /\ pc = "waiting" /\ pc' = "invalid" /\ UNCHANGED <<step, errors, payload>>
  BY DEF AnswerInvalid
<1>2. events \in Seq(Entry) /\ step \in Nat /\ step + 1 \in Int
  BY DEF IInv, Types
<1>3. \E ids \in Seq(Int) : \E calls :
        /\ ids # <<>> /\ turn' = ids
        /\ calls = FailedCalls(step + 1, ids)
        /\ events' = events \o <<Answered(step + 1, ids)>> \o calls
  <2>1. PICK n \in 0..MaxCalls :
          LET ids == IF n = 0 THEN <<Placeholder>> ELSE CallIds(n)
          IN  /\ turn' = ids
              /\ events' = events \o <<Answered(step + 1, ids)>>
                    \o FailedCalls(step + 1, ids)
    BY DEF AnswerInvalid, FailedCalls
  <2> DEFINE ids == IF n = 0 THEN <<Placeholder>> ELSE CallIds(n)
  <2>2. ids \in Seq(Int) /\ ids # <<>>
    <3>1. CASE n = 0
      <4>1. Placeholder \in Int
        BY <1>2 DEF Placeholder
      <4>2. <<Placeholder>> \in Seq(Int) /\ <<Placeholder>> # <<>>
        BY <4>1
      <4> QED BY <3>1, <4>2
    <3>2. CASE n # 0
      <4>1. n \in Nat
        BY AgentLoopAssumption
      <4>2. CallIds(n) \in Seq(Int) /\ Len(CallIds(n)) = n
        BY <1>2, <4>1, CallIdsType
      <4> HIDE DEF ids
      <4>3. CallIds(n) # <<>>
        BY <3>2, <4>2
      <4> USE DEF ids
      <4> QED BY <3>2, <4>2, <4>3
    <3> QED BY <3>1, <3>2
  <2>3. /\ turn' = ids
        /\ events' = events \o <<Answered(step + 1, ids)>>
              \o FailedCalls(step + 1, ids)
    BY <2>1
  <2> HIDE DEF ids
  <2> QED BY <2>2, <2>3
<1>4. PICK ids \in Seq(Int) : \E calls :
        /\ ids # <<>> /\ turn' = ids
        /\ calls = FailedCalls(step + 1, ids)
        /\ events' = events \o <<Answered(step + 1, ids)>> \o calls
  BY <1>3
<1>5. PICK calls :
        /\ ids # <<>> /\ turn' = ids
        /\ calls = FailedCalls(step + 1, ids)
        /\ events' = events \o <<Answered(step + 1, ids)>> \o calls
  BY <1>4
<1>6. calls \in Seq(Entry) /\ \A t : FailedIn(calls, t) <=> t = step + 1
  BY <1>2, <1>5, InvalidLog
<1> DEFINE e == Answered(step + 1, ids)
<1>7. e \in Entry /\ e.kind = "llm_step"
  BY <1>2, AnsweredType
<1>8. events' = events \o <<e>> \o calls
  BY <1>5
<1> HIDE DEF e
<1> DEFINE a == Append(events, e)
<1>9. a \in Seq(Entry) /\ events' = a \o calls
  BY <1>2, <1>6, <1>7, <1>8
<1>10. \A s : FailedIn(a, s) <=> FailedIn(events, s)
  BY <1>2, <1>7, FailedQuiet
<1> HIDE DEF a
<1>11. \A s : FailedIn(events', s) <=> FailedIn(events, s) \/ s = step + 1
  <2>1. \A s : FailedIn(a \o calls, s) <=> FailedIn(a, s) \/ FailedIn(calls, s)
    BY <1>6, <1>9, FailedAppend
  <2> QED BY <1>6, <1>9, <1>10, <2>1
<1>12. events' \in Seq(Entry)
  BY <1>6, <1>9
<1>13. Row(events', step) = Row(events, step)
  <2>1. \A s \in 1..step : s # step + 1
    BY <1>2
  <2> QED BY <1>2, <1>11, <2>1, RowSame
<1>14. turn' \in Seq(Int) /\ turn' # <<>>
  BY <1>5
<1>15. Types'
  BY <1>1, <1>12, <1>14 DEF IInv, Types, Resting, Working
<1>16. Counted'
  BY <1>1, <1>13 DEF IInv, Counted
<1>17. Noted'
  BY <1>1, <1>11 DEF IInv, Noted, Working
<1>18. Budget'
  BY <1>1 DEF IInv, Budget, Working
<1>19. Verdict'
  BY <1>1 DEF IInv, Verdict, Working
<1> QED BY <1>15, <1>16, <1>17, <1>18, <1>19 DEF IInv

\* The invalid answer is counted once its failures were noted.
LEMMA AdvanceInvalidCounted == IInv /\ AdvanceInvalid => IInv'
<1> SUFFICES ASSUME IInv, AdvanceInvalid PROVE IInv'
  OBVIOUS
<1>1. /\ pc = "invalid" /\ pc' = "between" /\ step' = step + 1 /\ errors' = errors + 1
      /\ turn' = <<>> /\ UNCHANGED <<events, payload>>
  BY DEF AdvanceInvalid
<1>2. step \in Nat /\ errors \in Nat /\ <<>> \in Seq(Int)
  BY DEF IInv, Types
<1>3. FailedIn(events, step + 1) /\ errors = Cardinality(Row(events, step))
  BY <1>1 DEF IInv, Noted, Counted
<1>4. Cardinality(Row(events, step + 1)) = errors + 1
  BY <1>2, <1>3, RowGrows
<1>5. Types'
  BY <1>1, <1>2 DEF IInv, Types, Resting, Working
<1>6. Counted'
  BY <1>1, <1>4 DEF Counted
<1>7. Noted'
  BY <1>1, <1>2 DEF IInv, Noted, Working
<1>8. Budget'
  BY <1>1, <1>2, AgentLoopAssumption DEF IInv, Budget, Working
<1>9. Verdict'
  BY <1>1 DEF IInv, Verdict, Working
<1> QED BY <1>5, <1>6, <1>7, <1>8, <1>9 DEF IInv

-----------------------------------------------------------------------------
(* The end of a run.                                                       *)

\* The end is noted too, and it is no failure.
LEMMA FinishNoted ==
    ASSUME IInv, NEW ok \in BOOLEAN, NEW log \in Seq(Entry),
           NEW stop, Finish(ok, stop, log)
    PROVE  /\ pc' = "done" /\ payload'.stop = stop
           /\ events' \in Seq(Entry)
           /\ \A s : FailedIn(events', s) <=> FailedIn(log, s)
<1> DEFINE e == Finished(ok)
<1>1. e \in Entry /\ e.kind = "agent_finished"
  <2>1. step \in Int
    BY DEF IInv, Types
  <2> QED BY <2>1, FinishedType
<1>2. pc' = "done" /\ events' = Append(log, e) /\ payload'.stop = stop
  BY DEF Finish
<1> HIDE DEF e
<1>3. events' \in Seq(Entry)
  BY <1>1, <1>2
<1>4. \A s : FailedIn(events', s) <=> FailedIn(log, s)
  BY <1>1, <1>2, FailedQuiet
<1> QED BY <1>2, <1>3, <1>4

\* A run that ends at rest, whatever its log: nothing is counted any more.
LEMMA EndCounted ==
    ASSUME Types, pc' = "done", events' \in Seq(Entry), turn' = turn,
           step' \in Nat, errors' \in Nat,
           payload'.stop \in {"errors", "steps"} =>
             (payload'.stop = "errors" <=>
                Limited(MaxToolErrors) /\ Cardinality(Row(events', step')) = MaxToolErrors)
    PROVE  IInv'
<1>1. Types'
  BY DEF Types, Resting, Working
<1>2. Counted' /\ Noted' /\ Budget' /\ Verdict'
  BY DEF Counted, Noted, Budget, Verdict, Working
<1> QED BY <1>1, <1>2 DEF IInv

LEMMA AbortCounted ==
    ASSUME IInv, AbortDueToStepLimit \/ AbortDueToToolErrors
    PROVE  IInv'
<1> DEFINE stop == IF pc = "head" THEN "steps" ELSE "errors"
<1>1. /\ Finish(FALSE, stop, events)
      /\ pc \in {"head", "between"} /\ (pc = "between" => OutOfErrors)
      /\ UNCHANGED <<turn, step, errors>>
  BY DEF AbortDueToStepLimit, AbortDueToToolErrors
<1>2. events \in Seq(Entry) /\ step \in Nat /\ errors \in Nat
  BY DEF IInv, Types
<1> HIDE DEF stop
<1>3. /\ pc' = "done" /\ payload'.stop = stop /\ events' \in Seq(Entry)
      /\ \A s : FailedIn(events', s) <=> FailedIn(events, s)
  BY <1>1, <1>2, FinishNoted
<1>4. Row(events', step') = Row(events, step)
  BY <1>1, <1>2, <1>3, RowSame
<1>5. errors = Cardinality(Row(events, step))
  BY <1>1 DEF IInv, Counted
<1>6. stop = "errors" <=> Limited(MaxToolErrors) /\ errors = MaxToolErrors
  <2>1. CASE pc = "head"
    <3>1. Limited(MaxToolErrors) => errors < MaxToolErrors
      BY <2>1 DEF IInv, Budget, Working
    <3> QED BY <1>2, <2>1, <3>1, AgentLoopAssumption DEF stop
  <2>2. CASE pc = "between"
    <3>1. Limited(MaxToolErrors) /\ errors >= MaxToolErrors
      BY <1>1, <2>2 DEF OutOfErrors
    <3>2. errors <= MaxToolErrors
      BY <2>2, <3>1 DEF IInv, Budget, Working
    <3> QED BY <1>2, <2>2, <3>1, <3>2, AgentLoopAssumption DEF stop
  <2> QED BY <1>1, <2>1, <2>2
<1> QED BY <1>1, <1>2, <1>3, <1>4, <1>5, <1>6, EndCounted DEF IInv

LEMMA AnswerTextCounted == IInv /\ AnswerText => IInv'
<1> SUFFICES ASSUME IInv, AnswerText PROVE IInv'
  OBVIOUS
<1> DEFINE e == Answered(step + 1, <<>>)
           log == Append(events, e)
<1>1. Finish(TRUE, "text", log) /\ step' = step + 1 /\ UNCHANGED <<turn, errors>>
  BY DEF AnswerText
<1>2. events \in Seq(Entry) /\ step \in Nat /\ errors \in Nat
  BY DEF IInv, Types
<1>3. e \in Entry
  <2>1. step + 1 \in Int /\ <<>> \in Seq(Int)
    BY <1>2
  <2> QED BY <2>1, AnsweredType
<1> HIDE DEF e
<1>4. log \in Seq(Entry)
  BY <1>2, <1>3
<1> HIDE DEF log
<1>5. pc' = "done" /\ payload'.stop = "text" /\ events' \in Seq(Entry)
  BY <1>1, <1>4, FinishNoted
<1>6. step' \in Nat /\ errors' \in Nat /\ "text" \notin {"errors", "steps"}
  BY <1>1, <1>2
<1> QED BY <1>1, <1>5, <1>6, EndCounted DEF IInv

LEMMA ModelFailsCounted == IInv /\ ModelFails => IInv'
<1> SUFFICES ASSUME IInv, ModelFails PROVE IInv'
  OBVIOUS
<1>1. Finish(FALSE, "exception", events) /\ UNCHANGED <<turn, step, errors>>
  BY DEF ModelFails
<1>2. events \in Seq(Entry) /\ step \in Nat /\ errors \in Nat
  BY DEF IInv, Types
<1>3. pc' = "done" /\ payload'.stop = "exception" /\ events' \in Seq(Entry)
  BY <1>1, <1>2, FinishNoted
<1>4. "exception" \notin {"errors", "steps"}
  OBVIOUS
<1> QED BY <1>1, <1>2, <1>3, <1>4, EndCounted DEF IInv

-----------------------------------------------------------------------------
LEMMA SilentSteps ==
    ASSUME IInv, Stop \/ Cancelled \/ Request \/ NextIteration \/ UNCHANGED vars
    PROVE  IInv'
<1>1. CASE Stop
  BY <1>1, SilentCounted DEF Stop, run
<1>2. CASE Cancelled
  BY <1>2, SilentCounted DEF Cancelled, run, Working
<1>3. CASE Request
  BY <1>3, SilentCounted DEF Request, run
<1>4. CASE NextIteration
  BY <1>4, SilentCounted DEF NextIteration, run
<1>5. CASE UNCHANGED vars
  BY <1>5, SilentCounted DEF vars, run
<1> QED BY <1>1, <1>2, <1>3, <1>4, <1>5

LEMMA IInvNext == IInv /\ [Next]_vars => IInv'
<1> SUFFICES ASSUME IInv, [Next]_vars PROVE IInv'
  OBVIOUS
<1>1. CASE Prompt
  BY <1>1, PromptCounted
<1>2. CASE Stop \/ Cancelled \/ Request \/ NextIteration \/ UNCHANGED vars
  BY <1>2, SilentSteps
<1>3. CASE AbortDueToStepLimit \/ AbortDueToToolErrors
  BY <1>3, AbortCounted
<1>4. CASE AnswerText
  BY <1>4, AnswerTextCounted
<1>5. CASE AnswerCalls
  BY <1>5, AnswerCallsCounted
<1>6. CASE AnswerInvalid
  BY <1>6, AnswerInvalidCounted
<1>7. CASE AdvanceInvalid
  BY <1>7, AdvanceInvalidCounted
<1>8. CASE ModelFails
  BY <1>8, ModelFailsCounted
<1>9. CASE RunTool
  BY <1>9, RunToolCounted
<1>10. CASE ToolSucceeds
  BY <1>10, ToolSucceedsCounted
<1>11. CASE ToolFails
  BY <1>11, ToolFailsCounted
<1>12. CASE EndTurn
  BY <1>12, EndTurnCounted
<1> QED BY <1>1, <1>2, <1>3, <1>4, <1>5, <1>6, <1>7, <1>8, <1>9, <1>10, <1>11, <1>12
        DEF Next, Worker

\* The agent's error budget, for every limit and length of the chat: the counter
\* _consecutive_tool_errors agrees before every request with the failures the
\* recorder noted, and a run is aborted for errors exactly when as many answers
\* in a row as the limit allows have failed.
THEOREM ErrorsAreCounted == Spec => []FailuresAreCounted
<1>1. IInv => FailuresAreCounted
  BY FailuresInARowIs DEF IInv, Counted, Budget, Verdict, Working, FailuresAreCounted
<1> QED BY <1>1, IInvInit, IInvNext, PTL DEF Spec

-----------------------------------------------------------------------------
(* The timeline of a log, and the messages a timeline is replayed as.      *)

Noteworthy(log) ==
    [k \in DOMAIN log |-> /\ log[k].kind # "tool_completed"
                          /\ ~\E j \in 1..(k - 1) : SameEntry(log[j], log[k])]

LEMMA TimelineIs == ASSUME NEW log PROVE Timeline(log) = Picked(log, Noteworthy(log))
BY DEF Timeline, Noteworthy

LEMMA TimelineEmpty == Timeline(<<>>) = <<>>
BY TimelineIs, PickedEmpty

LEMMA TimelineAppend ==
    ASSUME NEW log \in Seq(Entry), NEW e \in Entry
    PROVE  /\ e.kind = "tool_completed" => Timeline(Append(log, e)) = Timeline(log)
           /\ e.kind # "tool_completed" /\ (\A k \in DOMAIN log : ~SameEntry(log[k], e)) =>
                Timeline(Append(log, e)) = Append(Timeline(log), e)
<1> DEFINE n == Len(log)
           more == Append(log, e)
           a == Noteworthy(log)
           b == Noteworthy(more)
<1>1. /\ n \in Nat /\ DOMAIN log = 1..n /\ DOMAIN more = 1..(n + 1)
      /\ \A k \in 1..n : more[k] = log[k]
      /\ more[n + 1] = e
  OBVIOUS
<1> HIDE DEF more
<1>2. ASSUME NEW k \in 1..n PROVE a[k] = b[k]
  <2>1. k \in DOMAIN log /\ k \in DOMAIN more /\ \A j \in 1..(k - 1) : j \in 1..n
    BY <1>1
  <2>2. a[k] = (/\ log[k].kind # "tool_completed"
                /\ ~\E j \in 1..(k - 1) : SameEntry(log[j], log[k]))
    BY <2>1 DEF Noteworthy
  <2>3. b[k] = (/\ more[k].kind # "tool_completed"
                /\ ~\E j \in 1..(k - 1) : SameEntry(more[j], more[k]))
    BY <2>1 DEF Noteworthy
  <2>4. more[k] = log[k] /\ \A j \in 1..(k - 1) : more[j] = log[j]
    BY <1>1, <2>1
  <2>5. (\E j \in 1..(k - 1) : SameEntry(log[j], log[k]))
          <=> (\E j \in 1..(k - 1) : SameEntry(more[j], more[k]))
    BY <2>4
  <2> QED BY <2>2, <2>3, <2>4, <2>5
<1>3. b[n + 1] <=> /\ e.kind # "tool_completed"
                   /\ ~\E j \in 1..n : SameEntry(log[j], e)
  <2>1. n + 1 \in DOMAIN more /\ (n + 1) - 1 = n
    BY <1>1
  <2>2. b[n + 1] <=> /\ more[n + 1].kind # "tool_completed"
                     /\ ~\E j \in 1..n : SameEntry(more[j], more[n + 1])
    BY <2>1 DEF Noteworthy
  <2> QED BY <1>1, <2>2
<1>4. Picked(more, b) = IF b[n + 1] THEN Append(Picked(log, a), e) ELSE Picked(log, a)
  <2> HIDE DEF a, b
  <2> QED BY <1>2, PickedAppend DEF more
<1> HIDE DEF a, b
<1>5. Timeline(log) = Picked(log, a) /\ Timeline(more) = Picked(more, b)
  BY TimelineIs DEF a, b
<1> QED BY <1>1, <1>3, <1>4, <1>5 DEF more

\* Every entry of the timeline is in the log, and no call's end is among them.
Listed(log) == {log[k] : k \in {j \in DOMAIN log : log[j].kind # "tool_completed"}}

LEMMA TimelineIn == ASSUME NEW log \in Seq(Entry) PROVE Timeline(log) \in Seq(Listed(log))
<1> DEFINE a == Noteworthy(log)
<1>1. ASSUME NEW n \in 1..Len(log), a[n] PROVE log[n] \in Listed(log)
  <2>1. n \in DOMAIN log
    OBVIOUS
  <2>2. log[n].kind # "tool_completed"
    BY <1>1, <2>1 DEF Noteworthy
  <2> QED BY <2>1, <2>2 DEF Listed
<1>2. Len(log) \in Nat
  OBVIOUS
<1> HIDE DEF a
<1>3. Picked(log, a) \in Seq(Listed(log))
  BY <1>1, <1>2, PickedType
<1> QED BY <1>3, TimelineIs DEF a

Line == {e \in Entry : e.kind # "tool_completed"}

LEMMA TimelineType == ASSUME NEW log \in Seq(Entry) PROVE Timeline(log) \in Seq(Line)
<1> DEFINE N == Listed(log)
<1>1. N \subseteq Line
  <2>1. \A k \in DOMAIN log : log[k] \in Entry
    OBVIOUS
  <2> QED BY <2>1 DEF Listed, Line
<1>2. Timeline(log) \in Seq(N)
  BY TimelineIn
<1> HIDE DEF N
<1> QED BY <1>1, <1>2

\* The stored results a call's turn is replayed with.
Unused(line, known, calls, k) ==
    [c \in DOMAIN calls |-> /\ calls[c] \in known
                            /\ ~\E j \in 1..(k - 1) : Mentions(line[j], calls[c])
                            /\ ~\E d \in 1..(c - 1) : calls[d] = calls[c]]
Tools(ids) == [c \in DOMAIN ids |-> Tool(ids[c], 1)]
Answers(line, known, calls, k) == Tools(Picked(calls, Unused(line, known, calls, k)))
Shown(line, known, closing, k) ==
    CASE line[k].kind = "llm_step" ->
           <<Assistant(line[k].calls)>> \o Answers(line, known, line[k].calls, k)
      [] line[k].kind = "tool_started" -> Answers(line, known, <<line[k].of>>, k)
      [] line[k].kind = "agent_finished" -> closing

\* f[k] is what the first k entries are replayed as.
Replaying(f, line, known, closing, L) ==
    f = [k \in 0..L |->
           IF k = 0 THEN <<>> ELSE f[k - 1] \o Shown(line, known, closing, k)]

LEMMA ReplayingExists ==
    ASSUME NEW line, NEW known, NEW closing, NEW L \in Nat
    PROVE  \E f : Replaying(f, line, known, closing, L)
<1> DEFINE S == {m \in 0..L : \E f : Replaying(f, line, known, closing, m)}
<1>1. 0 \in S
  <2> DEFINE f == [n \in 0..0 |-> <<>>]
  <2>1. Replaying(f, line, known, closing, 0)
    BY DEF Replaying
  <2> HIDE DEF f
  <2> QED BY <2>1
<1>2. ASSUME NEW m \in 0..L, m \in S, m < L PROVE m + 1 \in S
  <2>1. PICK f : Replaying(f, line, known, closing, m)
    BY <1>2
  <2> DEFINE next(n) == Shown(line, known, closing, n)
             g == [n \in 0..(m + 1) |-> IF n <= m THEN f[n] ELSE f[m] \o next(n)]
             h == [n \in 0..(m + 1) |-> IF n = 0 THEN <<>> ELSE g[n - 1] \o next(n)]
  <2> HIDE DEF next
  <2>2. ASSUME NEW n \in 0..(m + 1) PROVE g[n] = h[n]
    <3>1. CASE n <= m
      <4>1. n \in 0..m /\ g[n] = f[n] /\ (n # 0 => n - 1 \in 0..(m + 1) /\ n - 1 <= m)
        BY <3>1
      <4>2. n # 0 => g[n - 1] = f[n - 1]
        BY <4>1
      <4>3. f[n] = IF n = 0 THEN <<>> ELSE f[n - 1] \o next(n)
        BY <2>1, <4>1 DEF Replaying, next
      <4>4. h[n] = IF n = 0 THEN <<>> ELSE g[n - 1] \o next(n)
        OBVIOUS
      <4> HIDE DEF g, h
      <4> QED BY <4>1, <4>2, <4>3, <4>4
    <3>2. CASE n = m + 1
      <4>1. g[m] = f[m] /\ n # 0 /\ n - 1 = m /\ ~(n <= m)
        BY <3>2
      <4> QED BY <4>1
    <3> QED BY <3>1, <3>2
  <2>3. g = [n \in 0..(m + 1) |-> g[n]] /\ h = [n \in 0..(m + 1) |-> h[n]]
    OBVIOUS
  <2>4. h = [n \in 0..(m + 1) |-> IF n = 0 THEN <<>> ELSE g[n - 1] \o next(n)]
    OBVIOUS
  <2> HIDE DEF g, h
  <2>5. g = h
    BY <2>2, <2>3
  <2>6. Replaying(g, line, known, closing, m + 1)
    BY <2>4, <2>5 DEF Replaying, next
  <2> QED BY <1>2, <2>6
<1> HIDE DEF S
<1>3. 0..L \subseteq S
  BY <1>1, <1>2, CountedUp
<1>4. L \in S
  BY <1>3
<1> QED BY <1>4 DEF S

LEMMA ReplayIs ==
    ASSUME NEW line, NEW known, NEW closing, Len(line) \in Nat
    PROVE  \E f : /\ Replaying(f, line, known, closing, Len(line))
                  /\ Replay(line, known, closing) = f[Len(line)]
<1> DEFINE f == CHOOSE f : Replaying(f, line, known, closing, Len(line))
<1>1. Replaying(f, line, known, closing, Len(line))
  BY ReplayingExists
<1>2. Replay(line, known, closing) = f[Len(line)]
  BY DEF Replay, Replaying, Shown, Answers, Tools, Unused
<1> HIDE DEF f
<1> QED BY <1>1, <1>2

\* What each entry of a timeline carries on holds of the whole replay.
LEMMA ReplayInduction ==
    ASSUME NEW line, Len(line) \in Nat, NEW known, NEW closing, NEW P, <<>> \in P,
           \A m \in P : \A k \in 1..Len(line) : m \o Shown(line, known, closing, k) \in P
    PROVE  Replay(line, known, closing) \in P
<1>1. PICK f : /\ Replaying(f, line, known, closing, Len(line))
               /\ Replay(line, known, closing) = f[Len(line)]
  BY ReplayIs
<1> DEFINE L == Len(line)
           S == {n \in 0..L : f[n] \in P}
<1>2. 0 \in S
  <2>1. f[0] = <<>>
    BY <1>1 DEF Replaying
  <2> QED BY <2>1
<1>3. ASSUME NEW n \in 0..L, n \in S, n < L PROVE n + 1 \in S
  <2>1. n + 1 \in 0..L /\ n + 1 # 0 /\ (n + 1) - 1 = n /\ n + 1 \in 1..L
    BY <1>3
  <2>2. f[n + 1] = f[n] \o Shown(line, known, closing, n + 1)
    BY <1>1, <2>1 DEF Replaying
  <2>3. f[n] \in P
    BY <1>3
  <2>4. f[n + 1] \in P
    BY <2>1, <2>2, <2>3
  <2> QED BY <2>1, <2>4
<1> HIDE DEF S, L
<1>4. 0..L \subseteq S
  BY <1>2, <1>3, CountedUp DEF L
<1>5. L \in S
  BY <1>4 DEF L
<1> QED BY <1>1, <1>5 DEF S, L

-----------------------------------------------------------------------------
(* Types of the messages and of the panel's record.                        *)

LEMMA MessageTypes ==
    /\ User \in Message /\ User.role = "user" /\ User.calls = <<>>
    /\ \A ids \in Seq(Int) : Assistant(ids) \in Message
    /\ \A id \in Int, t \in Nat : Tool(id, t) \in Message
<1>1. <<>> \in Seq(Int) /\ 0 \in Int /\ 1 \in Nat
  OBVIOUS
<1> QED BY <1>1 DEF Message, User, Assistant, Tool

LEMMA ToolsType == ASSUME NEW ids \in Seq(Int) PROVE Tools(ids) \in Seq(Message)
<1>1. \A c \in DOMAIN ids : Tool(ids[c], 1) \in Message
  BY MessageTypes
<1>2. DOMAIN ids = 1..Len(ids) /\ Len(ids) \in Nat
  OBVIOUS
<1>3. Tools(ids) \in [1..Len(ids) -> Message]
  BY <1>1, <1>2 DEF Tools
<1> QED BY <1>2, <1>3

LEMMA AnswersType ==
    ASSUME NEW line, NEW known, NEW calls \in Seq(Int), NEW k
    PROVE  Answers(line, known, calls, k) \in Seq(Message)
<1> DEFINE kept == Unused(line, known, calls, k)
<1>1. Len(calls) \in Nat /\ \A n \in 1..Len(calls) : kept[n] => calls[n] \in Int
  OBVIOUS
<1> HIDE DEF kept
<1>2. Picked(calls, kept) \in Seq(Int)
  BY <1>1, PickedType
<1> QED BY <1>2, ToolsType DEF Answers, kept

LEMMA ShownType ==
    ASSUME NEW line \in Seq(Line), NEW known, NEW closing \in Seq(Message), NEW k \in 1..Len(line)
    PROVE  Shown(line, known, closing, k) \in Seq(Message)
<1>1. line[k] \in Line
  OBVIOUS
<1>2. /\ line[k].kind \in {"llm_step", "tool_started", "agent_finished"}
      /\ line[k].of \in Int /\ line[k].calls \in Seq(Int)
  BY <1>1 DEF Line, Entry
<1>3. CASE line[k].kind = "llm_step"
  <2>1. Answers(line, known, line[k].calls, k) \in Seq(Message)
    BY <1>2, AnswersType
  <2>2. Assistant(line[k].calls) \in Message
    BY <1>2, MessageTypes
  <2>3. <<Assistant(line[k].calls)>> \o Answers(line, known, line[k].calls, k) \in Seq(Message)
    BY <2>1, <2>2
  <2> QED BY <1>3, <2>3 DEF Shown
<1>4. CASE line[k].kind = "tool_started"
  <2>1. <<line[k].of>> \in Seq(Int)
    BY <1>2
  <2>2. Answers(line, known, <<line[k].of>>, k) \in Seq(Message)
    BY <2>1, AnswersType
  <2> QED BY <1>4, <2>2 DEF Shown
<1>5. CASE line[k].kind = "agent_finished"
  BY <1>5 DEF Shown
<1> QED BY <1>2, <1>3, <1>4, <1>5

LEMMA ReplayType ==
    ASSUME NEW line \in Seq(Line), NEW known, NEW closing \in Seq(Message)
    PROVE  Replay(line, known, closing) \in Seq(Message)
<1> DEFINE P == Seq(Message)
<1>1. Len(line) \in Nat /\ <<>> \in P
  OBVIOUS
<1>2. \A m \in P : \A k \in 1..Len(line) : m \o Shown(line, known, closing, k) \in P
  BY ShownType
<1> HIDE DEF P
<1>3. Replay(line, known, closing) \in P
  BY <1>1, <1>2, ReplayInduction
<1> QED BY <1>3 DEF P

LEMMA StoreType ==
    ASSUME past \in Seq(Message), NEW log \in Seq(Entry), NEW closing \in Seq(Message),
           Store(log, closing)
    PROVE  past' \in Seq(Message)
<1>1. Timeline(log) \in Seq(Line)
  BY TimelineType
<1>2. Replay(Timeline(log), DOMAIN snapshots, closing) \in Seq(Message)
  BY <1>1, ReplayType
<1>3. <<User>> \in Seq(Message)
  BY MessageTypes
<1> DEFINE r == Replay(Timeline(log), DOMAIN snapshots, closing)
           u == <<User>>
<1>4. past' = past \o u \o r
  BY DEF Store
<1> HIDE DEF r, u
<1> QED BY <1>2, <1>3, <1>4 DEF r, u

-----------------------------------------------------------------------------
(* The type invariant.                                                     *)

Typed ==
    /\ past \in Seq(Message) /\ conversation \in Seq(Message) /\ messages \in Seq(Message)
    /\ streamed \in Seq(Entry)
    /\ errors <= step
    /\ DOMAIN snapshots \subseteq Int
    /\ Limited(MaxThoughtSteps) =>
         /\ step <= MaxThoughtSteps
         /\ pc \in {"waiting", "invalid"} => step < MaxThoughtSteps
    /\ cancelled \in BOOLEAN /\ stops \in Nat
    /\ cancelled => stops > 0

LEMMA TypedInit == Init => Typed
<1> SUFFICES ASSUME Init PROVE Typed
  OBVIOUS
<1>1. <<>> \in Seq(Message) /\ <<>> \in Seq(Entry) /\ DOMAIN <<>> = {}
  OBVIOUS
<1>2. /\ past = <<>> /\ conversation = <<>> /\ messages = <<>> /\ streamed = <<>>
      /\ snapshots = <<>> /\ cancelled = FALSE /\ step = 0 /\ errors = 0 /\ stops = 0
      /\ pc = "idle"
  BY DEF Init
<1>3. Limited(MaxThoughtSteps) =>
        /\ step <= MaxThoughtSteps
        /\ pc \in {"waiting", "invalid"} => step < MaxThoughtSteps
  BY <1>2, AgentLoopAssumption
<1>4. DOMAIN snapshots \subseteq Int
  BY <1>1, <1>2
<1>5. cancelled \in BOOLEAN /\ ~cancelled
  BY <1>2
<1>6. errors <= step /\ stops \in Nat
  BY <1>2
<1>7. /\ past \in Seq(Message) /\ conversation \in Seq(Message) /\ messages \in Seq(Message)
      /\ streamed \in Seq(Entry)
  BY <1>1, <1>2
<1> QED BY <1>3, <1>4, <1>5, <1>6, <1>7 DEF Typed

LEMMA TellsType ==
    ASSUME streamed \in Seq(Entry), NEW items \in Seq(Entry), Tells(items)
    PROVE  streamed' \in Seq(Entry)
BY DEF Tells

LEMMA PromptTyped == IInv /\ Typed /\ Prompt => Typed'
<1> SUFFICES ASSUME IInv, Typed, Prompt PROVE Typed'
  OBVIOUS
<1>1. /\ conversation' = Append(past, User) /\ messages' = <<>> /\ step' = 0 /\ errors' = 0
      /\ streamed' = <<>> /\ snapshots' = <<>> /\ cancelled' = FALSE
      /\ past' = past /\ stops' = stops /\ pc' = "head"
  BY DEF Prompt
<1>2. <<>> \in Seq(Message) /\ <<>> \in Seq(Entry) /\ DOMAIN <<>> = {}
  OBVIOUS
<1>3. conversation' \in Seq(Message)
  BY <1>1, MessageTypes DEF Typed
<1>4. Limited(MaxThoughtSteps) =>
        /\ step' <= MaxThoughtSteps
        /\ pc' \in {"waiting", "invalid"} => step' < MaxThoughtSteps
  BY <1>1, AgentLoopAssumption
<1>5. DOMAIN snapshots' \subseteq Int
  BY <1>1, <1>2
<1>6. cancelled' \in BOOLEAN /\ ~cancelled'
  BY <1>1
<1>7. errors' <= step' /\ stops' \in Nat
  BY <1>1 DEF Typed
<1>8. past' \in Seq(Message) /\ messages' \in Seq(Message) /\ streamed' \in Seq(Entry)
  BY <1>1, <1>2 DEF Typed
<1> QED BY <1>3, <1>4, <1>5, <1>6, <1>7, <1>8 DEF Typed

LEMMA StopTyped == IInv /\ Typed /\ Stop => Typed'
<1> SUFFICES ASSUME IInv, Typed, Stop PROVE Typed'
  OBVIOUS
<1>1. <<>> \in Seq(Message)
  OBVIOUS
<1>2. past' \in Seq(Message)
  BY <1>1, StoreType DEF Stop, Typed
<1>3. /\ cancelled' = TRUE /\ stops' = stops + 1
      /\ UNCHANGED <<pc, conversation, messages, streamed, errors, step, snapshots>>
  BY DEF Stop, run
<1> QED BY <1>2, <1>3 DEF Typed

\* The worker moves on without a word.
LEMMA MoveTyped ==
    ASSUME step \in Nat, Typed, UNCHANGED <<past, conversation, run, cancelled, stops>>,
           pc' \in {"waiting", "invalid"} => pc' = pc \/ ~OutOfSteps
    PROVE  Typed'
<1>1. /\ UNCHANGED <<past, conversation, messages, streamed, step, errors, snapshots>>
      /\ UNCHANGED <<cancelled, stops>>
  BY DEF run
<1>2. Limited(MaxThoughtSteps) =>
        /\ step' <= MaxThoughtSteps
        /\ pc' \in {"waiting", "invalid"} => step' < MaxThoughtSteps
  BY <1>1, AgentLoopAssumption DEF Typed, OutOfSteps
<1> QED BY <1>1, <1>2 DEF Typed

LEMMA ClosingType ==
    ASSUME NEW ok \in BOOLEAN,
           NEW closing \in IF ok THEN {<<>>} ELSE {<<>>, <<Assistant(<<>>)>>}
    PROVE  closing \in Seq(Message)
<1>1. <<>> \in Seq(Message) /\ <<>> \in Seq(Int)
  OBVIOUS
<1>2. Assistant(<<>>) \in Message
  BY <1>1, MessageTypes
<1>3. <<Assistant(<<>>)>> \in Seq(Message)
  BY <1>2
<1> QED BY <1>1, <1>3

LEMMA FinishType ==
    ASSUME IInv, Typed, NEW ok \in BOOLEAN, NEW log \in Seq(Entry), NEW stop,
           Finish(ok, stop, log)
    PROVE  past' \in Seq(Message) /\ pc' = "done"
<1>1. pc' = "done" /\ events' \in Seq(Entry)
  BY FinishNoted
<1>2. CASE cancelled
  BY <1>1, <1>2 DEF Finish, Typed
<1>3. CASE ~cancelled
  <2>1. PICK closing \in IF ok THEN {<<>>} ELSE {<<>>, <<Assistant(<<>>)>>} :
           Store(events', closing)
    BY <1>3 DEF Finish
  <2>2. closing \in Seq(Message)
    BY ClosingType
  <2>3. past \in Seq(Message)
    BY DEF Typed
  <2> QED BY <1>1, <2>1, <2>2, <2>3, StoreType
<1> QED BY <1>2, <1>3

LEMMA AbortTyped ==
    ASSUME IInv, Typed, AbortDueToStepLimit \/ AbortDueToToolErrors \/ ModelFails
    PROVE  Typed'
<1>1. PICK stop \in {"steps", "errors", "exception"} : Finish(FALSE, stop, events)
  BY DEF AbortDueToStepLimit, AbortDueToToolErrors, ModelFails
<1>2. UNCHANGED <<conversation, messages, step, errors, snapshots, streamed, cancelled, stops>>
  BY DEF AbortDueToStepLimit, AbortDueToToolErrors, ModelFails
<1>3. events \in Seq(Entry)
  BY DEF IInv, Types
<1>4. past' \in Seq(Message) /\ pc' = "done"
  BY <1>1, <1>3, FinishType
<1> QED BY <1>2, <1>4 DEF Typed

LEMMA AnswerTextTyped == IInv /\ Typed /\ AnswerText => Typed'
<1> SUFFICES ASSUME IInv, Typed, AnswerText PROVE Typed'
  OBVIOUS
<1> DEFINE e == Answered(step + 1, <<>>)
           log == Append(events, e)
<1>1. /\ pc = "waiting" /\ step' = step + 1 /\ Finish(TRUE, "text", log)
      /\ Tells(<<e>>) /\ conversation' = Append(conversation, Assistant(<<>>))
      /\ UNCHANGED <<messages, errors, snapshots, cancelled, stops>>
  BY DEF AnswerText
<1>2. step \in Nat /\ errors \in Nat /\ events \in Seq(Entry) /\ step + 1 \in Int
      /\ <<>> \in Seq(Int)
  BY DEF IInv, Types
<1>3. e \in Entry
  BY <1>2, AnsweredType
<1>4. Assistant(<<>>) \in Message
  BY <1>2, MessageTypes
<1> HIDE DEF e
<1>5. log \in Seq(Entry) /\ <<e>> \in Seq(Entry)
  BY <1>2, <1>3
<1> HIDE DEF log
<1>6. past' \in Seq(Message) /\ pc' = "done"
  BY <1>1, <1>5, FinishType
<1>7. streamed' \in Seq(Entry)
  BY <1>1, <1>5, TellsType DEF Typed
<1>8. conversation' \in Seq(Message)
  BY <1>1, <1>4 DEF Typed
<1>9. Limited(MaxThoughtSteps) => step' <= MaxThoughtSteps
  BY <1>1, <1>2, AgentLoopAssumption DEF Typed
<1> QED BY <1>1, <1>2, <1>6, <1>7, <1>8, <1>9 DEF Typed

LEMMA AnswerCallsTyped == IInv /\ Typed /\ AnswerCalls => Typed'
<1> SUFFICES ASSUME IInv, Typed, AnswerCalls PROVE Typed'
  OBVIOUS
<1>1. PICK n \in 1..MaxCalls :
        /\ conversation' = Append(conversation, Assistant(CallIds(n)))
        /\ Tells(<<Answered(step + 1, CallIds(n))>>)
  BY DEF AnswerCalls
<1>2. /\ pc = "waiting" /\ pc' = "call" /\ step' = step + 1 /\ messages' = <<>>
      /\ UNCHANGED <<past, errors, snapshots, cancelled, stops>>
  BY DEF AnswerCalls
<1>3. step \in Nat /\ errors \in Nat /\ events \in Seq(Entry) /\ step + 1 \in Int /\ n \in Nat
  BY AgentLoopAssumption DEF IInv, Types
<1>4. CallIds(n) \in Seq(Int)
  BY <1>3, CallIdsType
<1>5. Assistant(CallIds(n)) \in Message /\ Answered(step + 1, CallIds(n)) \in Entry
  BY <1>3, <1>4, MessageTypes, AnsweredType
<1>6. conversation' \in Seq(Message)
  BY <1>1, <1>5 DEF Typed
<1>7. streamed' \in Seq(Entry)
  <2>1. <<Answered(step + 1, CallIds(n))>> \in Seq(Entry)
    BY <1>5
  <2> QED BY <1>1, <2>1, TellsType DEF Typed
<1>8. Limited(MaxThoughtSteps) => step' <= MaxThoughtSteps
  BY <1>2, <1>3, AgentLoopAssumption DEF Typed
<1>9. <<>> \in Seq(Message)
  OBVIOUS
<1> QED BY <1>2, <1>3, <1>6, <1>7, <1>8, <1>9 DEF Typed

\* The effect of an invalid answer that is recorded with these ids.
AnsweredInvalid(ids) ==
    /\ ids # <<>>
    /\ ids = <<Placeholder>> \/ \E n \in 1..MaxCalls : ids = CallIds(n)
    /\ events' = events \o <<Answered(step + 1, ids)>> \o FailedCalls(step + 1, ids)
    /\ snapshots' = [k \in DOMAIN snapshots \cup Range(ids) |->
                       IF k \in Range(ids) THEN Snapshot("failed", FALSE, 0)
                       ELSE snapshots[k]]
    /\ conversation' = conversation \o <<Assistant(ids)>> \o Tools(ids)
    /\ Tells(FailedCalls(step + 1, ids))
    /\ turn' = ids

LEMMA AnswerInvalidIs ==
    ASSUME IInv, AnswerInvalid
    PROVE  \E ids \in Seq(Int) : AnsweredInvalid(ids)
<1>1. events \in Seq(Entry) /\ step \in Nat
  BY DEF IInv, Types
<1>2. PICK n \in 0..MaxCalls :
        LET ids == IF n = 0 THEN <<Placeholder>> ELSE CallIds(n)
        IN  /\ events' = events \o <<Answered(step + 1, ids)>> \o FailedCalls(step + 1, ids)
            /\ snapshots' = [k \in DOMAIN snapshots \cup Range(ids) |->
                               IF k \in Range(ids) THEN Snapshot("failed", FALSE, 0)
                               ELSE snapshots[k]]
            /\ conversation' = conversation \o <<Assistant(ids)>> \o Tools(ids)
            /\ Tells(FailedCalls(step + 1, ids))
            /\ turn' = ids
  BY DEF AnswerInvalid, FailedCalls, Tools
<1> DEFINE ids == IF n = 0 THEN <<Placeholder>> ELSE CallIds(n)
<1>3. /\ events' = events \o <<Answered(step + 1, ids)>> \o FailedCalls(step + 1, ids)
      /\ snapshots' = [k \in DOMAIN snapshots \cup Range(ids) |->
                         IF k \in Range(ids) THEN Snapshot("failed", FALSE, 0)
                         ELSE snapshots[k]]
      /\ conversation' = conversation \o <<Assistant(ids)>> \o Tools(ids)
      /\ Tells(FailedCalls(step + 1, ids))
      /\ turn' = ids
  BY <1>2
<1>4. ids \in Seq(Int) /\ ids # <<>> /\ (ids = <<Placeholder>> \/ \E m \in 1..MaxCalls : ids = CallIds(m))
  <2>1. CASE n = 0
    <3>1. Placeholder \in Int
      BY <1>1 DEF Placeholder
    <3>2. <<Placeholder>> \in Seq(Int) /\ <<Placeholder>> # <<>>
      BY <3>1
    <3> QED BY <2>1, <3>2
  <2>2. CASE n # 0
    <3>1. n \in Nat /\ n \in 1..MaxCalls
      BY <2>2, AgentLoopAssumption
    <3>2. CallIds(n) \in Seq(Int) /\ Len(CallIds(n)) = n
      BY <1>1, <3>1, CallIdsType
    <3>3. ids = CallIds(n)
      BY <2>2
    <3> HIDE DEF ids
    <3>4. CallIds(n) # <<>>
      BY <2>2, <3>2
    <3> QED BY <3>1, <3>2, <3>3, <3>4
  <2> QED BY <2>1, <2>2
<1> HIDE DEF ids
<1> QED BY <1>3, <1>4 DEF AnsweredInvalid

LEMMA AnswerInvalidTyped == IInv /\ Typed /\ AnswerInvalid => Typed'
<1> SUFFICES ASSUME IInv, Typed, AnswerInvalid PROVE Typed'
  OBVIOUS
<1>1. /\ pc = "waiting" /\ pc' = "invalid"
      /\ UNCHANGED <<past, messages, step, errors, cancelled, stops>>
  BY DEF AnswerInvalid
<1>2. step \in Nat /\ errors \in Nat /\ step + 1 \in Int
  BY DEF IInv, Types
<1>3. PICK ids \in Seq(Int) : AnsweredInvalid(ids)
  BY AnswerInvalidIs
<1>4. /\ snapshots' = [k \in DOMAIN snapshots \cup Range(ids) |->
                         IF k \in Range(ids) THEN Snapshot("failed", FALSE, 0)
                         ELSE snapshots[k]]
      /\ conversation' = conversation \o <<Assistant(ids)>> \o Tools(ids)
      /\ Tells(FailedCalls(step + 1, ids))
      /\ ids # <<>>
  BY <1>3 DEF AnsweredInvalid
<1>5. conversation' \in Seq(Message)
  <2> DEFINE a == Assistant(ids)
             b == Tools(ids)
  <2>1. a \in Message /\ b \in Seq(Message)
    BY MessageTypes, ToolsType
  <2>2. conversation \in Seq(Message) /\ conversation' = conversation \o <<a>> \o b
    BY <1>4 DEF Typed
  <2> HIDE DEF a, b
  <2> QED BY <2>1, <2>2
<1>6. streamed' \in Seq(Entry)
  <2>1. FailedCalls(step + 1, ids) \in Seq(Entry)
    BY <1>2, <1>4, InvalidLog
  <2> QED BY <1>4, <2>1, TellsType DEF Typed
<1>7. DOMAIN snapshots' \subseteq Int
  <2>1. \A c \in DOMAIN ids : ids[c] \in Int
    OBVIOUS
  <2>2. Range(ids) \subseteq Int
    BY <2>1 DEF Range
  <2> QED BY <1>4, <2>2 DEF Typed
<1>8. Limited(MaxThoughtSteps) =>
        /\ step' <= MaxThoughtSteps
        /\ pc' \in {"waiting", "invalid"} => step' < MaxThoughtSteps
  BY <1>1 DEF Typed
<1> QED BY <1>1, <1>5, <1>6, <1>7, <1>8 DEF Typed

LEMMA AdvanceInvalidTyped == IInv /\ Typed /\ AdvanceInvalid => Typed'
<1> SUFFICES ASSUME IInv, Typed, AdvanceInvalid PROVE Typed'
  OBVIOUS
<1>1. /\ pc = "invalid" /\ pc' = "between" /\ step' = step + 1 /\ errors' = errors + 1
      /\ Tells(<<Answered(step + 1, turn)>>)
      /\ UNCHANGED <<past, conversation, messages, snapshots, cancelled, stops>>
  BY DEF AdvanceInvalid
<1>2. step \in Nat /\ errors \in Nat /\ step + 1 \in Int /\ turn \in Seq(Int)
  BY DEF IInv, Types
<1>3. Answered(step + 1, turn) \in Entry
  BY <1>2, AnsweredType
<1>4. <<Answered(step + 1, turn)>> \in Seq(Entry)
  BY <1>3
<1>5. streamed' \in Seq(Entry)
  BY <1>1, <1>4, TellsType DEF Typed
<1>6. errors' <= step'
  BY <1>1, <1>2 DEF Typed
<1>7. Limited(MaxThoughtSteps) =>
        /\ step' <= MaxThoughtSteps
        /\ pc' \in {"waiting", "invalid"} => step' < MaxThoughtSteps
  BY <1>1, <1>2, AgentLoopAssumption DEF Typed
<1> QED BY <1>1, <1>5, <1>6, <1>7 DEF Typed

LEMMA RunToolTyped == IInv /\ Typed /\ RunTool => Typed'
<1> SUFFICES ASSUME IInv, Typed, RunTool PROVE Typed'
  OBVIOUS
<1>1. /\ pc' = "running" /\ turn # <<>>
      /\ snapshots' = Record(Head(turn), Snapshot("running", FALSE, 0))
      /\ Tells(<<Begun(step, Head(turn))>>)
      /\ UNCHANGED <<past, conversation, messages, step, errors, cancelled, stops>>
  BY DEF RunTool
<1>2. step \in Nat /\ step \in Int /\ Head(turn) \in Int
  BY <1>1 DEF IInv, Types
<1>3. Begun(step, Head(turn)) \in Entry
  BY <1>2, EventTypes
<1>4. <<Begun(step, Head(turn))>> \in Seq(Entry)
  BY <1>3
<1>5. streamed' \in Seq(Entry)
  BY <1>1, <1>4, TellsType DEF Typed
<1>6. DOMAIN snapshots' \subseteq Int
  BY <1>1, <1>2 DEF Typed, Record
<1>7. Limited(MaxThoughtSteps) =>
        /\ step' <= MaxThoughtSteps
        /\ pc' \in {"waiting", "invalid"} => step' < MaxThoughtSteps
  BY <1>1 DEF Typed
<1> QED BY <1>1, <1>5, <1>6, <1>7 DEF Typed

LEMMA ToolSucceedsTyped == IInv /\ Typed /\ ToolSucceeds => Typed'
<1> SUFFICES ASSUME IInv, Typed, ToolSucceeds PROVE Typed'
  OBVIOUS
<1>1. /\ pc = "running" /\ pc' = "call"
      /\ snapshots' = Record(Head(turn), Snapshot("succeeded", FALSE, Len(executed) + 1))
      /\ Tells(<<Ended(step, Head(turn), TRUE)>>)
      /\ UNCHANGED <<past, conversation, step, errors, cancelled, stops>>
  BY DEF ToolSucceeds
<1>2. PICK t \in ResultTokens : messages' = Append(messages, Tool(Head(turn), t))
  BY DEF ToolSucceeds
<1>3. step \in Nat /\ step \in Int /\ Head(turn) \in Int /\ t \in Nat
  BY <1>1, AgentLoopAssumption DEF IInv, Types
<1>4. Ended(step, Head(turn), TRUE) \in Entry /\ Tool(Head(turn), t) \in Message
  BY <1>3, EventTypes, MessageTypes
<1>5. <<Ended(step, Head(turn), TRUE)>> \in Seq(Entry)
  <2> DEFINE e == Ended(step, Head(turn), TRUE)
  <2>1. e \in Entry
    BY <1>4
  <2> HIDE DEF e
  <2>2. <<e>> \in Seq(Entry)
    BY <2>1
  <2> QED BY <2>2 DEF e
<1>6. streamed' \in Seq(Entry)
  BY <1>1, <1>5, TellsType DEF Typed
<1>7. DOMAIN snapshots' \subseteq Int
  BY <1>1, <1>3 DEF Typed, Record
<1>8. messages' \in Seq(Message)
  BY <1>2, <1>4 DEF Typed
<1>9. Limited(MaxThoughtSteps) =>
        /\ step' <= MaxThoughtSteps
        /\ pc' \in {"waiting", "invalid"} => step' < MaxThoughtSteps
  BY <1>1 DEF Typed
<1> QED BY <1>1, <1>6, <1>7, <1>8, <1>9 DEF Typed

LEMMA ToolFailsTyped == IInv /\ Typed /\ ToolFails => Typed'
<1> SUFFICES ASSUME IInv, Typed, ToolFails PROVE Typed'
  OBVIOUS
<1>1. /\ pc = "running" /\ pc' = "between" /\ errors' = errors + 1
      /\ conversation' = Append(conversation \o messages, Tool(Head(turn), 1))
      /\ Tells(<<Ended(step, Head(turn), FALSE)>>) /\ messages' = <<>>
      /\ UNCHANGED <<past, step, cancelled, stops>>
  BY DEF ToolFails
<1>2. PICK reached \in BOOLEAN :
        snapshots' = Record(Head(turn), Snapshot("failed", ~reached, Len(executed')))
  BY DEF ToolFails
<1>3. step \in Nat /\ step \in Int /\ errors \in Nat /\ Head(turn) \in Int
  BY <1>1 DEF IInv, Types
<1>4. Ended(step, Head(turn), FALSE) \in Entry /\ Tool(Head(turn), 1) \in Message
  BY <1>3, EventTypes, MessageTypes
<1>5. <<Ended(step, Head(turn), FALSE)>> \in Seq(Entry)
  <2> DEFINE e == Ended(step, Head(turn), FALSE)
  <2>1. e \in Entry
    BY <1>4
  <2> HIDE DEF e
  <2>2. <<e>> \in Seq(Entry)
    BY <2>1
  <2> QED BY <2>2 DEF e
<1>6. streamed' \in Seq(Entry)
  BY <1>1, <1>5, TellsType DEF Typed
<1>7. DOMAIN snapshots' \subseteq Int
  BY <1>2, <1>3 DEF Typed, Record
<1>8. conversation' \in Seq(Message) /\ messages' \in Seq(Message)
  BY <1>1, <1>4 DEF Typed
<1>9. errors' <= step'
  <2>1. step > 0 /\ errors = Cardinality(Row(events, step - 1))
    BY <1>1 DEF IInv, Counted
  <2>2. step - 1 \in Nat
    BY <1>3, <2>1
  <2>3. Cardinality(Row(events, step - 1)) \in 0..(step - 1)
    BY <2>2, RowFinite
  <2> QED BY <1>1, <1>3, <2>1, <2>3
<1>10. Limited(MaxThoughtSteps) =>
        /\ step' <= MaxThoughtSteps
        /\ pc' \in {"waiting", "invalid"} => step' < MaxThoughtSteps
  BY <1>1 DEF Typed
<1> QED BY <1>1, <1>6, <1>7, <1>8, <1>9, <1>10 DEF Typed

LEMMA EndTurnTyped == IInv /\ Typed /\ EndTurn => Typed'
<1> SUFFICES ASSUME IInv, Typed, EndTurn PROVE Typed'
  OBVIOUS
<1>1. /\ pc' = "between" /\ errors' = 0 /\ messages' = <<>>
      /\ conversation' = conversation \o messages
      /\ UNCHANGED <<past, step, streamed, snapshots, cancelled, stops>>
  BY DEF EndTurn
<1>2. step \in Nat /\ <<>> \in Seq(Message)
  BY DEF IInv, Types
<1>3. conversation' \in Seq(Message)
  BY <1>1 DEF Typed
<1>4. errors' <= step'
  BY <1>1, <1>2
<1>5. Limited(MaxThoughtSteps) =>
        /\ step' <= MaxThoughtSteps
        /\ pc' \in {"waiting", "invalid"} => step' < MaxThoughtSteps
  BY <1>1 DEF Typed
<1> QED BY <1>1, <1>2, <1>3, <1>4, <1>5 DEF Typed

LEMMA MovesTyped ==
    ASSUME IInv, Typed, Cancelled \/ Request \/ NextIteration \/ UNCHANGED vars
    PROVE  Typed'
<1>1. step \in Nat
  BY DEF IInv, Types
<1>2. UNCHANGED <<past, conversation, run, cancelled, stops>>
  BY DEF Cancelled, Request, NextIteration, vars
<1>3. pc' \in {"waiting", "invalid"} => pc' = pc \/ ~OutOfSteps
  BY DEF Cancelled, Request, NextIteration, vars
<1> QED BY <1>1, <1>2, <1>3, MoveTyped

LEMMA TypedNext == IInv /\ Typed /\ [Next]_vars => Typed'
<1> SUFFICES ASSUME IInv, Typed, [Next]_vars PROVE Typed'
  OBVIOUS
<1>1. CASE Prompt
  BY <1>1, PromptTyped
<1>2. CASE Stop
  BY <1>2, StopTyped
<1>3. CASE Cancelled \/ Request \/ NextIteration \/ UNCHANGED vars
  BY <1>3, MovesTyped
<1>4. CASE AbortDueToStepLimit \/ AbortDueToToolErrors \/ ModelFails
  BY <1>4, AbortTyped
<1>5. CASE AnswerText
  BY <1>5, AnswerTextTyped
<1>6. CASE AnswerCalls
  BY <1>6, AnswerCallsTyped
<1>7. CASE AnswerInvalid
  BY <1>7, AnswerInvalidTyped
<1>8. CASE AdvanceInvalid
  BY <1>8, AdvanceInvalidTyped
<1>9. CASE RunTool
  BY <1>9, RunToolTyped
<1>10. CASE ToolSucceeds
  BY <1>10, ToolSucceedsTyped
<1>11. CASE ToolFails
  BY <1>11, ToolFailsTyped
<1>12. CASE EndTurn
  BY <1>12, EndTurnTyped
<1> QED BY <1>1, <1>2, <1>3, <1>4, <1>5, <1>6, <1>7, <1>8, <1>9, <1>10, <1>11, <1>12
        DEF Next, Worker

\* What the source's types allow, in particular: the errors in a row never exceed
\* the answers, and no run takes more answers than its limit.
THEOREM TypeCorrect == Spec => []TypeOK
<1>1. IInv /\ Typed => TypeOK
  BY DEF IInv, Types, Typed, Resting, Working, TypeOK
<1> QED BY <1>1, IInvInit, IInvNext, TypedInit, TypedNext, PTL DEF Spec

-----------------------------------------------------------------------------
(* Answers behind their calls.                                             *)

\* The tool messages answer the first of the calls, in order.
AnswerTo(tools, ids) ==
    /\ Len(tools) <= Len(ids)
    /\ \A c \in DOMAIN tools : tools[c].role = "tool" /\ tools[c].call = ids[c]

LEMMA FollowsPlain ==
    ASSUME NEW m, \A j \in DOMAIN m : m[j].role # "tool"
    PROVE  FollowCalls(m)
BY DEF FollowCalls

LEMMA FollowsJoin ==
    ASSUME NEW a \in Seq(Message), NEW b \in Seq(Message), FollowCalls(a), FollowCalls(b)
    PROVE  FollowCalls(a \o b)
<1> DEFINE c == a \o b
           n == Len(a)
<1>1. /\ n \in Nat /\ Len(b) \in Nat /\ DOMAIN a = 1..n /\ DOMAIN b = 1..Len(b)
      /\ DOMAIN c = 1..(n + Len(b))
      /\ \A j \in 1..n : c[j] = a[j]
      /\ \A j \in 1..Len(b) : c[n + j] = b[j]
  OBVIOUS
<1> HIDE DEF c
<1>2. ASSUME NEW j \in DOMAIN c, c[j].role = "tool"
      PROVE  \E i \in 1..(j - 1) : /\ c[i].role = "assistant" /\ j - i <= Len(c[i].calls)
                                   /\ \A k \in (i + 1)..j : c[k].role = "tool"
                                   /\ c[j].call = c[i].calls[j - i]
  <2>1. CASE j <= n
    <3>1. j \in DOMAIN a /\ a[j] = c[j]
      BY <1>1, <2>1
    <3>2. PICK i \in 1..(j - 1) : /\ a[i].role = "assistant" /\ j - i <= Len(a[i].calls)
                                  /\ \A k \in (i + 1)..j : a[k].role = "tool"
                                  /\ a[j].call = a[i].calls[j - i]
      BY <1>2, <3>1 DEF FollowCalls
    <3>3. c[i] = a[i] /\ \A k \in (i + 1)..j : c[k] = a[k]
      BY <1>1, <2>1, <3>2
    <3>4. \A k \in (i + 1)..j : c[k].role = "tool"
      BY <3>2, <3>3
    <3> QED BY <3>1, <3>2, <3>3, <3>4
  <2>2. CASE j > n
    <3> DEFINE p == j - n
    <3>1. p \in 1..Len(b) /\ p \in DOMAIN b /\ j = n + p /\ b[p] = c[j]
      BY <1>1, <2>2
    <3> HIDE DEF p
    <3>2. PICK i \in 1..(p - 1) : /\ b[i].role = "assistant" /\ p - i <= Len(b[i].calls)
                                  /\ \A k \in (i + 1)..p : b[k].role = "tool"
                                  /\ b[p].call = b[i].calls[p - i]
      <4>1. b[p].role = "tool" /\ p \in DOMAIN b
        BY <1>2, <3>1
      <4>2. FollowCalls(b)
        OBVIOUS
      <4> QED BY ONLY <4>1, <4>2 DEF FollowCalls
    <3> DEFINE q == n + i
    <3>3. /\ q \in 1..(j - 1) /\ j - q = p - i /\ c[q] = b[i]
          /\ \A k \in (q + 1)..j : k - n \in (i + 1)..p /\ c[k] = b[k - n]
      <4>1. q \in 1..(j - 1) /\ j - q = p - i /\ i \in 1..Len(b)
        BY <1>1, <3>1, <3>2
      <4>2. \A k \in (q + 1)..j : k - n \in (i + 1)..p /\ k - n \in 1..Len(b) /\ n + (k - n) = k
        BY <1>1, <3>1, <3>2
      <4> QED BY <1>1, <4>1, <4>2
    <3> HIDE DEF q
    <3>4. \A k \in (q + 1)..j : c[k].role = "tool"
      BY <3>2, <3>3
    <3> QED BY <3>1, <3>2, <3>3, <3>4
  <2> QED BY <1>1, <2>1, <2>2
<1> QED BY <1>2 DEF FollowCalls, c

LEMMA FollowsBlock ==
    ASSUME NEW ids \in Seq(Int), NEW tools \in Seq(Message), AnswerTo(tools, ids)
    PROVE  FollowCalls(<<Assistant(ids)>> \o tools)
<1> DEFINE a == Assistant(ids)
           c == <<a>> \o tools
<1>1. a.role = "assistant" /\ a.calls = ids
  BY DEF Assistant
<1> HIDE DEF a
<1>2. /\ Len(tools) \in Nat /\ Len(ids) \in Nat /\ DOMAIN tools = 1..Len(tools)
      /\ DOMAIN c = 1..(Len(tools) + 1)
      /\ c[1] = a
      /\ \A j \in 2..(Len(tools) + 1) : c[j] = tools[j - 1]
  OBVIOUS
<1> HIDE DEF c
<1>3. ASSUME NEW j \in DOMAIN c, c[j].role = "tool"
      PROVE  \E i \in 1..(j - 1) : /\ c[i].role = "assistant" /\ j - i <= Len(c[i].calls)
                                   /\ \A k \in (i + 1)..j : c[k].role = "tool"
                                   /\ c[j].call = c[i].calls[j - i]
  <2>1. j # 1
    BY <1>1, <1>2, <1>3
  <2>2. j \in 2..(Len(tools) + 1) /\ 1 \in 1..(j - 1)
    BY <1>2, <2>1
  <2>3. \A k \in 2..j : c[k] = tools[k - 1] /\ k - 1 \in DOMAIN tools
    BY <1>2, <2>2
  <2>4. \A k \in 2..j : c[k].role = "tool"
    BY <2>3 DEF AnswerTo
  <2>5. j - 1 \in DOMAIN tools /\ c[j] = tools[j - 1]
    BY <1>2, <2>2
  <2>6. c[j].call = ids[j - 1] /\ j - 1 <= Len(ids)
    BY <1>2, <2>5 DEF AnswerTo
  <2>7. (1 + 1)..j = 2..j
    OBVIOUS
  <2> QED BY <1>1, <1>2, <2>2, <2>4, <2>6, <2>7
<1> QED BY <1>3 DEF FollowCalls, c, a

\* A prefix that is kept is kept as it stands.
LEMMA PickedPrefix ==
    ASSUME NEW T, NEW seq \in Seq(T), NEW kept,
           \A c, d \in 1..Len(seq) : c < d /\ kept[d] => kept[c]
    PROVE  /\ Len(Picked(seq, kept)) <= Len(seq)
           /\ \A c \in DOMAIN Picked(seq, kept) : Picked(seq, kept)[c] = seq[c]
<1>1. Len(seq) \in Nat
  OBVIOUS
<1>2. PICK f : Building(f, seq, kept, Len(seq)) /\ Picked(seq, kept) = f[Len(seq)]
  BY <1>1, PickedIs
<1> DEFINE L == Len(seq)
           Good(n) == /\ f[n] \in Seq(T) /\ Len(f[n]) <= n
                      /\ \A c \in 1..Len(f[n]) : f[n][c] = seq[c]
                      /\ n # 0 /\ kept[n] => Len(f[n]) = n
           S == {n \in 0..L : Good(n)}
<1>3. 0 \in S
  <2>1. f[0] = <<>> /\ 0 \in 0..L
    BY <1>1, <1>2 DEF Building
  <2>2. Good(0)
    BY <2>1
  <2> HIDE DEF Good
  <2> QED BY <2>1, <2>2
<1>4. ASSUME NEW n \in 0..L, n \in S, n < L PROVE n + 1 \in S
  <2>1. n + 1 \in 0..L /\ n + 1 # 0 /\ (n + 1) - 1 = n /\ n + 1 \in 1..L /\ n \in Nat
    BY <1>1, <1>4
  <2>2. f[n + 1] = IF kept[n + 1] THEN Append(f[n], seq[n + 1]) ELSE f[n]
    BY <1>2, <2>1 DEF Building
  <2>3. Good(n)
    BY <1>4
  <2>4. CASE kept[n + 1]
    <3>1. n = 0 \/ kept[n]
      BY <1>4, <2>1, <2>4
    <3>2. Len(f[n]) = n
      BY <2>1, <2>3, <3>1
    <3>3. f[n + 1] = Append(f[n], seq[n + 1]) /\ seq[n + 1] \in T
      BY <2>1, <2>2, <2>4
    <3>4. f[n + 1] \in Seq(T) /\ Len(f[n + 1]) = n + 1
      BY <2>3, <3>2, <3>3
    <3>5. ASSUME NEW c \in 1..Len(f[n + 1]) PROVE f[n + 1][c] = seq[c]
      <4>1. CASE c = n + 1
        BY <2>3, <3>2, <3>3, <4>1
      <4>2. CASE c # n + 1
        <5>1. c \in 1..Len(f[n])
          BY <2>1, <3>2, <3>4, <4>2
        <5>2. f[n + 1][c] = f[n][c]
          BY <2>3, <3>3, <5>1
        <5> QED BY <2>3, <5>1, <5>2
      <4> QED BY <4>1, <4>2
    <3>6. Good(n + 1)
      BY <2>1, <3>4, <3>5
    <3> HIDE DEF Good
    <3> QED BY <2>1, <3>6
  <2>5. CASE ~kept[n + 1]
    <3>1. f[n + 1] = f[n]
      BY <2>2, <2>5
    <3>2. Good(n + 1)
      BY <2>1, <2>3, <2>5, <3>1
    <3> HIDE DEF Good
    <3> QED BY <2>1, <3>2
  <2> QED BY <2>4, <2>5
<1> HIDE DEF S
<1>5. 0..L \subseteq S
  <2> HIDE DEF L
  <2>1. L \in Nat
    BY <1>1 DEF L
  <2> QED BY <1>3, <1>4, <2>1, CountedUp
<1>6. L \in S
  BY <1>1, <1>5
<1>7. Good(L)
  BY <1>6 DEF S
<1> QED BY <1>2, <1>7

-----------------------------------------------------------------------------
(* The stored timeline.                                                    *)

\* The calls noted of step s.
Calls(log, s) ==
    Picked(log, [k \in DOMAIN log |-> log[k].kind = "tool_started" /\ log[k].step = s])

\* No two answers of a run share an id, nor does an answer repeat one.
OwnCalls(line) ==
    \A k \in DOMAIN line :
        /\ \A c, d \in DOMAIN line[k].calls : line[k].calls[c] = line[k].calls[d] => c = d
        /\ \A j \in 1..(k - 1) : Range(line[j].calls) \cap Range(line[k].calls) = {}

\* Every answer is followed by the calls begun for it.
CallsBehind(line, log) ==
    \A k \in DOMAIN line : line[k].kind = "llm_step" =>
        FollowedBy(line, k, Calls(log, line[k].of))

\* A call was made by an answer before it; nothing but answers makes calls.
MadeBefore(line) ==
    \A k \in DOMAIN line :
        /\ line[k].kind = "tool_started" =>
             \E j \in 1..(k - 1) : line[k].of \in Range(line[j].calls)
        /\ line[k].kind # "llm_step" => line[k].calls = <<>>

\* The calls of an answer that were begun are the first of them.
RunInOrder(line, known) ==
    \A k \in DOMAIN line : \A c, d \in DOMAIN line[k].calls :
        c < d /\ line[k].calls[d] \in known => line[k].calls[c] \in known

\* Such a timeline is replayed with every answer behind its call.
LEMMA ShownFollows ==
    ASSUME NEW line \in Seq(Line), NEW known, NEW closing \in Seq(Message),
           FollowCalls(closing),
           OwnCalls(line), MadeBefore(line), RunInOrder(line, known),
           NEW k \in 1..Len(line)
    PROVE  FollowCalls(Shown(line, known, closing, k))
<1>1. k \in DOMAIN line /\ line[k] \in Line /\ k \in Int
  OBVIOUS
<1>2. /\ line[k].kind \in {"llm_step", "tool_started", "agent_finished"}
      /\ line[k].of \in Int /\ line[k].calls \in Seq(Int)
  BY <1>1 DEF Line, Entry
<1>3. CASE line[k].kind = "llm_step"
  <2> DEFINE calls == line[k].calls
             kept == Unused(line, known, calls, k)
             ids == Picked(calls, kept)
  <2>1. Len(calls) \in Nat /\ DOMAIN calls = 1..Len(calls)
    BY <1>2
  <2>2. ASSUME NEW c \in DOMAIN calls, NEW j \in 1..(k - 1) PROVE ~Mentions(line[j], calls[c])
    <3>1. j \in DOMAIN line
      BY <1>1
    <3>2. calls[c] \in Range(calls)
      BY DEF Range
    <3>3. calls[c] \notin Range(line[j].calls)
      BY <1>1, <3>2 DEF OwnCalls
    <3>4. ASSUME line[j].kind = "tool_started", line[j].of = calls[c] PROVE FALSE
      <4>1. PICK i \in 1..(j - 1) : line[j].of \in Range(line[i].calls)
        BY <3>1, <3>4 DEF MadeBefore
      <4>2. i \in 1..(k - 1)
        BY <1>1, <4>1
      <4>3. Range(line[i].calls) \cap Range(calls) = {}
        BY <1>1, <4>2 DEF OwnCalls
      <4> QED BY <3>2, <3>4, <4>1, <4>3
    <3> QED BY <3>3, <3>4 DEF Mentions
  <2>3. ASSUME NEW c \in DOMAIN calls, NEW d \in 1..(c - 1) PROVE calls[d] # calls[c]
    <3>1. d \in DOMAIN calls /\ d # c
      BY <2>1
    <3> QED BY <1>1, <3>1 DEF OwnCalls
  <2>4. \A c \in DOMAIN calls : kept[c] <=> calls[c] \in known
    BY <2>2, <2>3 DEF Unused
  <2>5. \A c, d \in 1..Len(calls) : c < d /\ kept[d] => kept[c]
    BY <1>1, <2>1, <2>4 DEF RunInOrder
  <2> HIDE DEF kept
  <2>6. Len(ids) <= Len(calls) /\ \A c \in DOMAIN ids : ids[c] = calls[c]
    BY <1>2, <2>5, PickedPrefix
  <2>7. ids \in Seq(Int)
    BY <1>2, <2>1, PickedType
  <2> HIDE DEF ids
  <2>8. Tools(ids) \in Seq(Message)
    BY <2>7, ToolsType
  <2>9. AnswerTo(Tools(ids), calls)
    <3>1. DOMAIN Tools(ids) = DOMAIN ids /\ Len(Tools(ids)) = Len(ids)
      BY <2>7 DEF Tools
    <3>2. \A c \in DOMAIN ids : Tools(ids)[c].role = "tool" /\ Tools(ids)[c].call = ids[c]
      BY DEF Tools, Tool
    <3> QED BY <2>6, <3>1, <3>2 DEF AnswerTo
  <2>10. FollowCalls(<<Assistant(calls)>> \o Tools(ids))
    BY <1>2, <2>8, <2>9, FollowsBlock
  <2>11. Shown(line, known, closing, k) = <<Assistant(calls)>> \o Tools(ids)
    BY <1>3 DEF Shown, Answers, kept, ids
  <2> QED BY <2>10, <2>11
<1>4. CASE line[k].kind = "tool_started"
  <2> DEFINE calls == <<line[k].of>>
             kept == Unused(line, known, calls, k)
  <2>1. calls = Append(<<>>, line[k].of) /\ <<>> \in Seq(Int) /\ Len(<<>>) = 0
        /\ DOMAIN calls = {1} /\ calls[1] = line[k].of
    BY <1>2
  <2>2. ~kept[1]
    <3>1. PICK j \in 1..(k - 1) : line[k].of \in Range(line[j].calls)
      BY <1>1, <1>4 DEF MadeBefore
    <3>2. Mentions(line[j], calls[1])
      BY <2>1, <3>1 DEF Mentions
    <3> QED BY <2>1, <3>2 DEF Unused
  <2>3. Picked(calls, kept) = <<>>
    <3> HIDE DEF kept
    <3>1. Len(calls) = 1 /\ Len(calls) \in Nat
      OBVIOUS
    <3>2. \A n \in 1..Len(calls) : kept[n] => calls[n] \in {}
      BY <2>2, <3>1
    <3> HIDE DEF calls
    <3>3. Picked(calls, kept) \in Seq({})
      BY <3>1, <3>2, PickedType
    <3> QED BY <3>3
  <2>4. Shown(line, known, closing, k) = Tools(<<>>)
    BY <1>4, <2>3 DEF Shown, Answers
  <2>5. DOMAIN Tools(<<>>) = {}
    BY DEF Tools
  <2> QED BY <2>4, <2>5, FollowsPlain
<1>5. CASE line[k].kind = "agent_finished"
  BY <1>5 DEF Shown
<1> QED BY <1>2, <1>3, <1>4, <1>5

LEMMA ReplayFollows ==
    ASSUME NEW line \in Seq(Line), NEW known, NEW closing \in Seq(Message),
           FollowCalls(closing),
           OwnCalls(line), MadeBefore(line), RunInOrder(line, known)
    PROVE  FollowCalls(Replay(line, known, closing))
<1> DEFINE P == {m \in Seq(Message) : FollowCalls(m)}
<1>1. Len(line) \in Nat
  OBVIOUS
<1>2. <<>> \in P
  <2>1. <<>> \in Seq(Message) /\ DOMAIN <<>> = {}
    OBVIOUS
  <2>2. FollowCalls(<<>>)
    BY <2>1, FollowsPlain
  <2> QED BY <2>1, <2>2
<1>3. ASSUME NEW m \in P, NEW k \in 1..Len(line)
      PROVE  m \o Shown(line, known, closing, k) \in P
  <2> DEFINE s == Shown(line, known, closing, k)
  <2>1. s \in Seq(Message) /\ FollowCalls(s)
    BY ShownType, ShownFollows
  <2> HIDE DEF s
  <2>2. m \in Seq(Message) /\ FollowCalls(m)
    OBVIOUS
  <2>3. FollowCalls(m \o s) /\ m \o s \in Seq(Message)
    BY <2>1, <2>2, FollowsJoin
  <2> QED BY <2>3 DEF s
<1> HIDE DEF P
<1>4. Replay(line, known, closing) \in P
  BY <1>1, <1>2, <1>3, ReplayInduction
<1> QED BY <1>4 DEF P

-----------------------------------------------------------------------------
(* One more entry.                                                         *)

LEMMA AppendIs ==
    ASSUME NEW T, NEW seq \in Seq(T), NEW e \in T
    PROVE  /\ Append(seq, e) \in Seq(T) /\ Len(seq) \in Nat
           /\ DOMAIN seq = 1..Len(seq) /\ DOMAIN Append(seq, e) = 1..(Len(seq) + 1)
           /\ Len(Append(seq, e)) = Len(seq) + 1
           /\ \A k \in 1..Len(seq) : Append(seq, e)[k] = seq[k]
           /\ Append(seq, e)[Len(seq) + 1] = e
OBVIOUS

LEMMA GivenAppend ==
    ASSUME NEW log \in Seq(Entry), NEW e \in Entry
    PROVE  Given(Append(log, e)) = Given(log) \cup Range(e.calls)
<1> DEFINE more == Append(log, e)
<1>1. /\ DOMAIN log = 1..Len(log) /\ DOMAIN more = 1..(Len(log) + 1) /\ Len(log) \in Nat
      /\ \A k \in 1..Len(log) : more[k] = log[k]
      /\ more[Len(log) + 1] = e
  BY AppendIs
<1> HIDE DEF more
<1>2. DOMAIN more = DOMAIN log \cup {Len(log) + 1}
  BY <1>1
<1>3. \A x : (\E k \in DOMAIN more : x \in Range(more[k].calls))
               <=> (\E k \in DOMAIN log : x \in Range(log[k].calls)) \/ x \in Range(e.calls)
  BY <1>1, <1>2
<1>4. \A x : x \in Given(more) <=> x \in Given(log) \cup Range(e.calls)
  BY <1>3 DEF Given
<1> QED BY <1>4 DEF more

LEMMA CallsAppend ==
    ASSUME NEW log \in Seq(Entry), NEW e \in Entry, NEW s
    PROVE  Calls(Append(log, e), s) =
             IF e.kind = "tool_started" /\ e.step = s THEN Append(Calls(log, s), e)
             ELSE Calls(log, s)
<1> DEFINE more == Append(log, e)
           a == [k \in DOMAIN log |-> log[k].kind = "tool_started" /\ log[k].step = s]
           b == [k \in DOMAIN more |-> more[k].kind = "tool_started" /\ more[k].step = s]
<1>1. /\ DOMAIN log = 1..Len(log) /\ DOMAIN more = 1..(Len(log) + 1) /\ Len(log) \in Nat
      /\ \A k \in 1..Len(log) : more[k] = log[k]
      /\ more[Len(log) + 1] = e
  BY AppendIs
<1> HIDE DEF more
<1>2. \A k \in 1..Len(log) : a[k] = b[k]
  BY <1>1
<1>3. b[Len(log) + 1] <=> e.kind = "tool_started" /\ e.step = s
  <2>1. Len(log) + 1 \in DOMAIN more
    BY <1>1
  <2>2. b[Len(log) + 1] = (/\ more[Len(log) + 1].kind = "tool_started"
                          /\ more[Len(log) + 1].step = s)
    BY <2>1
  <2> QED BY <1>1, <2>2
<1>4. Picked(more, b) = IF b[Len(log) + 1] THEN Append(Picked(log, a), e) ELSE Picked(log, a)
  <2> HIDE DEF a, b
  <2> QED BY <1>2, PickedAppend DEF more
<1>5. Calls(log, s) = Picked(log, a) /\ Calls(more, s) = Picked(more, b)
  BY DEF Calls
<1> HIDE DEF a, b
<1> QED BY <1>3, <1>4, <1>5 DEF more

LEMMA CallsType ==
    ASSUME NEW log \in Seq(Entry), NEW s
    PROVE  Calls(log, s) \in Seq({e \in Entry : e.kind = "tool_started" /\ e.step = s})
<1> DEFINE T == {e \in Entry : e.kind = "tool_started" /\ e.step = s}
           a == [k \in DOMAIN log |-> log[k].kind = "tool_started" /\ log[k].step = s]
<1>1. Len(log) \in Nat /\ \A n \in 1..Len(log) : a[n] => log[n] \in T
  <2>1. ASSUME NEW n \in 1..Len(log), a[n] PROVE log[n] \in T
    <3>1. n \in DOMAIN log /\ log[n] \in Entry
      OBVIOUS
    <3>2. log[n].kind = "tool_started" /\ log[n].step = s
      BY <2>1, <3>1
    <3> QED BY <3>1, <3>2
  <2>2. Len(log) \in Nat
    OBVIOUS
  <2> HIDE DEF a, T
  <2> QED BY <2>1, <2>2
<1> HIDE DEF a, T
<1>2. Picked(log, a) \in Seq(T)
  BY <1>1, PickedType
<1> QED BY <1>2 DEF Calls, a, T

LEMMA CallsLength == ASSUME NEW log \in Seq(Entry), NEW s PROVE Len(Calls(log, s)) \in Nat
<1> DEFINE T == {e \in Entry : e.kind = "tool_started" /\ e.step = s}
<1>1. Calls(log, s) \in Seq(T)
  BY CallsType
<1> HIDE DEF T
<1> QED BY <1>1

\* No call was begun for a step that is not in the log.
LEMMA CallsNone ==
    ASSUME NEW log \in Seq(Entry), NEW s,
           \A k \in DOMAIN log : log[k].kind = "tool_started" => log[k].step # s
    PROVE  Calls(log, s) = <<>>
<1> DEFINE a == [k \in DOMAIN log |-> log[k].kind = "tool_started" /\ log[k].step = s]
<1>1. Len(log) \in Nat /\ \A n \in 1..Len(log) : a[n] => log[n] \in {}
  <2>1. ASSUME NEW n \in 1..Len(log), a[n] PROVE FALSE
    <3>1. n \in DOMAIN log
      OBVIOUS
    <3>2. log[n].kind = "tool_started" /\ log[n].step = s
      BY <2>1, <3>1
    <3> QED BY <3>1, <3>2
  <2>2. Len(log) \in Nat
    OBVIOUS
  <2> HIDE DEF a
  <2> QED BY <2>1, <2>2
<1> HIDE DEF a
<1>2. Picked(log, a) \in Seq({})
  BY <1>1, PickedType
<1>3. Picked(log, a) = <<>>
  BY <1>2
<1> QED BY <1>3 DEF Calls, a

LEMMA FollowedExtend ==
    ASSUME NEW line \in Seq(Line), NEW e \in Line, NEW calls, Len(calls) \in Nat,
           NEW k \in DOMAIN line, FollowedBy(line, k, calls), DOMAIN calls = 1..Len(calls),
           k + Len(calls) < Len(line) \/ e.kind # "tool_started"
    PROVE  /\ FollowedBy(Append(line, e), k, calls)
           /\ k + Len(calls) < Len(Append(line, e))
<1> DEFINE more == Append(line, e)
<1>1. /\ DOMAIN line = 1..Len(line) /\ Len(more) = Len(line) + 1 /\ Len(line) \in Nat
      /\ \A j \in 1..Len(line) : more[j] = line[j]
      /\ more[Len(line) + 1] = e
  BY AppendIs
<1> HIDE DEF more
<1>2. /\ k + Len(calls) <= Len(line)
      /\ \A n \in DOMAIN calls : line[k + n] = calls[n]
      /\ k + Len(calls) < Len(line) => line[k + Len(calls) + 1].kind # "tool_started"
  BY DEF FollowedBy
<1>3. k \in Nat /\ k >= 1
  BY <1>1
<1>4. k + Len(calls) < Len(more)
  BY <1>1, <1>2, <1>3
<1>5. ASSUME NEW n \in DOMAIN calls PROVE more[k + n] = calls[n]
  <2>1. k + n \in 1..Len(line)
    BY <1>1, <1>2, <1>3
  <2> QED BY <1>1, <1>2, <2>1
<1>6. more[k + Len(calls) + 1].kind # "tool_started"
  <2>1. CASE k + Len(calls) < Len(line)
    <3>1. k + Len(calls) + 1 \in 1..Len(line)
      BY <1>1, <1>3, <2>1
    <3> QED BY <1>1, <1>2, <2>1, <3>1
  <2>2. CASE k + Len(calls) = Len(line)
    BY <1>1, <2>2
  <2> QED BY <1>1, <1>2, <1>3, <2>1, <2>2
<1>7. k + Len(calls) <= Len(more)
  BY <1>1, <1>3, <1>4
<1>8. FollowedBy(more, k, calls)
  BY <1>5, <1>6, <1>7 DEF FollowedBy
<1> QED BY <1>4, <1>8 DEF more

LEMMA FollowedGrow ==
    ASSUME NEW line \in Seq(Line), NEW e \in Line, NEW calls \in Seq(Entry),
           NEW k \in DOMAIN line, FollowedBy(line, k, calls), k + Len(calls) = Len(line)
    PROVE  /\ FollowedBy(Append(line, e), k, Append(calls, e))
           /\ k + Len(Append(calls, e)) = Len(Append(line, e))
<1> DEFINE more == Append(line, e)
           grown == Append(calls, e)
<1>1. /\ DOMAIN line = 1..Len(line) /\ Len(more) = Len(line) + 1 /\ Len(line) \in Nat
      /\ \A j \in 1..Len(line) : more[j] = line[j]
      /\ more[Len(line) + 1] = e
  BY AppendIs
<1>2. e \in Entry
  BY DEF Line
<1>3. /\ DOMAIN calls = 1..Len(calls) /\ Len(grown) = Len(calls) + 1 /\ Len(calls) \in Nat
      /\ DOMAIN grown = 1..(Len(calls) + 1)
      /\ \A j \in 1..Len(calls) : grown[j] = calls[j]
      /\ grown[Len(calls) + 1] = e
  BY <1>2, AppendIs
<1> HIDE DEF more, grown
<1>4. \A n \in DOMAIN calls : line[k + n] = calls[n]
  BY DEF FollowedBy
<1>5. k \in Nat /\ k >= 1
  BY <1>1
<1>6. k + Len(grown) = Len(more)
  <2> DEFINE a == Len(calls)
             b == Len(line)
  <2>1. a \in Nat /\ b \in Nat /\ k + a = b /\ Len(grown) = a + 1 /\ Len(more) = b + 1
    BY <1>1, <1>3
  <2> HIDE DEF a, b
  <2>2. k + (a + 1) = b + 1
    <3>1. k \in Nat /\ a \in Nat /\ b \in Nat /\ k + a = b
      BY <1>5, <2>1
    <3> QED BY ONLY <3>1
  <2> QED BY <2>1, <2>2
<1>7. ASSUME NEW n \in DOMAIN grown PROVE more[k + n] = grown[n]
  <2>1. CASE n \in 1..Len(calls)
    <3>1. k + n \in 1..Len(line)
      BY <1>1, <1>3, <1>5, <2>1
    <3> QED BY <1>1, <1>3, <1>4, <2>1, <3>1
  <2>2. CASE n = Len(calls) + 1
    <3>1. k + n = Len(line) + 1
      BY <1>1, <1>3, <1>6, <2>2
    <3> QED BY <1>1, <1>3, <2>2, <3>1
  <2> QED BY <1>3, <2>1, <2>2
<1>8. k + Len(grown) <= Len(more) /\ ~(k + Len(grown) < Len(more))
  BY <1>1, <1>6
<1>9. FollowedBy(more, k, grown)
  BY <1>7, <1>8 DEF FollowedBy
<1> QED BY <1>6, <1>9 DEF more, grown

\* The parts of the timeline that say who made which call.
LEMMA MadeAppend ==
    ASSUME NEW line \in Seq(Line), NEW e \in Line, OwnCalls(line), MadeBefore(line),
           \A c, d \in DOMAIN e.calls : e.calls[c] = e.calls[d] => c = d,
           \A j \in DOMAIN line : Range(line[j].calls) \cap Range(e.calls) = {},
           e.kind = "tool_started" => \E j \in DOMAIN line : e.of \in Range(line[j].calls),
           e.kind # "llm_step" => e.calls = <<>>
    PROVE  OwnCalls(Append(line, e)) /\ MadeBefore(Append(line, e))
<1> DEFINE more == Append(line, e)
           n == Len(line)
<1>1. /\ DOMAIN line = 1..n /\ DOMAIN more = 1..(n + 1) /\ n \in Nat
      /\ \A k \in 1..n : more[k] = line[k]
      /\ more[n + 1] = e
  BY AppendIs
<1> HIDE DEF more, n
<1>2. ASSUME NEW k \in DOMAIN more
      PROVE  /\ \A c, d \in DOMAIN more[k].calls : more[k].calls[c] = more[k].calls[d] => c = d
             /\ \A j \in 1..(k - 1) : Range(more[j].calls) \cap Range(more[k].calls) = {}
             /\ more[k].kind = "tool_started" =>
                  \E j \in 1..(k - 1) : more[k].of \in Range(more[j].calls)
             /\ more[k].kind # "llm_step" => more[k].calls = <<>>
  <2>1. CASE k \in 1..n
    <3>1. more[k] = line[k] /\ k \in DOMAIN line /\ \A j \in 1..(k - 1) : more[j] = line[j]
      BY <1>1, <2>1
    <3>2. /\ \A c, d \in DOMAIN line[k].calls : line[k].calls[c] = line[k].calls[d] => c = d
          /\ \A j \in 1..(k - 1) : Range(line[j].calls) \cap Range(line[k].calls) = {}
      BY <3>1 DEF OwnCalls
    <3>3. /\ line[k].kind = "tool_started" =>
               \E j \in 1..(k - 1) : line[k].of \in Range(line[j].calls)
          /\ line[k].kind # "llm_step" => line[k].calls = <<>>
      BY <3>1 DEF MadeBefore
    <3> QED BY <3>1, <3>2, <3>3
  <2>2. CASE k = n + 1
    <3>1. more[k] = e /\ 1..(k - 1) = 1..n /\ \A j \in 1..n : more[j] = line[j]
      BY <1>1, <2>2
    <3> QED BY <1>1, <3>1
  <2> QED BY <1>1, <2>1, <2>2
<1>3. OwnCalls(more)
  BY <1>2 DEF OwnCalls
<1>4. MadeBefore(more)
  BY <1>2 DEF MadeBefore
<1> QED BY <1>3, <1>4 DEF more

LEMMA OrderAppend ==
    ASSUME NEW line \in Seq(Line), NEW e \in Line, NEW known, RunInOrder(line, known),
           \A c, d \in DOMAIN e.calls : c < d /\ e.calls[d] \in known => e.calls[c] \in known
    PROVE  RunInOrder(Append(line, e), known)
<1> DEFINE more == Append(line, e)
<1>1. /\ DOMAIN line = 1..Len(line) /\ DOMAIN more = 1..(Len(line) + 1) /\ Len(line) \in Nat
      /\ \A k \in 1..Len(line) : more[k] = line[k]
      /\ more[Len(line) + 1] = e
  BY AppendIs
<1> HIDE DEF more
<1>2. ASSUME NEW k \in DOMAIN more
      PROVE  \A c, d \in DOMAIN more[k].calls :
               c < d /\ more[k].calls[d] \in known => more[k].calls[c] \in known
  <2>1. CASE k \in 1..Len(line)
    <3>1. more[k] = line[k] /\ k \in DOMAIN line
      BY <1>1, <2>1
    <3> QED BY <3>1 DEF RunInOrder
  <2>2. CASE k = Len(line) + 1
    BY <1>1, <2>2
  <2> QED BY <1>1, <2>1, <2>2
<1> QED BY <1>2 DEF RunInOrder, more

-----------------------------------------------------------------------------
(* What the recorder holds while a run goes on.                            *)

\* The next step and the ids of the next answer are new; known are the calls
\* that were begun.
Numbered(log, last, known) ==
    /\ \A id \in Given(log) : -last <= id /\ id <= Cardinality(Given(log))
    /\ known \subseteq Given(log)
    /\ \A k \in DOMAIN log :
         /\ log[k].kind # "agent_finished"
         /\ log[k].kind = "llm_step" => log[k].of <= last
         /\ log[k].kind = "tool_started" => log[k].of \in known /\ log[k].step <= last
         /\ log[k].kind # "llm_step" => log[k].calls = <<>>

Told(line, log, known) ==
    OwnCalls(line) /\ MadeBefore(line) /\ RunInOrder(line, known) /\ CallsBehind(line, log)

Sound(log, last, known) == Numbered(log, last, known) /\ Told(Timeline(log), log, known)

\* Only the calls of step s may still be going on.
Open(log, s) ==
    \A k \in DOMAIN Timeline(log) : Timeline(log)[k].kind = "llm_step" =>
        IF Timeline(log)[k].of = s THEN k + Len(Calls(log, s)) = Len(Timeline(log))
        ELSE k + Len(Calls(log, Timeline(log)[k].of)) < Len(Timeline(log))

\* Entries of the timeline are entries of the log.
LEMMA TimelineOf ==
    ASSUME NEW log \in Seq(Entry), NEW k \in DOMAIN Timeline(log)
    PROVE  \E j \in DOMAIN log : Timeline(log)[k] = log[j]
<1> DEFINE N == Listed(log)
           line == Timeline(log)
<1>1. line \in Seq(N)
  BY TimelineIn
<1> HIDE DEF N
<1>2. line[k] \in N
  BY <1>1
<1> QED BY <1>2 DEF N, Listed

LEMMA GivenType == ASSUME NEW log \in Seq(Entry) PROVE Given(log) \subseteq Int
<1>1. \A k \in DOMAIN log : log[k].calls \in Seq(Int)
  <2>1. \A k \in DOMAIN log : log[k] \in Entry
    OBVIOUS
  <2> QED BY <2>1 DEF Entry
<1>2. \A q : q \in Seq(Int) => Range(q) \subseteq Int
  BY DEF Range
<1> QED BY <1>1, <1>2 DEF Given

\* A new answer, with calls of its own.
LEMMA AnswerSound ==
    ASSUME NEW log \in Seq(Entry), NEW last \in Nat, NEW known, Sound(log, last, known),
           NEW ids \in Seq(Int),
           \A c, d \in DOMAIN ids : ids[c] = ids[d] => c = d,
           Given(log) \cap Range(ids) = {},
           \A id \in Range(ids) :
             -(last + 1) <= id /\ id <= Cardinality(Given(log) \cup Range(ids))
    PROVE  LET more == Append(log, Answered(last + 1, ids))
           IN  /\ Sound(more, last + 1, known) /\ Open(more, last + 1)
               /\ Timeline(more) = Append(Timeline(log), Answered(last + 1, ids))
<1> DEFINE e == Answered(last + 1, ids)
           more == Append(log, e)
           line == Timeline(log)
<1>1. /\ e \in Entry /\ e.kind = "llm_step" /\ e.of = last + 1 /\ e.calls = ids
  <2>1. last + 1 \in Int
    OBVIOUS
  <2>2. e \in Entry
    BY <2>1, AnsweredType
  <2> QED BY <2>2 DEF Answered, Event
<1> HIDE DEF e
<1>2. e \in Line
  BY <1>1 DEF Line
<1>3. /\ DOMAIN log = 1..Len(log) /\ DOMAIN more = 1..(Len(log) + 1) /\ Len(log) \in Nat
      /\ \A k \in 1..Len(log) : more[k] = log[k]
      /\ more[Len(log) + 1] = e /\ more \in Seq(Entry)
  BY <1>1, AppendIs
<1>4. Numbered(log, last, known) /\ Told(line, log, known)
  BY DEF Sound
<1>5. Timeline(more) = Append(line, e)
  <2>1. ASSUME NEW k \in DOMAIN log PROVE ~SameEntry(log[k], e)
    <3>1. log[k].kind = "llm_step" => log[k].of <= last
      BY <1>4 DEF Numbered
    <3>2. ~(last + 1 <= last)
      OBVIOUS
    <3> QED BY <1>1, <3>1, <3>2 DEF SameEntry
  <2> QED BY <1>1, <2>1, TimelineAppend
<1>6. line \in Seq(Line)
  BY TimelineType
<1>7. Given(more) = Given(log) \cup Range(ids)
  BY <1>1, GivenAppend
<1>8. \A s : Calls(more, s) = Calls(log, s)
  BY <1>1, CallsAppend
<1> HIDE DEF more
<1>9. Calls(more, last + 1) = <<>>
  <2>1. \A k \in DOMAIN log : log[k].kind = "tool_started" => log[k].step # last + 1
    <3>1. ASSUME NEW k \in DOMAIN log, log[k].kind = "tool_started", log[k].step = last + 1
          PROVE  FALSE
      <4>1. log[k].step <= last
        BY <1>4, <3>1 DEF Numbered
      <4>2. ~(last + 1 <= last)
        OBVIOUS
      <4> QED BY <3>1, <4>1, <4>2
    <3> QED BY <3>1
  <2> QED BY <1>8, <2>1, CallsNone
<1>10. Numbered(more, last + 1, known)
  <2>1. Cardinality(Given(log)) <= Cardinality(Given(more))
        /\ Cardinality(Given(log)) \in Nat /\ Cardinality(Given(more)) \in Nat
    <3>1. IsFiniteSet(Given(more)) /\ Cardinality(Given(more)) \in Nat
      BY <1>3, GivenFinite
    <3>2. Given(log) \subseteq Given(more)
      BY <1>7
    <3> QED BY <3>1, <3>2, FS_Subset, GivenFinite
  <2>2. ASSUME NEW id \in Given(more)
        PROVE  -(last + 1) <= id /\ id <= Cardinality(Given(more))
    <3>1. CASE id \in Given(log)
      <4>1. -last <= id /\ id <= Cardinality(Given(log)) /\ id \in Int
        BY <1>4, <3>1, GivenType DEF Numbered
      <4> QED BY <2>1, <4>1
    <3>2. CASE id \in Range(ids)
      BY <1>7, <3>2
    <3> QED BY <1>7, <3>1, <3>2
  <2>3. known \subseteq Given(more)
    BY <1>4, <1>7 DEF Numbered
  <2>4. ASSUME NEW k \in DOMAIN more
        PROVE  /\ more[k].kind # "agent_finished"
               /\ more[k].kind = "llm_step" => more[k].of <= last + 1
               /\ more[k].kind = "tool_started" =>
                    more[k].of \in known /\ more[k].step <= last + 1
               /\ more[k].kind # "llm_step" => more[k].calls = <<>>
    <3>1. CASE k \in DOMAIN log
      <4>1. more[k] = log[k] /\ log[k].of \in Int /\ log[k].step \in Int
        <5>1. log[k] \in Entry
          BY <3>1
        <5> QED BY <1>3, <3>1, <5>1 DEF Entry
      <4>2. /\ log[k].kind # "agent_finished"
            /\ log[k].kind = "llm_step" => log[k].of <= last
            /\ log[k].kind = "tool_started" => log[k].of \in known /\ log[k].step <= last
            /\ log[k].kind # "llm_step" => log[k].calls = <<>>
        BY <1>4, <3>1 DEF Numbered
      <4>3. \A i \in Int : i <= last => i <= last + 1
        OBVIOUS
      <4> QED BY <4>1, <4>2, <4>3
    <3>2. CASE k = Len(log) + 1
      <4>1. more[k] = e /\ last + 1 <= last + 1
        BY <1>3, <3>2
      <4> QED BY <1>1, <4>1
    <3> QED BY <1>3, <3>1, <3>2
  <2> QED BY <2>2, <2>3, <2>4 DEF Numbered
<1>11. ASSUME NEW j \in DOMAIN line PROVE Range(line[j].calls) \subseteq Given(log)
  <2>1. PICK i \in DOMAIN log : line[j] = log[i]
    BY TimelineOf
  <2> QED BY <2>1 DEF Given
<1>12. OwnCalls(Append(line, e)) /\ MadeBefore(Append(line, e))
  <2>1. \A c, d \in DOMAIN e.calls : e.calls[c] = e.calls[d] => c = d
    BY <1>1
  <2>2. \A j \in DOMAIN line : Range(line[j].calls) \cap Range(e.calls) = {}
    BY <1>1, <1>11
  <2>3. OwnCalls(line) /\ MadeBefore(line) /\ e.kind # "tool_started" /\ e.kind = "llm_step"
    BY <1>1, <1>4 DEF Told
  <2> HIDE DEF line
  <2> QED BY <1>2, <1>6, <2>1, <2>2, <2>3, MadeAppend
<1>13. RunInOrder(Append(line, e), known)
  <2>1. \A d \in DOMAIN ids : ids[d] \notin known
    <3>1. \A d \in DOMAIN ids : ids[d] \in Range(ids)
      BY DEF Range
    <3> QED BY <1>4, <3>1 DEF Numbered
  <2>2. \A c, d \in DOMAIN e.calls : c < d /\ e.calls[d] \in known => e.calls[c] \in known
    BY <1>1, <2>1
  <2>3. RunInOrder(line, known)
    BY <1>4 DEF Told
  <2> HIDE DEF line
  <2> QED BY <1>2, <1>6, <2>2, <2>3, OrderAppend
<1>14. ASSUME NEW k \in DOMAIN Append(line, e), Append(line, e)[k].kind = "llm_step"
       PROVE  /\ FollowedBy(Append(line, e), k, Calls(more, Append(line, e)[k].of))
              /\ IF Append(line, e)[k].of = last + 1
                 THEN k + Len(Calls(more, last + 1)) = Len(Append(line, e))
                 ELSE k + Len(Calls(more, Append(line, e)[k].of)) < Len(Append(line, e))
  <2> DEFINE longer == Append(line, e)
  <2>1. /\ DOMAIN line = 1..Len(line) /\ DOMAIN longer = 1..(Len(line) + 1)
        /\ Len(longer) = Len(line) + 1 /\ Len(line) \in Nat
        /\ \A j \in 1..Len(line) : longer[j] = line[j]
        /\ longer[Len(line) + 1] = e
    <3> HIDE DEF line
    <3> QED BY <1>2, <1>6, AppendIs
  <2>2. CASE k \in DOMAIN line
    <3> DEFINE calls == Calls(log, line[k].of)
               T == {x \in Entry : x.kind = "tool_started" /\ x.step = line[k].of}
    <3>1. longer[k] = line[k] /\ line[k].kind = "llm_step"
      BY <1>14, <2>1, <2>2
    <3>2. FollowedBy(line, k, calls)
      BY <1>4, <2>2, <3>1 DEF Told, CallsBehind
    <3>3. calls \in Seq(T)
      BY CallsType
    <3> HIDE DEF T
    <3>4. Len(calls) \in Nat /\ DOMAIN calls = 1..Len(calls)
      BY <3>3
    <3>5. Calls(more, line[k].of) = calls
      BY <1>8
    <3> HIDE DEF calls
    <3>6. line[k].of # last + 1
      <4>1. PICK i \in DOMAIN log : line[k] = log[i]
        BY <2>2, TimelineOf
      <4>2. line[k].of <= last
        BY <1>4, <3>1, <4>1 DEF Numbered
      <4>3. ~(last + 1 <= last)
        OBVIOUS
      <4> QED BY <4>2, <4>3
    <3>7. e.kind # "tool_started"
      BY <1>1
    <3>8. FollowedBy(longer, k, calls) /\ k + Len(calls) < Len(longer)
      <4> HIDE DEF line
      <4> QED BY <1>2, <1>6, <2>2, <3>2, <3>4, <3>7, FollowedExtend
    <3> QED BY <3>1, <3>5, <3>6, <3>8
  <2>3. CASE k = Len(line) + 1
    <3>1. longer[k] = e /\ e.of = last + 1 /\ Len(<<>>) = 0 /\ k + 0 = Len(longer)
      BY <1>1, <2>1, <2>3
    <3>2. FollowedBy(longer, k, <<>>)
      <4>1. k + Len(<<>>) = Len(longer) /\ DOMAIN <<>> = {}
        BY <3>1
      <4>2. k + Len(<<>>) <= Len(longer) /\ ~(k + Len(<<>>) < Len(longer))
        BY <2>1, <4>1
      <4> HIDE DEF longer
      <4> QED BY <4>1, <4>2 DEF FollowedBy
    <3> QED BY <1>9, <3>1, <3>2
  <2> QED BY <2>1, <2>2, <2>3
<1>15. CallsBehind(Append(line, e), more)
  BY <1>14 DEF CallsBehind
<1>16. Sound(more, last + 1, known)
  BY <1>5, <1>10, <1>12, <1>13, <1>15 DEF Sound, Told
<1>17. Open(more, last + 1)
  BY <1>5, <1>14 DEF Open
<1> QED BY <1>5, <1>16, <1>17 DEF more, e

\* What has been said of the older entries goes on when a call begins.
NewKnown(line, known, id) ==
    /\ \E j \in DOMAIN line : id \in Range(line[j].calls)
    /\ \A k \in DOMAIN line : \A c, d \in DOMAIN line[k].calls :
         c < d /\ line[k].calls[d] = id => line[k].calls[c] \in known

MayBegin(log, last, known, s, id) ==
    /\ Sound(log, last, known) /\ Open(log, s) /\ s <= last
    /\ id \in Given(log) /\ id \notin known
    /\ NewKnown(Timeline(log), known, id)

\* A call of the current step begins.
LEMMA BegunSound ==
    ASSUME NEW log \in Seq(Entry), NEW last \in Int, NEW known, NEW s \in Int, NEW id \in Int,
           MayBegin(log, last, known, s, id)
    PROVE  LET more == Append(log, Begun(s, id))
           IN  /\ Sound(more, last, known \cup {id}) /\ Open(more, s)
               /\ Timeline(more) = Append(Timeline(log), Begun(s, id))
<1> DEFINE e == Begun(s, id)
           more == Append(log, e)
           line == Timeline(log)
           now == known \cup {id}
<1>0. /\ Sound(log, last, known) /\ Open(log, s) /\ s <= last
      /\ id \in Given(log) /\ id \notin known
      /\ NewKnown(Timeline(log), known, id)
  BY DEF MayBegin
<1> USE <1>0
<1>1. /\ e \in Entry /\ e.kind = "tool_started" /\ e.of = id /\ e.step = s /\ e.calls = <<>>
  <2>1. e \in Entry
    <3>1. TRUE \in BOOLEAN
      OBVIOUS
    <3> QED BY <3>1, EventTypes
  <2> QED BY <2>1 DEF Begun, Event
<1> HIDE DEF e
<1>2. e \in Line
  BY <1>1 DEF Line
<1>3. /\ DOMAIN log = 1..Len(log) /\ DOMAIN more = 1..(Len(log) + 1) /\ Len(log) \in Nat
      /\ \A k \in 1..Len(log) : more[k] = log[k]
      /\ more[Len(log) + 1] = e /\ more \in Seq(Entry)
  BY <1>1, AppendIs
<1>4. Numbered(log, last, known) /\ Told(line, log, known)
  BY DEF Sound
<1>5. Timeline(more) = Append(line, e)
  <2>1. ASSUME NEW k \in DOMAIN log PROVE ~SameEntry(log[k], e)
    <3>1. log[k].kind = "tool_started" => log[k].of \in known
      BY <1>4 DEF Numbered
    <3> QED BY <1>1, <3>1 DEF SameEntry
  <2> QED BY <1>1, <2>1, TimelineAppend
<1>6. line \in Seq(Line)
  BY TimelineType
<1>7. Given(more) = Given(log)
  <2>1. Range(<<>>) = {}
    BY DEF Range
  <2> QED BY <1>1, <2>1, GivenAppend
<1>8. \A t : Calls(more, t) = IF t = s THEN Append(Calls(log, t), e) ELSE Calls(log, t)
  BY <1>1, CallsAppend
<1> HIDE DEF more
<1>9. Numbered(more, last, now)
  <2>1. now \subseteq Given(more)
    BY <1>4, <1>7 DEF Numbered
  <2>2. ASSUME NEW k \in DOMAIN more
        PROVE  /\ more[k].kind # "agent_finished"
               /\ more[k].kind = "llm_step" => more[k].of <= last
               /\ more[k].kind = "tool_started" => more[k].of \in now /\ more[k].step <= last
               /\ more[k].kind # "llm_step" => more[k].calls = <<>>
    <3>1. CASE k \in DOMAIN log
      <4>1. more[k] = log[k]
        BY <1>3, <3>1
      <4> QED BY <1>4, <3>1, <4>1 DEF Numbered
    <3>2. CASE k = Len(log) + 1
      <4>1. more[k] = e /\ id \in now
        BY <1>3, <3>2
      <4> QED BY <1>1, <4>1
    <3> QED BY <1>3, <3>1, <3>2
  <2>3. \A i \in Given(more) : -last <= i /\ i <= Cardinality(Given(more))
    BY <1>4, <1>7 DEF Numbered
  <2> QED BY <2>1, <2>2, <2>3 DEF Numbered
<1>10. OwnCalls(Append(line, e)) /\ MadeBefore(Append(line, e))
  <2>1. \A c, d \in DOMAIN e.calls : e.calls[c] = e.calls[d] => c = d
    BY <1>1
  <2>2. \A j \in DOMAIN line : Range(line[j].calls) \cap Range(e.calls) = {}
    BY <1>1 DEF Range
  <2>3. OwnCalls(line) /\ MadeBefore(line)
    BY <1>4 DEF Told
  <2>4. \E j \in DOMAIN line : e.of \in Range(line[j].calls)
    BY <1>1 DEF NewKnown
  <2>5. e.kind # "llm_step" => e.calls = <<>>
    BY <1>1
  <2> HIDE DEF line
  <2> QED BY <1>2, <1>6, <2>1, <2>2, <2>3, <2>4, <2>5, MadeAppend
<1>11. RunInOrder(Append(line, e), now)
  <2>1. RunInOrder(line, now)
    <3>1. ASSUME NEW k \in DOMAIN line, NEW c \in DOMAIN line[k].calls,
                 NEW d \in DOMAIN line[k].calls, c < d, line[k].calls[d] \in now
          PROVE  line[k].calls[c] \in now
      <4>1. CASE line[k].calls[d] \in known
        BY <1>4, <3>1, <4>1 DEF Told, RunInOrder
      <4>2. CASE line[k].calls[d] = id
        BY <3>1, <4>2 DEF NewKnown
      <4> QED BY <3>1, <4>1, <4>2
    <3> HIDE DEF now, line
    <3> QED BY <3>1 DEF RunInOrder
  <2>2. \A c, d \in DOMAIN e.calls : c < d /\ e.calls[d] \in now => e.calls[c] \in now
    BY <1>1
  <2> HIDE DEF line, now
  <2> QED BY <1>2, <1>6, <2>1, <2>2, OrderAppend
<1>12. ASSUME NEW k \in DOMAIN Append(line, e), Append(line, e)[k].kind = "llm_step"
       PROVE  /\ FollowedBy(Append(line, e), k, Calls(more, Append(line, e)[k].of))
              /\ IF Append(line, e)[k].of = s
                 THEN k + Len(Calls(more, s)) = Len(Append(line, e))
                 ELSE k + Len(Calls(more, Append(line, e)[k].of)) < Len(Append(line, e))
  <2> DEFINE longer == Append(line, e)
  <2>1. /\ DOMAIN line = 1..Len(line) /\ DOMAIN longer = 1..(Len(line) + 1)
        /\ Len(longer) = Len(line) + 1 /\ Len(line) \in Nat
        /\ \A j \in 1..Len(line) : longer[j] = line[j]
        /\ longer[Len(line) + 1] = e
    <3> HIDE DEF line
    <3> QED BY <1>2, <1>6, AppendIs
  <2>2. k \in DOMAIN line
    BY <1>1, <1>12, <2>1
  <2> DEFINE t == line[k].of
             calls == Calls(log, t)
             T == {x \in Entry : x.kind = "tool_started" /\ x.step = t}
  <2>3. longer[k] = line[k] /\ line[k].kind = "llm_step"
    BY <1>12, <2>1, <2>2
  <2>4. FollowedBy(line, k, calls)
    BY <1>4, <2>2, <2>3 DEF Told, CallsBehind
  <2>5. calls \in Seq(T) /\ T \subseteq Entry
    BY CallsType
  <2> HIDE DEF T
  <2>6. calls \in Seq(Entry) /\ Len(calls) \in Nat /\ DOMAIN calls = 1..Len(calls)
    BY <2>5
  <2>7. IF t = s THEN k + Len(calls) = Len(line) ELSE k + Len(calls) < Len(line)
    BY <2>2, <2>3 DEF Open
  <2>8. Calls(more, t) = IF t = s THEN Append(calls, e) ELSE calls
    BY <1>8
  <2> HIDE DEF calls, line, t
  <2>9. CASE t = s
    <3>1. FollowedBy(longer, k, Append(calls, e)) /\ k + Len(Append(calls, e)) = Len(longer)
      BY <1>2, <1>6, <2>2, <2>4, <2>6, <2>7, <2>9, FollowedGrow
    <3> QED BY <2>3, <2>8, <2>9, <3>1 DEF t
  <2>10. CASE t # s
    <3>1. FollowedBy(longer, k, calls) /\ k + Len(calls) < Len(longer)
      BY <1>2, <1>6, <2>2, <2>4, <2>6, <2>7, <2>10, FollowedExtend
    <3> QED BY <2>3, <2>8, <2>10, <3>1 DEF t
  <2> QED BY <2>9, <2>10
<1>13. CallsBehind(Append(line, e), more)
  BY <1>12 DEF CallsBehind
<1>14. Sound(more, last, now)
  BY <1>5, <1>9, <1>10, <1>11, <1>13 DEF Sound, Told
<1>15. Open(more, s)
  BY <1>5, <1>12 DEF Open
<1> QED BY <1>5, <1>14, <1>15 DEF more, e

\* A call ends: the timeline does not tell.
LEMMA EndedSound ==
    ASSUME NEW log \in Seq(Entry), NEW last \in Int, NEW known, Sound(log, last, known),
           NEW s \in Int, NEW id \in Int, NEW ok \in BOOLEAN
    PROVE  LET more == Append(log, Ended(s, id, ok))
           IN  /\ Sound(more, last, known) /\ (Open(log, s) => Open(more, s))
               /\ Timeline(more) = Timeline(log)
<1> DEFINE e == Ended(s, id, ok)
           more == Append(log, e)
           line == Timeline(log)
<1>1. e \in Entry /\ e.kind = "tool_completed" /\ e.calls = <<>>
  <2>1. e \in Entry
    BY EventTypes
  <2> QED BY <2>1 DEF Ended, Event
<1> HIDE DEF e
<1>2. /\ DOMAIN log = 1..Len(log) /\ DOMAIN more = 1..(Len(log) + 1) /\ Len(log) \in Nat
      /\ \A k \in 1..Len(log) : more[k] = log[k]
      /\ more[Len(log) + 1] = e
  BY <1>1, AppendIs
<1>3. Timeline(more) = line
  BY <1>1, TimelineAppend
<1>4. Given(more) = Given(log)
  <2>1. Range(<<>>) = {}
    BY DEF Range
  <2> QED BY <1>1, <2>1, GivenAppend
<1>5. \A t : Calls(more, t) = Calls(log, t)
  BY <1>1, CallsAppend
<1> HIDE DEF more, line
<1>6. Numbered(log, last, known) /\ Told(line, log, known)
  BY DEF Sound, line
<1>7. Numbered(more, last, known)
  <2>1. ASSUME NEW k \in DOMAIN more
        PROVE  /\ more[k].kind # "agent_finished"
               /\ more[k].kind = "llm_step" => more[k].of <= last
               /\ more[k].kind = "tool_started" => more[k].of \in known /\ more[k].step <= last
               /\ more[k].kind # "llm_step" => more[k].calls = <<>>
    <3>1. CASE k \in DOMAIN log
      <4>1. more[k] = log[k]
        BY <1>2, <3>1
      <4> QED BY <1>6, <3>1, <4>1 DEF Numbered
    <3>2. CASE k = Len(log) + 1
      <4>1. more[k] = e
        BY <1>2, <3>2
      <4> QED BY <1>1, <4>1
    <3> QED BY <1>2, <3>1, <3>2
  <2> QED BY <1>4, <1>6, <2>1 DEF Numbered
<1>8. Told(line, more, known)
  BY <1>5, <1>6 DEF Told, CallsBehind
<1>9. Sound(more, last, known)
  BY <1>3, <1>7, <1>8 DEF Sound
<1>10. Open(log, s) => Open(more, s)
  BY <1>3, <1>5 DEF Open, line
<1> QED BY <1>3, <1>9, <1>10 DEF more, e, line

\* The end of the run closes the timeline.
LEMMA FinishedTold ==
    ASSUME NEW log \in Seq(Entry), NEW last \in Int, NEW known, Sound(log, last, known),
           NEW e \in Entry, e.kind = "agent_finished", e.calls = <<>>
    PROVE  /\ Timeline(Append(log, e)) = Append(Timeline(log), e)
           /\ Told(Timeline(Append(log, e)), Append(log, e), known)
<1> DEFINE more == Append(log, e)
           line == Timeline(log)
<1>1. e \in Line
  BY DEF Line
<1>2. Numbered(log, last, known) /\ Told(line, log, known)
  BY DEF Sound
<1>3. Timeline(more) = Append(line, e)
  <2>1. ASSUME NEW k \in DOMAIN log PROVE ~SameEntry(log[k], e)
    BY <1>2 DEF Numbered, SameEntry
  <2> QED BY <2>1, TimelineAppend
<1>4. line \in Seq(Line)
  BY TimelineType
<1>5. \A t : Calls(more, t) = Calls(log, t)
  BY CallsAppend
<1> HIDE DEF more
<1>6. OwnCalls(Append(line, e)) /\ MadeBefore(Append(line, e))
  <2>1. \A c, d \in DOMAIN e.calls : e.calls[c] = e.calls[d] => c = d
    OBVIOUS
  <2>2. \A j \in DOMAIN line : Range(line[j].calls) \cap Range(e.calls) = {}
    BY DEF Range
  <2>3. OwnCalls(line) /\ MadeBefore(line) /\ e.kind # "tool_started"
    BY <1>2 DEF Told
  <2> HIDE DEF line
  <2> QED BY <1>1, <1>4, <2>1, <2>2, <2>3, MadeAppend
<1>7. RunInOrder(Append(line, e), known)
  <2>1. \A c, d \in DOMAIN e.calls : c < d /\ e.calls[d] \in known => e.calls[c] \in known
    OBVIOUS
  <2>2. RunInOrder(line, known)
    BY <1>2 DEF Told
  <2> HIDE DEF line
  <2> QED BY <1>1, <1>4, <2>1, <2>2, OrderAppend
<1>8. CallsBehind(Append(line, e), more)
  <2> DEFINE longer == Append(line, e)
  <2>1. /\ DOMAIN line = 1..Len(line) /\ DOMAIN longer = 1..(Len(line) + 1)
        /\ Len(line) \in Nat
        /\ \A j \in 1..Len(line) : longer[j] = line[j]
        /\ longer[Len(line) + 1] = e
    <3> HIDE DEF line
    <3> QED BY <1>1, <1>4, AppendIs
  <2>2. ASSUME NEW k \in DOMAIN longer, longer[k].kind = "llm_step"
        PROVE  FollowedBy(longer, k, Calls(more, longer[k].of))
    <3>1. k \in DOMAIN line
      BY <2>1, <2>2
    <3> DEFINE calls == Calls(log, line[k].of)
               T == {x \in Entry : x.kind = "tool_started" /\ x.step = line[k].of}
    <3>2. longer[k] = line[k] /\ line[k].kind = "llm_step"
      BY <2>1, <2>2, <3>1
    <3>3. FollowedBy(line, k, calls)
      BY <1>2, <3>1, <3>2 DEF Told, CallsBehind
    <3>4. calls \in Seq(T)
      BY CallsType
    <3> HIDE DEF T
    <3>5. Len(calls) \in Nat /\ DOMAIN calls = 1..Len(calls)
      BY <3>4
    <3>6. Calls(more, line[k].of) = calls
      BY <1>5
    <3> HIDE DEF calls
    <3>7. e.kind # "tool_started"
      OBVIOUS
    <3>8. FollowedBy(longer, k, calls)
      <4> HIDE DEF line
      <4> QED BY <1>1, <1>4, <3>1, <3>3, <3>5, <3>7, FollowedExtend
    <3> QED BY <3>2, <3>6, <3>8
  <2> HIDE DEF longer
  <2>3. CallsBehind(longer, more)
    BY <2>2 DEF CallsBehind
  <2> QED BY <2>3 DEF longer
<1>9. Told(Timeline(more), more, known)
  BY <1>3, <1>6, <1>7, <1>8 DEF Told
<1> QED BY <1>3, <1>9 DEF more

-----------------------------------------------------------------------------
(* What a successful run reports.                                          *)

\* The runs of the calls a timeline tells of that succeeded.
Reportable(line, snaps) ==
    [k \in DOMAIN line |-> /\ line[k].kind = "tool_started"
                           /\ ~snaps[line[k].of].excluded
                           /\ snaps[line[k].of].status = "succeeded"]
Runs(calls, snaps) == [k \in DOMAIN calls |-> snaps[calls[k].of].run]
Reported(line, snaps) == Runs(Picked(line, Reportable(line, snaps)), snaps)

LEMMA ReportedEmpty == ASSUME NEW snaps PROVE Reported(<<>>, snaps) = <<>>
<1> DEFINE kept == Reportable(<<>>, snaps)
<1>1. Picked(<<>>, kept) = <<>>
  BY PickedEmpty
<1>2. Runs(<<>>, snaps) = <<>>
  BY DEF Runs
<1> QED BY <1>1, <1>2 DEF Reported

LEMMA ResultsAre ==
    ASSUME NEW log \in Seq(Entry)
    PROVE  Results(log, TRUE) = Reported(Timeline(log), snapshots)
<1> DEFINE line == Timeline(log)
           a == Reportable(line, snapshots)
           b == [k \in DOMAIN line |->
                    /\ line[k].kind = "tool_started"
                    /\ ~snapshots[line[k].of].excluded
                    /\ TRUE => snapshots[line[k].of].status = "succeeded"]
<1>1. Results(log, TRUE) = Runs(Picked(line, b), snapshots)
  BY DEF Results, Runs
<1>2. a = b
  BY DEF Reportable
<1> QED BY <1>1, <1>2 DEF Reported

\* The calls a timeline tells of have the same snapshots.
SameCalls(line, a, b) ==
    \A k \in DOMAIN line : line[k].kind = "tool_started" => a[line[k].of] = b[line[k].of]

LEMMA ReportedAppend ==
    ASSUME NEW line \in Seq(Line), NEW e \in Line, NEW a, NEW b, SameCalls(line, a, b)
    PROVE  Reported(Append(line, e), b) =
             IF /\ e.kind = "tool_started"
                /\ ~b[e.of].excluded /\ b[e.of].status = "succeeded"
             THEN Append(Reported(line, a), b[e.of].run)
             ELSE Reported(line, a)
<1> DEFINE more == Append(line, e)
           old == Reportable(line, a)
           new == Reportable(more, b)
           was == Picked(line, old)
           T == {line[k] : k \in {j \in DOMAIN line : line[j].kind = "tool_started"}}
           counts == /\ e.kind = "tool_started"
                     /\ ~b[e.of].excluded /\ b[e.of].status = "succeeded"
<1>1. /\ DOMAIN line = 1..Len(line) /\ DOMAIN more = 1..(Len(line) + 1) /\ Len(line) \in Nat
      /\ \A k \in 1..Len(line) : more[k] = line[k]
      /\ more[Len(line) + 1] = e
  BY AppendIs
<1> HIDE DEF more
<1>2. ASSUME NEW k \in 1..Len(line) PROVE old[k] = new[k]
  <2>1. old[k] = (/\ line[k].kind = "tool_started"
                  /\ ~a[line[k].of].excluded /\ a[line[k].of].status = "succeeded")
    BY <1>1 DEF Reportable
  <2>2. new[k] = (/\ line[k].kind = "tool_started"
                  /\ ~b[line[k].of].excluded /\ b[line[k].of].status = "succeeded")
    <3>1. k \in DOMAIN more /\ more[k] = line[k]
      BY <1>1
    <3> QED BY <3>1 DEF Reportable
  <2>3. line[k].kind = "tool_started" => a[line[k].of] = b[line[k].of]
    BY <1>1 DEF SameCalls
  <2> QED BY <2>1, <2>2, <2>3
<1>3. new[Len(line) + 1] = counts
  <2>1. Len(line) + 1 \in DOMAIN more /\ more[Len(line) + 1] = e
    BY <1>1
  <2> QED BY <2>1 DEF Reportable
<1>4. Picked(more, new) = IF counts THEN Append(was, e) ELSE was
  <2> HIDE DEF old, new, counts
  <2>1. Picked(more, new) = IF new[Len(line) + 1] THEN Append(was, e) ELSE was
    BY <1>2, PickedAppend DEF more
  <2> QED BY <1>3, <2>1
<1>5. was \in Seq(T) /\ T \subseteq Line
  <2>1. Len(line) \in Nat /\ \A n \in 1..Len(line) : old[n] => line[n] \in T
    BY <1>1 DEF Reportable
  <2>2. T \subseteq Line
    OBVIOUS
  <2> HIDE DEF old, T
  <2> QED BY <2>1, <2>2, PickedType
<1>6. \A k \in DOMAIN was : a[was[k].of] = b[was[k].of]
  <2>1. \A k \in DOMAIN was : was[k] \in T
    <3> HIDE DEF was, T
    <3> QED BY <1>5
  <2> HIDE DEF was
  <2> QED BY <2>1 DEF SameCalls
<1> HIDE DEF T
<1>7. Len(was) \in Nat /\ DOMAIN was = 1..Len(was) /\ was \in Seq(Line)
  <2> HIDE DEF was
  <2> QED BY <1>5
<1> HIDE DEF was
<1>8. Runs(was, b) = Runs(was, a)
  BY <1>6 DEF Runs
<1>9. Runs(Append(was, e), b) = Append(Runs(was, a), b[e.of].run)
  <2> DEFINE w == Append(was, e)
             r == Runs(was, a)
             x == b[e.of].run
  <2>1. /\ DOMAIN w = 1..(Len(was) + 1)
        /\ \A k \in 1..Len(was) : w[k] = was[k]
        /\ w[Len(was) + 1] = e
    BY <1>7, AppendIs
  <2>2. r \in [1..Len(was) -> {a[was[k].of].run : k \in DOMAIN was}]
    BY <1>7 DEF Runs
  <2> DEFINE V == {a[was[k].of].run : k \in DOMAIN was} \cup {x}
  <2>3. r \in Seq(V) /\ Len(r) = Len(was) /\ x \in V
    <3>1. r \in [1..Len(was) -> V] /\ x \in V
      BY <2>2
    <3> HIDE DEF V, r, x
    <3> QED BY <1>7, <3>1
  <2> HIDE DEF V
  <2>4. /\ DOMAIN Append(r, x) = 1..(Len(was) + 1)
        /\ \A k \in 1..Len(was) : Append(r, x)[k] = r[k]
        /\ Append(r, x)[Len(was) + 1] = x
        /\ Append(r, x) = [k \in 1..(Len(was) + 1) |-> Append(r, x)[k]]
    <3> HIDE DEF r, x
    <3>1. /\ DOMAIN Append(r, x) = 1..(Len(r) + 1)
          /\ \A k \in 1..Len(r) : Append(r, x)[k] = r[k]
          /\ Append(r, x)[Len(r) + 1] = x
          /\ Append(r, x) \in Seq(V)
      BY <2>3, AppendIs
    <3> DEFINE q == Append(r, x)
    <3>2. q = [k \in DOMAIN q |-> q[k]]
      <4>1. q \in Seq(V)
        BY <3>1
      <4> HIDE DEF q
      <4> QED BY <4>1
    <3> QED BY <2>3, <3>1, <3>2
  <2>5. \A k \in 1..(Len(was) + 1) : b[w[k].of].run = Append(r, x)[k]
    <3>1. ASSUME NEW k \in 1..Len(was) PROVE b[w[k].of].run = Append(r, x)[k]
      <4>1. r[k] = a[was[k].of].run /\ a[was[k].of] = b[was[k].of]
        BY <1>6, <1>7 DEF Runs
      <4> HIDE DEF r, x, w
      <4> QED BY <2>1, <2>4, <4>1
    <3>2. b[w[Len(was) + 1].of].run = Append(r, x)[Len(was) + 1]
      <4> HIDE DEF r, w
      <4> QED BY <2>1, <2>4
    <3>3. \A k \in 1..(Len(was) + 1) : k \in 1..Len(was) \/ k = Len(was) + 1
      BY <1>7
    <3> HIDE DEF r, w, x
    <3> QED BY <3>1, <3>2, <3>3
  <2>6. Runs(w, b) = [k \in 1..(Len(was) + 1) |-> b[w[k].of].run]
    <3> HIDE DEF w
    <3> QED BY <2>1 DEF Runs
  <2> HIDE DEF w, r, x
  <2>7. Runs(w, b) = Append(r, x)
    BY <2>4, <2>5, <2>6
  <2> QED BY <2>7 DEF w, r, x
<1>10. Reported(more, b) = Runs(Picked(more, new), b) /\ Reported(line, a) = Runs(was, a)
  BY DEF Reported, was
<1> HIDE DEF counts, new, old
<1>11. Reported(more, b) = IF counts THEN Append(Reported(line, a), b[e.of].run)
                           ELSE Reported(line, a)
  BY <1>4, <1>8, <1>9, <1>10
<1> QED BY <1>11 DEF counts, more

-----------------------------------------------------------------------------
(* Ids of an answer, and the next call of it.                              *)

\* The ids of a new answer are its own.
Fresh(log, last, ids) ==
    /\ \A c, d \in DOMAIN ids : ids[c] = ids[d] => c = d
    /\ Given(log) \cap Range(ids) = {}
    /\ \A id \in Range(ids) :
         -(last + 1) <= id /\ id <= Cardinality(Given(log) \cup Range(ids))

LEMMA NamedIs == Named = Cardinality(Given(events))
BY DEF Named, Given

LEMMA CallIdsFresh ==
    ASSUME ProviderIds, events \in Seq(Entry), NEW last \in Nat, NEW known,
           Numbered(events, last, known), NEW n \in Nat
    PROVE  Fresh(events, last, CallIds(n))
<1> DEFINE given == Given(events)
           g == Cardinality(given)
           ids == CallIds(n)
           new == (g + 1)..(g + n)
<1>1. IsFiniteSet(given) /\ g \in Nat
  BY GivenFinite
<1>2. given \subseteq Int /\ \A id \in given : -last <= id /\ id <= g
  BY GivenType DEF Numbered
<1> HIDE DEF given
<1>3. DOMAIN ids = 1..n /\ \A c \in 1..n : ids[c] = g + c
  BY NamedIs DEF CallIds, given
<1> HIDE DEF ids, g
<1>4. Range(ids) = new
  <2>1. \A c \in 1..n : g + c \in new
    BY <1>1
  <2>2. \A x \in new : x - g \in 1..n /\ g + (x - g) = x
    BY <1>1
  <2>3. ASSUME NEW x \in new PROVE x \in Range(ids)
    <3>1. x - g \in DOMAIN ids /\ ids[x - g] = x
      BY <1>3, <2>2
    <3> QED BY <3>1 DEF Range
  <2>4. \A x \in Range(ids) : x \in new
    BY <1>3, <2>1 DEF Range
  <2> QED BY <2>3, <2>4
<1>5. \A c, d \in DOMAIN ids : ids[c] = ids[d] => c = d
  BY <1>1, <1>3
<1>6. given \cap Range(ids) = {}
  <2>1. \A x \in new : ~(x <= g)
    BY <1>1
  <2> QED BY <1>2, <1>4, <2>1
<1>7. Cardinality(given \cup Range(ids)) = g + n
  <2>1. IsFiniteSet(new) /\ Cardinality(new) = n
    <3>1. g + 1 \in Int /\ g + n \in Int
          /\ (IF g + 1 > g + n THEN 0 ELSE (g + n) - (g + 1) + 1) = n
      BY <1>1
    <3> QED BY <3>1, FS_Interval
  <2>2. IsFiniteSet(given \cap new) /\ Cardinality(given \cap new) = 0
    <3>1. given \cap new = {}
      BY <1>4, <1>6
    <3> QED BY <3>1, FS_EmptySet
  <2>3. Cardinality(given \cup new)
          = Cardinality(given) + Cardinality(new) - Cardinality(given \cap new)
    BY <1>1, <2>1, FS_Union
  <2> QED BY <1>1, <1>4, <2>1, <2>2, <2>3 DEF g
<1>8. \A id \in Range(ids) :
        -(last + 1) <= id /\ id <= Cardinality(given \cup Range(ids))
  <2>1. \A x \in new : -(last + 1) <= x /\ x <= g + n
    BY <1>1
  <2> QED BY <1>4, <1>7, <2>1
<1> QED BY <1>5, <1>6, <1>8 DEF Fresh, given, ids

LEMMA PlaceholderFresh ==
    ASSUME events \in Seq(Entry), NEW last \in Nat, NEW known,
           Numbered(events, last, known)
    PROVE  Fresh(events, last, <<-(last + 1)>>)
<1> DEFINE p == -(last + 1)
           given == Given(events)
           ids == <<p>>
<1>1. given \subseteq Int /\ \A id \in given : -last <= id
  BY GivenType DEF Numbered
<1>2. DOMAIN ids = {1} /\ ids[1] = p
  OBVIOUS
<1>3. p \in Int /\ p <= 0 /\ p <= p /\ ~(-last <= p)
  OBVIOUS
<1>4. Range(ids) = {p}
  BY <1>2 DEF Range
<1>5. Cardinality(given \cup {p}) \in Nat
  <2>1. IsFiniteSet(given)
    BY GivenFinite
  <2> HIDE DEF p, given
  <2> QED BY <2>1, FS_AddElement, FS_CardinalityType
<1>6. p <= Cardinality(given \cup {p})
  <2> DEFINE card == Cardinality(given \cup {p})
  <2>1. card \in Nat
    BY <1>5
  <2> HIDE DEF card, p
  <2>2. p <= card
    BY <1>3, <2>1
  <2> QED BY <2>2 DEF card
<1>7. given \cap Range(ids) = {}
  <2> HIDE DEF p, given
  <2> QED BY <1>1, <1>3, <1>4
<1>8. \A c, d \in DOMAIN ids : ids[c] = ids[d] => c = d
  BY <1>2
<1>9. \A id \in Range(ids) : -(last + 1) <= id /\ id <= Cardinality(given \cup Range(ids))
  <2>1. \A id \in Range(ids) : p <= id /\ id <= Cardinality(given \cup Range(ids))
    <3> HIDE DEF p, given, ids
    <3> QED BY <1>3, <1>4, <1>6
  <2> QED BY <2>1
<1> QED BY <1>7, <1>8, <1>9 DEF Fresh

\* An answer without calls.
LEMMA NothingFresh ==
    ASSUME NEW log, NEW last
    PROVE  Fresh(log, last, <<>>)
<1>1. DOMAIN <<>> = {} /\ Range(<<>>) = {}
  BY DEF Range
<1> QED BY <1>1 DEF Fresh

\* The calls before the next one of an answer were begun.
LEMMA NextKnown ==
    ASSUME NEW line \in Seq(Line), NEW known, OwnCalls(line),
           NEW k \in DOMAIN line, NEW d \in DOMAIN line[k].calls,
           \A c \in DOMAIN line[k].calls : c < d => line[k].calls[c] \in known
    PROVE  NewKnown(line, known, line[k].calls[d])
<1> DEFINE id == line[k].calls[d]
<1>1. id \in Range(line[k].calls)
  BY DEF Range
<1>2. DOMAIN line \subseteq Int
  OBVIOUS
<1>3. ASSUME NEW j \in DOMAIN line, NEW b \in DOMAIN line[j].calls, line[j].calls[b] = id
      PROVE  j = k /\ b = d
  <2>1. id \in Range(line[j].calls)
    BY <1>3 DEF Range
  <2>2. j = k
    <3>1. CASE j < k
      <4>1. j \in 1..(k - 1)
        BY <3>1
      <4>2. Range(line[j].calls) \cap Range(line[k].calls) = {}
        BY <4>1 DEF OwnCalls
      <4> HIDE DEF id
      <4> QED BY <1>1, <2>1, <4>2
    <3>2. CASE k < j
      <4>1. k \in 1..(j - 1)
        BY <3>2
      <4>2. Range(line[k].calls) \cap Range(line[j].calls) = {}
        BY <4>1 DEF OwnCalls
      <4> HIDE DEF id
      <4> QED BY <1>1, <2>1, <4>2
    <3> QED BY <1>2, <3>1, <3>2
  <2>3. b = d
    BY <1>3, <2>2 DEF OwnCalls
  <2> QED BY <2>2, <2>3
<1>4. ASSUME NEW j \in DOMAIN line, NEW a \in DOMAIN line[j].calls,
             NEW b \in DOMAIN line[j].calls, a < b, line[j].calls[b] = id
      PROVE  line[j].calls[a] \in known
  BY <1>3, <1>4
<1> HIDE DEF id
<1>5. NewKnown(line, known, id)
  BY <1>1, <1>4 DEF NewKnown
<1> QED BY <1>5 DEF id

-----------------------------------------------------------------------------
(* An invalid answer: all of its calls are begun and fail.                 *)

LEMMA LineKnown ==
    ASSUME NEW log \in Seq(Entry), NEW last, NEW known, Sound(log, last, known),
           NEW k \in DOMAIN Timeline(log), Timeline(log)[k].kind = "tool_started"
    PROVE  Timeline(log)[k].of \in known
<1>1. PICK j \in DOMAIN log : Timeline(log)[k] = log[j]
  BY TimelineOf
<1>2. Numbered(log, last, known)
  BY DEF Sound
<1> QED BY <1>1, <1>2 DEF Numbered

\* The beginning of a call does not change what is reported.
LEMMA BeginReported ==
    ASSUME NEW log \in Seq(Entry), NEW last, NEW a, Sound(log, last, DOMAIN a),
           NEW s \in Int, NEW id \in Int,
           NEW b, \A x \in DOMAIN a : b[x] = a[x], b[id].status # "succeeded"
    PROVE  Reported(Append(Timeline(log), Begun(s, id)), b) = Reported(Timeline(log), a)
<1> DEFINE e == Begun(s, id)
           line == Timeline(log)
<1>1. e \in Line /\ e.of = id
  <2>1. TRUE \in BOOLEAN
    OBVIOUS
  <2>2. e \in Entry /\ e.kind = "tool_started"
    BY <2>1, EventTypes
  <2>3. e.of = id
    BY DEF Begun, Event
  <2> QED BY <2>2, <2>3 DEF Line
<1>2. line \in Seq(Line)
  BY TimelineType
<1>3. SameCalls(line, a, b)
  BY LineKnown DEF SameCalls
<1>4. ~(/\ e.kind = "tool_started" /\ ~b[e.of].excluded /\ b[e.of].status = "succeeded")
  BY <1>1
<1> HIDE DEF e, line
<1>5. Reported(Append(line, e), b) = Reported(line, a)
  BY <1>1, <1>2, <1>3, <1>4, ReportedAppend
<1> QED BY <1>5 DEF e, line

\* The first c calls, and the snapshots after them.
FirstCalls(s, ids, c) == [k \in 1..(2 * c) |-> FailedCalls(s, ids)[k]]
FirstIds(ids, c) == {ids[d] : d \in 1..c}
Failing(snaps, S) ==
    [k \in DOMAIN snaps \cup S |-> IF k \in S THEN Snapshot("failed", FALSE, 0) ELSE snaps[k]]

LEMMA FirstCallsType ==
    ASSUME NEW s \in Int, NEW ids \in Seq(Int), ids # <<>>, NEW c \in 0..Len(ids)
    PROVE  FirstCalls(s, ids, c) \in Seq(Entry) /\ Len(FirstCalls(s, ids, c)) = 2 * c
<1>1. Len(ids) \in Nat /\ c \in Nat /\ c <= Len(ids)
  OBVIOUS
<1>2. 2 * c \in Nat /\ 1..(2 * c) \subseteq 1..(2 * Len(ids))
  BY <1>1
<1>3. FailedCalls(s, ids) \in Seq(Entry) /\ DOMAIN FailedCalls(s, ids) = 1..(2 * Len(ids))
  BY InvalidLog DEF FailedCalls
<1>4. FirstCalls(s, ids, c) \in [1..(2 * c) -> Entry]
  BY <1>2, <1>3 DEF FirstCalls
<1> DEFINE n == 2 * c
<1> HIDE DEF n
<1>5. n \in Nat /\ FirstCalls(s, ids, c) \in [1..n -> Entry]
  BY <1>2, <1>4 DEF n
<1> QED BY <1>5 DEF n

LEMMA FirstCallsGrow ==
    ASSUME NEW s \in Int, NEW ids \in Seq(Int), ids # <<>>, NEW c \in 0..Len(ids), c < Len(ids)
    PROVE  FirstCalls(s, ids, c + 1) =
             Append(Append(FirstCalls(s, ids, c), Begun(s, ids[c + 1])),
                    Ended(s, ids[c + 1], FALSE))
<1> DEFINE p == FirstCalls(s, ids, c)
           q == FirstCalls(s, ids, c + 1)
           id == ids[c + 1]
           b == Begun(s, id)
           e == Ended(s, id, FALSE)
           n == 2 * c
<1>1. c \in Nat /\ c + 1 \in 1..Len(ids) /\ c + 1 \in 0..Len(ids) /\ Len(ids) \in Nat /\ id \in Int
  OBVIOUS
<1>2. n \in Nat /\ 2 * (c + 1) = n + 2 /\ n + 2 <= 2 * Len(ids)
      /\ (n + 1) % 2 = 1 /\ ((n + 1) + 1) \div 2 = c + 1
      /\ (n + 2) % 2 # 1 /\ (n + 2) \div 2 = c + 1
  BY <1>1
<1>3. b \in Entry /\ e \in Entry
  <2>1. FALSE \in BOOLEAN
    OBVIOUS
  <2> HIDE DEF id
  <2> QED BY <1>1, <2>1, EventTypes
<1>4. /\ p \in Seq(Entry) /\ Len(p) = n
      /\ q = [k \in 1..(n + 2) |-> FailedCalls(s, ids)[k]]
      /\ \A k \in 1..n : p[k] = FailedCalls(s, ids)[k]
  <2>1. p \in Seq(Entry) /\ Len(p) = n
    BY FirstCallsType
  <2>2. q = [k \in 1..(n + 2) |-> FailedCalls(s, ids)[k]]
    BY <1>2 DEF FirstCalls
  <2>3. \A k \in 1..n : p[k] = FailedCalls(s, ids)[k]
    BY DEF FirstCalls
  <2> QED BY <2>1, <2>2, <2>3
<1>5. FailedCalls(s, ids)[n + 1] = b /\ FailedCalls(s, ids)[n + 2] = e
  <2>1. n + 1 \in 1..(2 * Len(ids)) /\ n + 2 \in 1..(2 * Len(ids))
    BY <1>1, <1>2
  <2>2. FailedCalls(s, ids)[n + 1] = Begun(s, ids[((n + 1) + 1) \div 2])
    <3> HIDE DEF n
    <3> QED BY <1>2, <2>1 DEF FailedCalls
  <2>3. FailedCalls(s, ids)[n + 2] = Ended(s, ids[(n + 2) \div 2], FALSE)
    <3> HIDE DEF n
    <3> QED BY <1>2, <2>1 DEF FailedCalls
  <2> HIDE DEF n
  <2> QED BY <1>2, <2>2, <2>3
<1> HIDE DEF n, p, b, e
<1>6. \A k \in 1..(n + 2) : Append(Append(p, b), e)[k] = q[k]
  <2> HIDE DEF q
  <2>1. \A k \in 1..(n + 2) : q[k] = FailedCalls(s, ids)[k]
    BY <1>4
  <2>2. /\ Append(p, b) \in Seq(Entry) /\ Len(Append(p, b)) = n + 1
        /\ \A k \in 1..n : Append(p, b)[k] = p[k]
        /\ Append(p, b)[n + 1] = b
    <3>1. b \in Entry /\ p \in Seq(Entry) /\ Len(p) = n
      BY <1>3, <1>4
    <3> QED BY ONLY <3>1, AppendIs
  <2> DEFINE r == Append(p, b)
  <2>3. r \in Seq(Entry) /\ Len(r) = n + 1
    BY <2>2
  <2> HIDE DEF r
  <2>4. /\ \A k \in 1..(n + 1) : Append(r, e)[k] = r[k]
        /\ Append(r, e)[(n + 1) + 1] = e
    BY <1>3, <2>3, AppendIs
  <2>5. ASSUME NEW k \in 1..(n + 2) PROVE Append(r, e)[k] = q[k]
    <3>1. k \in 1..n \/ k = n + 1 \/ k = n + 2
      BY <1>2
    <3>2. n + 1 \in 1..(n + 1) /\ (n + 1) + 1 = n + 2 /\ 1..n \subseteq 1..(n + 1)
      BY <1>2
    <3> QED BY <1>4, <1>5, <2>1, <2>2, <2>4, <3>1, <3>2 DEF r
  <2> QED BY <2>5 DEF r
<1>7. Append(Append(p, b), e) = [k \in 1..(n + 2) |-> Append(Append(p, b), e)[k]]
  <2> DEFINE r == Append(p, b)
  <2>1. r \in Seq(Entry) /\ Len(r) = n + 1
    <3>1. b \in Entry /\ p \in Seq(Entry) /\ Len(p) = n
      BY <1>3, <1>4
    <3> QED BY ONLY <3>1, AppendIs DEF r
  <2> HIDE DEF r
  <2> DEFINE t == Append(r, e)
  <2>2. t \in Seq(Entry) /\ DOMAIN t = 1..(n + 2)
    BY <1>2, <1>3, <2>1
  <2> HIDE DEF t
  <2>3. t = [k \in 1..(n + 2) |-> t[k]]
    BY <2>2
  <2> QED BY <2>3 DEF t, r
<1>8. q = [k \in 1..(n + 2) |-> q[k]]
  BY <1>4
<1> HIDE DEF q
<1>9. q = Append(Append(p, b), e)
  BY <1>6, <1>7, <1>8
<1> QED BY <1>9 DEF p, q, b, e

\* The calls of ids up to the c-th were begun, of an answer the timeline tells of.
Up(line, ids, known, c) ==
    /\ \E k \in DOMAIN line : line[k].calls = ids
    /\ \A d \in DOMAIN ids : ids[d] \in known <=> d <= c

\* The snapshots b are a's and one of call id, which has not succeeded.
WithCall(a, b, id) ==
    /\ DOMAIN b = DOMAIN a \cup {id}
    /\ \A x \in DOMAIN a : b[x] = a[x]
    /\ b[id].status # "succeeded"

\* A call begins: b are the snapshots with the call's in them.
LEMMA BeginCall ==
    ASSUME NEW log \in Seq(Entry), NEW last \in Int, NEW a, Sound(log, last, DOMAIN a),
           NEW s \in Int, Open(log, s), s <= last,
           NEW ids \in Seq(Int), NEW c \in Nat, c + 1 \in DOMAIN ids,
           Up(Timeline(log), ids, DOMAIN a, c),
           NEW b, WithCall(a, b, ids[c + 1])
    PROVE  LET more == Append(log, Begun(s, ids[c + 1]))
           IN  /\ Timeline(more) = Append(Timeline(log), Begun(s, ids[c + 1]))
               /\ Sound(more, last, DOMAIN b) /\ Open(more, s)
               /\ Reported(Timeline(more), b) = Reported(Timeline(log), a)
               /\ Up(Timeline(more), ids, DOMAIN b, c + 1)
<1> DEFINE id == ids[c + 1]
           e == Begun(s, id)
           more == Append(log, e)
           line == Timeline(log)
           known == DOMAIN a
           now == DOMAIN b
<1>1. PICK k \in DOMAIN line : line[k].calls = ids
  BY DEF Up
<1>2. \A d \in DOMAIN ids : ids[d] \in known <=> d <= c
  BY DEF Up
<1>3. id \in Int /\ id \notin known
  <2>1. ~(c + 1 <= c)
    OBVIOUS
  <2> HIDE DEF known
  <2> QED BY <1>2, <2>1
<1>4. line \in Seq(Line)
  BY TimelineType
<1>5. OwnCalls(line)
  BY DEF Sound, Told
<1>6. NewKnown(line, known, id)
  <2>1. \A d \in DOMAIN ids : d < c + 1 => ids[d] \in known
    <3>1. \A d \in DOMAIN ids : d < c + 1 => d <= c
      OBVIOUS
    <3> HIDE DEF known
    <3> QED BY <1>2, <3>1
  <2>2. \A d \in DOMAIN line[k].calls : d < c + 1 => line[k].calls[d] \in known
    BY <1>1, <2>1
  <2>3. c + 1 \in DOMAIN line[k].calls /\ line[k].calls[c + 1] = id
    BY <1>1
  <2> HIDE DEF line, known, id
  <2> QED BY <1>1, <1>4, <1>5, <2>2, <2>3, NextKnown
<1>7. id \in Given(log)
  <2>1. PICK j \in DOMAIN log : line[k] = log[j]
    BY TimelineOf
  <2>2. id \in Range(ids)
    BY DEF Range
  <2> QED BY <1>1, <2>1, <2>2 DEF Given
<1>8. now = known \cup {id} /\ Sound(log, last, known)
  BY DEF WithCall
<1>9. /\ Sound(more, last, now) /\ Open(more, s)
      /\ Timeline(more) = Append(line, e)
  <2>1. MayBegin(log, last, known, s, id)
    BY <1>3, <1>6, <1>7, <1>8 DEF MayBegin
  <2> HIDE DEF known, now, id
  <2>2. /\ Sound(more, last, known \cup {id}) /\ Open(more, s)
        /\ Timeline(more) = Append(line, e)
    <3>1. ASSUME NEW i \in Int, MayBegin(log, last, known, s, i)
          PROVE  /\ Sound(Append(log, Begun(s, i)), last, known \cup {i})
                 /\ Open(Append(log, Begun(s, i)), s)
                 /\ Timeline(Append(log, Begun(s, i))) = Append(line, Begun(s, i))
      BY <3>1, BegunSound
    <3> QED BY <1>3, <2>1, <3>1
  <2> QED BY <1>8, <2>2
<1>10. Reported(Append(line, e), b) = Reported(line, a)
  <2>1. b[id].status # "succeeded" /\ \A x \in DOMAIN a : b[x] = a[x]
    BY DEF WithCall
  <2> HIDE DEF known, now, id
  <2> QED BY <1>3, <1>8, <2>1, BeginReported DEF known
<1>11. Up(Append(line, e), ids, now, c + 1)
  <2>1. e \in Line
    <3>1. TRUE \in BOOLEAN
      OBVIOUS
    <3>2. e \in Entry /\ e.kind = "tool_started"
      <4> HIDE DEF id
      <4> QED BY <1>3, <3>1, EventTypes
    <3> QED BY <3>2 DEF Line
  <2>2. k \in DOMAIN Append(line, e) /\ Append(line, e)[k] = line[k]
    <3> HIDE DEF e, line
    <3> QED BY <1>4, <2>1
  <2>3. ASSUME NEW d \in DOMAIN ids PROVE ids[d] \in now <=> d <= c + 1
    <3>1. d \in Int /\ (d <= c + 1 <=> d <= c \/ d = c + 1)
      OBVIOUS
    <3>2. ids[d] = id <=> d = c + 1
      <4>1. \A i, j \in DOMAIN line[k].calls : line[k].calls[i] = line[k].calls[j] => i = j
        <5> HIDE DEF line
        <5> QED BY <1>5 DEF OwnCalls
      <4> QED BY <1>1, <4>1
    <3> HIDE DEF known, now, id
    <3> QED BY <1>2, <1>8, <3>1, <3>2
  <2> HIDE DEF now, line, e
  <2> QED BY <1>1, <2>2, <2>3 DEF Up
<1> QED BY <1>9, <1>10, <1>11

\* The recorder after c calls of an invalid answer.
FailedUpTo(base, s, snaps, ids, c) ==
    LET log == base \o FirstCalls(s, ids, c)
        after == Failing(snaps, FirstIds(ids, c))
    IN  /\ Sound(log, s, DOMAIN after) /\ Open(log, s)
        /\ Up(Timeline(log), ids, DOMAIN after, c)
        /\ Reported(Timeline(log), after) = Reported(Timeline(base), snaps)

LEMMA FailedOneMore ==
    ASSUME NEW base \in Seq(Entry), NEW s \in Int, NEW snaps, NEW ids \in Seq(Int), ids # <<>>,
           NEW c \in 0..Len(ids), c < Len(ids), FailedUpTo(base, s, snaps, ids, c)
    PROVE  FailedUpTo(base, s, snaps, ids, c + 1)
<1> DEFINE log == base \o FirstCalls(s, ids, c)
           next == base \o FirstCalls(s, ids, c + 1)
           a == Failing(snaps, FirstIds(ids, c))
           b == Failing(snaps, FirstIds(ids, c + 1))
           id == ids[c + 1]
           r == Reported(Timeline(base), snaps)
           more == Append(log, Begun(s, id))
<1>1. c \in Nat /\ c + 1 \in DOMAIN ids /\ id \in Int /\ s <= s
  OBVIOUS
<1>2. /\ Sound(log, s, DOMAIN a) /\ Open(log, s) /\ Up(Timeline(log), ids, DOMAIN a, c)
      /\ Reported(Timeline(log), a) = r
  BY DEF FailedUpTo
<1>3. log \in Seq(Entry) /\ more \in Seq(Entry) /\ next = Append(more, Ended(s, id, FALSE))
  <2> DEFINE p == FirstCalls(s, ids, c)
             x == Begun(s, id)
             y == Ended(s, id, FALSE)
  <2>1. p \in Seq(Entry)
    BY FirstCallsType
  <2>2. x \in Entry /\ y \in Entry
    <3>1. FALSE \in BOOLEAN
      OBVIOUS
    <3> HIDE DEF id
    <3> QED BY <1>1, <3>1, EventTypes
  <2>3. FirstCalls(s, ids, c + 1) = Append(Append(p, x), y)
    BY FirstCallsGrow
  <2> HIDE DEF p, x, y
  <2>4. base \o Append(Append(p, x), y) = Append(Append(base \o p, x), y)
    BY <2>1, <2>2
  <2>5. base \o p \in Seq(Entry) /\ Append(base \o p, x) \in Seq(Entry)
    BY <2>1, <2>2
  <2> QED BY <2>3, <2>4, <2>5 DEF p, x, y
<1>4. FirstIds(ids, c + 1) = FirstIds(ids, c) \cup {id}
  <2>1. 1..(c + 1) = 1..c \cup {c + 1}
    BY <1>1
  <2> QED BY <2>1 DEF FirstIds
<1>5. DOMAIN b = DOMAIN a \cup {id}
  BY <1>4 DEF Failing
<1>6. \A x \in DOMAIN a : b[x] = a[x]
  <2>1. id \notin DOMAIN a
    <3>1. ~(c + 1 <= c)
      BY <1>1
    <3> HIDE DEF a
    <3> QED BY <1>1, <1>2, <3>1 DEF Up
  <2>2. ASSUME NEW x \in DOMAIN a PROVE b[x] = a[x]
    <3>1. x # id /\ x \in DOMAIN b
      BY <1>5, <2>1, <2>2
    <3>2. x \in FirstIds(ids, c + 1) <=> x \in FirstIds(ids, c)
      BY <1>4, <3>1
    <3> QED BY <2>2, <3>1, <3>2 DEF Failing
  <2> QED BY <2>2
<1>7. b[id].status # "succeeded"
  <2>1. id \in FirstIds(ids, c + 1) /\ id \in DOMAIN b
    BY <1>4, <1>5
  <2>2. b[id] = Snapshot("failed", FALSE, 0)
    BY <2>1 DEF Failing
  <2> QED BY <2>2 DEF Snapshot
<1> DEFINE ext == WithCall(a, b, id)
<1>12. ext
  BY <1>5, <1>6, <1>7 DEF WithCall
<1> HIDE DEF log, a, b, r, next
<1>8. /\ Sound(more, s, DOMAIN b) /\ Open(more, s)
      /\ Reported(Timeline(more), b) = Reported(Timeline(log), a)
      /\ Up(Timeline(more), ids, DOMAIN b, c + 1)
  <2>1. /\ log \in Seq(Entry) /\ s \in Int /\ Sound(log, s, DOMAIN a)
        /\ Open(log, s) /\ s <= s
        /\ ids \in Seq(Int) /\ c \in Nat /\ c + 1 \in DOMAIN ids
        /\ Up(Timeline(log), ids, DOMAIN a, c)
        /\ WithCall(a, b, ids[c + 1])
    BY <1>1, <1>2, <1>3, <1>12
  <2> QED BY ONLY <2>1, BeginCall
<1> HIDE DEF more
<1>9. Sound(next, s, DOMAIN b) /\ Open(next, s) /\ Timeline(next) = Timeline(more)
  <2>1. FALSE \in BOOLEAN
    OBVIOUS
  <2> HIDE DEF id
  <2> QED BY <1>1, <1>3, <1>8, <2>1, EndedSound
<1>10. Up(Timeline(next), ids, DOMAIN b, c + 1) /\ Reported(Timeline(next), b) = r
  BY <1>2, <1>8, <1>9
<1> QED BY <1>9, <1>10 DEF FailedUpTo, next, b, r

LEMMA InvalidRecorded ==
    ASSUME NEW log \in Seq(Entry), NEW last \in Nat, NEW snaps, Sound(log, last, DOMAIN snaps),
           NEW ids \in Seq(Int), ids # <<>>, Fresh(log, last, ids)
    PROVE  LET more == log \o <<Answered(last + 1, ids)>> \o FailedCalls(last + 1, ids)
               after == Failing(snaps, Range(ids))
           IN  /\ Sound(more, last + 1, DOMAIN after)
               /\ Reported(Timeline(more), after) = Reported(Timeline(log), snaps)
<1> DEFINE e == Answered(last + 1, ids)
           s == last + 1
           base == Append(log, e)
           more == log \o <<Answered(last + 1, ids)>> \o FailedCalls(last + 1, ids)
           after == Failing(snaps, Range(ids))
           line == Timeline(log)
<1>1. s \in Int /\ s \in Nat /\ e \in Entry /\ e.kind = "llm_step" /\ e.calls = ids
  <2>1. s \in Int /\ s \in Nat
    OBVIOUS
  <2> HIDE DEF s
  <2> QED BY <2>1, AnsweredType DEF Answered, Event, s
<1>2. Sound(base, s, DOMAIN snaps) /\ Open(base, s) /\ Timeline(base) = Append(line, e)
  BY AnswerSound DEF Fresh
<1>3. base \in Seq(Entry) /\ line \in Seq(Line) /\ e \in Line
  BY <1>1, TimelineType DEF Line
<1>4. Reported(Timeline(base), snaps) = Reported(line, snaps)
  <2>1. SameCalls(line, snaps, snaps)
    BY DEF SameCalls
  <2> HIDE DEF e, line, base
  <2> QED BY <1>1, <1>2, <1>3, <2>1, ReportedAppend
<1>5. FailedUpTo(base, s, snaps, ids, 0)
  <2>1. FirstIds(ids, 0) = {} /\ Failing(snaps, {}) = [k \in DOMAIN snaps |-> snaps[k]]
    BY DEF FirstIds, Failing
  <2> DEFINE a == Failing(snaps, FirstIds(ids, 0))
  <2>2. DOMAIN a = DOMAIN snaps /\ \A x \in DOMAIN snaps : a[x] = snaps[x]
    BY <2>1
  <2>3. base \o FirstCalls(s, ids, 0) = base
    <3>1. 0 \in 0..Len(ids) /\ 2 * 0 = 0
      OBVIOUS
    <3> DEFINE p == FirstCalls(s, ids, 0)
    <3>2. p \in Seq(Entry) /\ Len(p) = 0
      BY <1>1, <3>1, FirstCallsType
    <3> HIDE DEF p, base
    <3> QED BY <1>3, <3>2 DEF p
  <2> HIDE DEF a
  <2>4. Reported(Timeline(base), a) = Reported(Timeline(base), snaps)
    <3>1. SameCalls(line, snaps, a)
      <4>1. \A k \in DOMAIN line : line[k].kind = "tool_started" => line[k].of \in DOMAIN snaps
        BY LineKnown
      <4> QED BY <2>2, <4>1 DEF SameCalls
    <3> HIDE DEF e, line, base
    <3> QED BY <1>1, <1>2, <1>3, <1>4, <3>1, ReportedAppend
  <2>5. Up(Timeline(base), ids, DOMAIN snaps, 0)
    <3> DEFINE n == Len(line) + 1
    <3>1. n \in DOMAIN Append(line, e) /\ Append(line, e)[n] = e
      <4> HIDE DEF line, e
      <4> QED BY <1>3
    <3>2. \A d \in DOMAIN ids : ids[d] \notin DOMAIN snaps /\ ~(d <= 0)
      <4>1. DOMAIN snaps \subseteq Given(log)
        BY DEF Sound, Numbered
      <4>2. \A d \in DOMAIN ids : ids[d] \in Range(ids) /\ ~(d <= 0)
        BY DEF Range
      <4> QED BY <4>1, <4>2 DEF Fresh
    <3> HIDE DEF n, e, line, base
    <3> QED BY <1>1, <1>2, <3>1, <3>2 DEF Up
  <2> HIDE DEF s, base
  <2> QED BY <1>2, <2>2, <2>3, <2>4, <2>5 DEF FailedUpTo, a
<1> DEFINE S == {c \in 0..Len(ids) : FailedUpTo(base, s, snaps, ids, c)}
<1>6. 0 \in S
  BY <1>5
<1>7. ASSUME NEW c \in 0..Len(ids), c \in S, c < Len(ids) PROVE c + 1 \in S
  <2>1. c + 1 \in 0..Len(ids)
    BY <1>7
  <2> HIDE DEF base, s
  <2>2. FailedUpTo(base, s, snaps, ids, c + 1)
    BY <1>1, <1>3, <1>7, FailedOneMore
  <2> QED BY <2>1, <2>2
<1>8. FailedUpTo(base, s, snaps, ids, Len(ids))
  <2>1. Len(ids) \in Nat /\ Len(ids) \in 0..Len(ids)
    OBVIOUS
  <2> HIDE DEF S
  <2>2. 0..Len(ids) \subseteq S
    BY <1>6, <1>7, <2>1, CountedUp
  <2> QED BY <2>1, <2>2 DEF S
<1>9. FirstIds(ids, Len(ids)) = Range(ids)
  <2>1. DOMAIN ids = 1..Len(ids)
    OBVIOUS
  <2> QED BY <2>1 DEF FirstIds, Range
<1>10. base \o FirstCalls(s, ids, Len(ids)) = more
  <2> DEFINE p == FailedCalls(s, ids)
  <2>1. FirstCalls(s, ids, Len(ids)) = p
    BY DEF FirstCalls, FailedCalls
  <2>2. Append(log, e) = log \o <<e>>
    <3>1. log \in Seq(Entry) /\ e \in Entry
      BY <1>1
    <3> HIDE DEF e
    <3> QED BY ONLY <3>1
  <2> HIDE DEF p, e
  <2> QED BY <2>1, <2>2 DEF p, e
<1> HIDE DEF base, s, more, after
<1>11. Sound(more, s, DOMAIN after) /\ Reported(Timeline(more), after) = Reported(line, snaps)
  BY <1>4, <1>8, <1>9, <1>10 DEF FailedUpTo, after
<1> QED BY <1>11 DEF more, after, s

-----------------------------------------------------------------------------
(* The conversation and the successes.                                     *)

\* The last message is an answer; its first calls are answered.
LEMMA FollowsAnswer ==
    ASSUME NEW m \in Seq(Message), FollowCalls(m), NEW ids \in Seq(Int),
           Len(m) > 0, m[Len(m)] = Assistant(ids),
           NEW tools \in Seq(Message), AnswerTo(tools, ids)
    PROVE  FollowCalls(m \o tools)
<1> DEFINE c == m \o tools
           n == Len(m)
<1>1. /\ n \in Nat /\ Len(tools) \in Nat /\ DOMAIN m = 1..n /\ DOMAIN tools = 1..Len(tools)
      /\ DOMAIN c = 1..(n + Len(tools))
      /\ \A k \in 1..n : c[k] = m[k]
      /\ \A k \in 1..Len(tools) : c[n + k] = tools[k]
  OBVIOUS
<1>2. m[n].role = "assistant" /\ m[n].calls = ids /\ n \in 1..n
  BY <1>1 DEF Assistant
<1> HIDE DEF c, n
<1>3. ASSUME NEW j \in DOMAIN c, c[j].role = "tool"
      PROVE  \E i \in 1..(j - 1) :
               /\ c[i].role = "assistant" /\ j - i <= Len(c[i].calls)
               /\ \A k \in (i + 1)..j : c[k].role = "tool"
               /\ c[j].call = c[i].calls[j - i]
  <2>1. CASE j \in 1..n
    <3>1. j \in DOMAIN m /\ m[j].role = "tool"
      BY <1>1, <1>3, <2>1
    <3>2. PICK i \in 1..(j - 1) :
               /\ m[i].role = "assistant" /\ j - i <= Len(m[i].calls)
               /\ \A k \in (i + 1)..j : m[k].role = "tool"
               /\ m[j].call = m[i].calls[j - i]
      BY <3>1 DEF FollowCalls
    <3>3. i \in 1..n /\ \A k \in (i + 1)..j : k \in 1..n
      BY <1>1, <2>1
    <3>4. c[i] = m[i] /\ c[j] = m[j] /\ \A k \in (i + 1)..j : c[k] = m[k]
      BY <1>1, <2>1, <3>3
    <3> QED BY <3>2, <3>4
  <2>2. CASE j \notin 1..n
    <3>1. j - n \in 1..Len(tools) /\ j = n + (j - n) /\ n \in 1..(j - 1)
      BY <1>1, <1>2, <2>2
    <3>2. c[n] = m[n] /\ c[j] = tools[j - n]
      BY <1>1, <1>2, <3>1
    <3>3. \A k \in (n + 1)..j : c[k].role = "tool"
      <4>1. ASSUME NEW k \in (n + 1)..j PROVE c[k].role = "tool"
        <5>1. k - n \in 1..Len(tools) /\ k = n + (k - n)
          <6>1. n \in Nat /\ Len(tools) \in Nat /\ j - n \in 1..Len(tools) /\ j \in Int
            BY <1>1, <3>1
          <6> QED BY ONLY <6>1
        <5>2. c[k] = tools[k - n]
          BY <1>1, <5>1
        <5> QED BY <1>1, <5>1, <5>2 DEF AnswerTo
      <4> QED BY <4>1
    <3>4. j - n <= Len(ids)
      <4>1. Len(tools) <= Len(ids) /\ Len(ids) \in Nat
        BY DEF AnswerTo
      <4> QED BY <1>1, <3>1, <4>1
    <3>5. tools[j - n].call = ids[j - n]
      BY <1>1, <3>1 DEF AnswerTo
    <3> QED BY <1>2, <3>1, <3>2, <3>3, <3>4, <3>5
  <2> QED BY <2>1, <2>2
<1>4. FollowCalls(c)
  BY <1>3 DEF FollowCalls
<1> QED BY <1>4 DEF c

LEMMA FollowsOne ==
    ASSUME NEW m \in Seq(Message), FollowCalls(m), NEW e \in Message, e.role # "tool"
    PROVE  FollowCalls(Append(m, e))
<1>1. <<e>> \in Seq(Message) /\ Append(m, e) = m \o <<e>>
  OBVIOUS
<1>2. FollowCalls(<<e>>)
  <2>1. DOMAIN <<e>> = {1} /\ <<e>>[1] = e
    OBVIOUS
  <2> QED BY <2>1, FollowsPlain
<1> DEFINE b == <<e>>
<1> HIDE DEF b
<1>3. FollowCalls(m \o b)
  BY <1>1, <1>2, FollowsJoin DEF b
<1> QED BY <1>1, <1>3 DEF b

\* What is left of a conversation whose front is cut off before a message that
\* is no tool's.
LEMMA FollowsSuffix ==
    ASSUME NEW m \in Seq(Message), FollowCalls(m), NEW a \in 1..(Len(m) + 1),
           a <= Len(m) => m[a].role # "tool"
    PROVE  FollowCalls(SubSeq(m, a, Len(m)))
<1> DEFINE c == SubSeq(m, a, Len(m))
           n == Len(m)
<1>1. /\ n \in Nat /\ DOMAIN m = 1..n /\ a \in Nat /\ a >= 1
      /\ DOMAIN c = 1..(n - a + 1)
      /\ \A k \in 1..(n - a + 1) : c[k] = m[a + k - 1]
  OBVIOUS
<1> HIDE DEF c, n
<1>2. ASSUME NEW j \in DOMAIN c, c[j].role = "tool"
      PROVE  \E i \in 1..(j - 1) :
               /\ c[i].role = "assistant" /\ j - i <= Len(c[i].calls)
               /\ \A k \in (i + 1)..j : c[k].role = "tool"
               /\ c[j].call = c[i].calls[j - i]
  <2> DEFINE J == a + j - 1
  <2>1. J \in 1..n /\ J >= a /\ a <= n /\ c[j] = m[J] /\ j \in Nat
    BY <1>1
  <2>2. PICK I \in 1..(J - 1) :
             /\ m[I].role = "assistant" /\ J - I <= Len(m[I].calls)
             /\ \A k \in (I + 1)..J : m[k].role = "tool"
             /\ m[J].call = m[I].calls[J - I]
    BY <1>1, <1>2, <2>1 DEF FollowCalls
  <2>3. I >= a
    <3>1. m[a].role # "tool"
      BY <2>1 DEF n
    <3>2. ASSUME I < a PROVE FALSE
      <4>1. a \in (I + 1)..J
        BY <1>1, <2>1, <3>2
      <4> QED BY <2>2, <3>1, <4>1
    <3> QED BY <1>1, <2>1, <3>2
  <2> DEFINE i == I - a + 1
  <2>4. i \in 1..(j - 1) /\ i \in 1..(n - a + 1) /\ a + i - 1 = I /\ J - I = j - i
    BY <1>1, <2>1, <2>3
  <2>5. c[i] = m[I]
    BY <1>1, <2>4
  <2>6. ASSUME NEW k \in (i + 1)..j PROVE c[k].role = "tool"
    <3>1. a + k - 1 \in (I + 1)..J /\ k \in 1..(n - a + 1)
      BY <1>1, <2>1, <2>4
    <3>2. c[k] = m[a + k - 1]
      BY <1>1, <3>1
    <3> QED BY <2>2, <3>1, <3>2
  <2> HIDE DEF i, J
  <2> QED BY <2>1, <2>2, <2>4, <2>5, <2>6
<1>3. FollowCalls(c)
  BY <1>2 DEF FollowCalls
<1> QED BY <1>3 DEF c

LEMMA TrimmedIs ==
    ASSUME NEW m \in Seq(Message), NEW budget
    PROVE  \/ Trimmed(m, budget) = <<>>
           \/ \E a \in 1..(Len(m) + 1) : Trimmed(m, budget) = SubSeq(m, a, Len(m))
<1> DEFINE n == Len(m)
           room == Room(m, budget)
           fits(k) == k = 1 \/ m[n - k + 1].tokens <= room[k - 1]
           kept == {k \in 1..n : \A j \in 1..k : fits(j)}
<1>1. Trimmed(m, budget)
        = IF budget <= 0 THEN <<>> ELSE SubSeq(m, n - Cardinality(kept) + 1, n)
  BY DEF Trimmed
<1>2. n \in Nat /\ 1 \in Int /\ n \in Int /\ (IF 1 > n THEN 0 ELSE n - 1 + 1) = n
  OBVIOUS
<1>3. kept \subseteq 1..n
  OBVIOUS
<1> HIDE DEF kept, n
<1>4. IsFiniteSet(1..n) /\ Cardinality(1..n) = n
  BY <1>2, FS_Interval
<1>5. Cardinality(kept) \in Nat /\ Cardinality(kept) <= n
  <2>1. IsFiniteSet(kept) /\ Cardinality(kept) <= n
    BY <1>3, <1>4, FS_Subset
  <2> QED BY <2>1, FS_CardinalityType
<1>6. n - Cardinality(kept) + 1 \in 1..(n + 1)
  BY <1>2, <1>5
<1> QED BY <1>1, <1>6 DEF n

\* The runs of the calls that succeeded.
Call == [id : Int, ok : BOOLEAN]
SuccessesOf(ran) == Picked([k \in DOMAIN ran |-> k], [k \in DOMAIN ran |-> ran[k].ok])

LEMMA SuccessesIs == Successes = SuccessesOf(executed)
BY DEF Successes, SuccessesOf

LEMMA SuccessesEmpty == SuccessesOf(<<>>) = <<>>
<1>1. [k \in DOMAIN <<>> |-> k] = <<>>
  OBVIOUS
<1> DEFINE kept == [k \in DOMAIN <<>> |-> <<>>[k].ok]
<1> HIDE DEF kept
<1>2. Picked(<<>>, kept) = <<>>
  BY PickedEmpty
<1> QED BY <1>1, <1>2 DEF SuccessesOf, kept

LEMMA SuccessesAppend ==
    ASSUME NEW ran \in Seq(Call), NEW e \in Call
    PROVE  SuccessesOf(Append(ran, e)) =
             IF e.ok THEN Append(SuccessesOf(ran), Len(ran) + 1) ELSE SuccessesOf(ran)
<1> DEFINE more == Append(ran, e)
           n == Len(ran)
           p == [k \in DOMAIN ran |-> k]
           q == [k \in DOMAIN more |-> k]
           a == [k \in DOMAIN ran |-> ran[k].ok]
           b == [k \in DOMAIN more |-> more[k].ok]
<1>1. /\ DOMAIN ran = 1..n /\ DOMAIN more = 1..(n + 1) /\ n \in Nat
      /\ \A k \in 1..n : more[k] = ran[k]
      /\ more[n + 1] = e
  BY AppendIs
<1> HIDE DEF more, n
<1>2. \A k \in 1..n : a[k] = b[k]
  BY <1>1
<1>3. b[n + 1] = e.ok
  BY <1>1
<1>4. p \in Seq(Nat) /\ Len(p) = n
  <2>1. p \in [1..n -> Nat]
    BY <1>1
  <2> HIDE DEF p
  <2> QED BY <1>1, <2>1
<1>5. q = Append(p, n + 1)
  <2>1. /\ DOMAIN Append(p, n + 1) = 1..(n + 1)
        /\ \A k \in 1..n : Append(p, n + 1)[k] = p[k]
        /\ Append(p, n + 1)[n + 1] = n + 1
        /\ Append(p, n + 1) \in Seq(Nat)
    <3>1. n + 1 \in Nat
      BY <1>1
    <3> HIDE DEF p
    <3> QED BY <1>4, <3>1, AppendIs
  <2> DEFINE r == Append(p, n + 1)
  <2>2. \A k \in 1..n : p[k] = k
    BY <1>1
  <2>3. r = [k \in 1..(n + 1) |-> r[k]]
    <3>1. r \in Seq(Nat) /\ DOMAIN r = 1..(n + 1)
      BY <2>1
    <3> HIDE DEF r
    <3> QED BY <3>1
  <2>4. \A k \in 1..(n + 1) : r[k] = k
    <3>1. \A k \in 1..(n + 1) : k \in 1..n \/ k = n + 1
      BY <1>1
    <3> HIDE DEF p
    <3> QED BY <2>1, <2>2, <3>1
  <2>5. q = [k \in 1..(n + 1) |-> k]
    BY <1>1
  <2> HIDE DEF r, q
  <2>6. q = r
    BY <2>3, <2>4, <2>5
  <2> QED BY <2>6 DEF r
<1> HIDE DEF a, b, p, q
<1>6. Picked(q, b) = IF b[n + 1] THEN Append(Picked(p, a), n + 1) ELSE Picked(p, a)
  <2>1. n + 1 \in Nat /\ \A k \in 1..Len(p) : a[k] = b[k]
    BY <1>1, <1>2, <1>4
  <2>2. Picked(Append(p, n + 1), b) =
          IF b[Len(p) + 1] THEN Append(Picked(p, a), n + 1) ELSE Picked(p, a)
    <3>1. ASSUME NEW x \in Nat
          PROVE  Picked(Append(p, x), b) =
                   IF b[Len(p) + 1] THEN Append(Picked(p, a), x) ELSE Picked(p, a)
      BY <1>4, <2>1, PickedAppend
    <3> QED BY <2>1, <3>1
  <2> QED BY <1>4, <1>5, <2>2
<1>7. SuccessesOf(ran) = Picked(p, a) /\ SuccessesOf(more) = Picked(q, b)
  BY DEF SuccessesOf, p, a, q, b
<1> QED BY <1>3, <1>6, <1>7 DEF more, n

-----------------------------------------------------------------------------
(* The invariant behind the requests and the records.  It speaks of chats  *)
(* whose provider gives every call an id of its own.                       *)

\* What the recorder holds is ahead of the step counter after an invalid answer.
Last == IF pc = "invalid" THEN step + 1 ELSE step

\* Every chat without a stop: messages follow the calls they answer.
Story == stops = 0 => FollowCalls(past) /\ FollowCalls(conversation)

\* The recorder of a run that goes on is sound, and reports what was done.
Recorded ==
    pc \in Working =>
      /\ Sound(events, Last, DOMAIN snapshots)
      /\ Reported(Timeline(events), snapshots) = SuccessesOf(executed)

\* The last entry of the timeline is the call that is running.
Going(line, id) ==
    \E front \in Seq(Line) :
      /\ line = Append(front, Begun(step, id))
      /\ \A k \in DOMAIN front : front[k].kind = "tool_started" => front[k].of # id
      /\ snapshots[id].status = "running"

\* The calls ids of the last message are being run: messages are the answers of
\* the first of them, turn the others.
Progress(ids) ==
    /\ Len(conversation) > 0 /\ conversation[Len(conversation)] = Assistant(ids)
    /\ AnswerTo(messages, ids)
    /\ Len(messages) + Len(turn) = Len(ids)
    /\ \A c \in DOMAIN turn : turn[c] = ids[Len(messages) + c]
    /\ Open(events, step)
    /\ Up(Timeline(events), ids, DOMAIN snapshots,
          IF pc = "running" THEN Len(messages) + 1 ELSE Len(messages))
    /\ pc = "running" => Going(Timeline(events), Head(turn))
Progressing == pc \in {"call", "running"} => \E ids \in Seq(Int) : Progress(ids)

RInv ==
    /\ executed \in Seq(Call)
    /\ Story /\ Recorded /\ Progressing /\ RecordIsTrue

LEMMA SoundEmpty == Sound(<<>>, 0, {})
<1>1. DOMAIN <<>> = {} /\ Timeline(<<>>) = <<>>
  BY TimelineEmpty
<1>2. Given(<<>>) = {}
  BY <1>1 DEF Given
<1>3. Numbered(<<>>, 0, {})
  BY <1>1, <1>2 DEF Numbered
<1>4. Told(<<>>, <<>>, {})
  BY <1>1 DEF Told, OwnCalls, MadeBefore, RunInOrder, CallsBehind
<1> QED BY <1>1, <1>3, <1>4 DEF Sound


LEMMA RInvInit == Init => RInv
<1> SUFFICES ASSUME Init PROVE RInv
  OBVIOUS
<1>1. pc = "idle" /\ past = <<>> /\ conversation = <<>> /\ executed = <<>> /\ payload = None
  BY DEF Init
<1>2. FollowCalls(<<>>) /\ <<>> \in Seq(Call)
  <2>1. DOMAIN <<>> = {}
    OBVIOUS
  <2> QED BY <2>1, FollowsPlain
<1>3. Story
  BY <1>1, <1>2 DEF Story
<1>4. RecordIsTrue
  BY <1>1 DEF RecordIsTrue, SuccessesAreReported, TimelineKeepsCalls
<1> QED BY <1>1, <1>2, <1>3, <1>4 DEF RInv, Recorded, Progressing, Working

LEMMA PromptRecorded == IInv /\ Typed /\ RInv /\ Prompt => RInv'
<1> SUFFICES ASSUME IInv, Typed, RInv, Prompt PROVE RInv'
  OBVIOUS
<1>1. /\ conversation' = Append(past, User) /\ step' = 0
      /\ events' = <<>> /\ snapshots' = <<>> /\ executed' = <<>> /\ payload' = None
      /\ pc' = "head" /\ past' = past /\ stops' = stops
  BY DEF Prompt
<1>2. executed' \in Seq(Call)
  BY <1>1
<1>3. Story'
  <2>1. ASSUME stops = 0 PROVE FollowCalls(Append(past, User))
    <3>1. past \in Seq(Message) /\ FollowCalls(past)
      BY <2>1 DEF Typed, RInv, Story
    <3>2. User \in Message /\ User.role # "tool"
      BY MessageTypes
    <3> QED BY <3>1, <3>2, FollowsOne
  <2> QED BY <1>1, <2>1 DEF RInv, Story
<1>4. Recorded'
  <2>1. DOMAIN <<>> = {} /\ Last' = 0
    BY <1>1 DEF Last
  <2>2. Sound(events', Last', DOMAIN snapshots')
    BY <1>1, <2>1, SoundEmpty
  <2>3. Reported(Timeline(events'), snapshots') = SuccessesOf(executed')
    BY <1>1, TimelineEmpty, ReportedEmpty, SuccessesEmpty
  <2> QED BY <2>2, <2>3 DEF Recorded
<1>5. Progressing' /\ RecordIsTrue'
  BY <1>1 DEF Progressing, RecordIsTrue, SuccessesAreReported, TimelineKeepsCalls
<1> QED BY <1>2, <1>3, <1>4, <1>5 DEF RInv

LEMMA StopRecorded == IInv /\ Typed /\ RInv /\ Stop => RInv'
<1> SUFFICES ASSUME IInv, Typed, RInv, Stop PROVE RInv'
  OBVIOUS
<1>1. /\ stops' = stops + 1 /\ stops \in Nat
      /\ UNCHANGED <<pc, conversation, turn, messages, step, events, snapshots,
                     executed, payload>>
  BY DEF Stop, run, Typed
<1>2. Story'
  <2>1. stops' # 0
    BY <1>1
  <2> QED BY <2>1 DEF Story
<1>3. executed' \in Seq(Call) /\ Recorded'
  BY <1>1 DEF RInv, Recorded, Last
<1>4. Progressing'
  BY <1>1 DEF RInv, Progressing, Progress, Going
<1>5. RecordIsTrue'
  BY <1>1 DEF RInv, RecordIsTrue, SuccessesAreReported, Successes, TimelineKeepsCalls, CallsOf
<1> QED BY <1>2, <1>3, <1>4, <1>5 DEF RInv

\* The worker moves on without a word.
LEMMA MovesRecorded ==
    ASSUME IInv, Typed, RInv, Cancelled \/ Request \/ NextIteration \/ UNCHANGED vars
    PROVE  RInv'
<1>1. UNCHANGED <<past, conversation, turn, messages, step, events, snapshots,
                  executed, payload, stops>>
  BY DEF Cancelled, Request, NextIteration, vars, run
<1>2. executed' \in Seq(Call) /\ Story'
  BY <1>1 DEF RInv, Story
<1>3. CASE UNCHANGED vars
  <2>1. pc' = pc
    BY <1>3 DEF vars
  <2>2. Recorded'
    BY <1>1, <2>1 DEF RInv, Recorded, Last
  <2>3. Progressing'
    BY <1>1, <2>1 DEF RInv, Progressing, Progress, Going
  <2>4. RecordIsTrue'
    BY <1>1, <2>1
       DEF RInv, RecordIsTrue, SuccessesAreReported, Successes, TimelineKeepsCalls, CallsOf
  <2> QED BY <1>2, <2>2, <2>3, <2>4 DEF RInv
<1>4. CASE Cancelled \/ Request \/ NextIteration
  <2>1. pc \in Working /\ pc # "invalid" /\ pc' \in {"done", "waiting", "head"}
    BY <1>4 DEF Cancelled, Request, NextIteration, Working
  <2>2. payload' = None
    BY <1>1, <2>1 DEF IInv, Verdict
  <2>3. Recorded'
    BY <1>1, <2>1 DEF RInv, Recorded, Last
  <2>4. Progressing'
    BY <2>1 DEF Progressing
  <2>5. RecordIsTrue'
    BY <2>2 DEF RecordIsTrue, SuccessesAreReported, TimelineKeepsCalls
  <2> QED BY <1>2, <2>3, <2>4, <2>5 DEF RInv
<1> QED BY <1>3, <1>4

\* The end of a run.
LEMMA FinishRecorded ==
    ASSUME Typed, step \in Nat, NEW log \in Seq(Entry), NEW last \in Int,
           Sound(log, last, DOMAIN snapshots),
           executed \in Seq(Call), Reported(Timeline(log), snapshots) = SuccessesOf(executed),
           NEW ok \in BOOLEAN, NEW stop, Finish(ok, stop, log),
           UNCHANGED <<snapshots, executed, stops>>,
           stops = 0 => FollowCalls(past)
    PROVE  (stops = 0 => FollowCalls(past')) /\ RecordIsTrue'
<1> DEFINE e == Finished(ok)
           line == Timeline(log)
           more == Append(log, e)
           known == DOMAIN snapshots
<1>1. /\ events' = more /\ pc' = "done"
      /\ payload' = [ok |-> ok, stop |-> stop, results |-> Results(events', ok)]
  BY DEF Finish
<1>2. e \in Entry /\ e.kind = "agent_finished" /\ e.calls = <<>> /\ e \in Line
  <2>1. e \in Entry /\ e.kind = "agent_finished"
    BY FinishedType
  <2>2. e.calls = <<>>
    BY DEF Finished, Event
  <2> QED BY <2>1, <2>2 DEF Line
<1> HIDE DEF e
<1>3. more \in Seq(Entry) /\ line \in Seq(Line)
  BY <1>2, TimelineType
<1>4. Timeline(more) = Append(line, e) /\ Told(Timeline(more), more, known)
  <2> HIDE DEF known
  <2> QED BY <1>2, FinishedTold DEF known
<1> HIDE DEF more
<1>5. SuccessesAreReported'
  <2>1. Reported(Timeline(more), snapshots) = Reported(line, snapshots)
    <3>1. SameCalls(line, snapshots, snapshots)
      BY DEF SameCalls
    <3>2. e.kind # "tool_started"
      BY <1>2
    <3> HIDE DEF line
    <3> QED BY <1>2, <1>3, <1>4, <3>1, <3>2, ReportedAppend
  <2>2. Results(more, TRUE) = Reported(Timeline(more), snapshots)
    BY <1>3, ResultsAre
  <2>3. Successes' = SuccessesOf(executed)
    BY DEF Successes, SuccessesOf
  <2>4. ASSUME payload'.ok PROVE payload'.results = Successes'
    <3>1. ok = TRUE
      BY <1>1, <2>4
    <3>2. payload'.results = Results(more, TRUE)
      BY <1>1, <3>1
    <3> QED BY <2>1, <2>2, <2>3, <3>2
  <2> QED BY <2>4 DEF SuccessesAreReported
<1>6. TimelineKeepsCalls'
  <2>1. CallsBehind(Timeline(more), more)
    BY <1>4 DEF Told
  <2>2. \A s : CallsOf(s)' = Calls(more, s)
    BY <1>1 DEF CallsOf, Calls
  <2> QED BY <1>1, <2>1, <2>2 DEF TimelineKeepsCalls, CallsBehind
<1>7. ASSUME stops = 0 PROVE FollowCalls(past')
  <2>1. ~cancelled /\ past \in Seq(Message) /\ FollowCalls(past)
    BY <1>7 DEF Typed
  <2>2. PICK closing \in IF ok THEN {<<>>} ELSE {<<>>, <<Assistant(<<>>)>>} :
           past' = past \o <<User>> \o Replay(Timeline(more), known, closing)
    BY <1>1, <2>1 DEF Finish, Store
  <2>3. closing \in Seq(Message) /\ FollowCalls(closing)
    <3>1. closing \in Seq(Message)
      BY ClosingType
    <3>2. \A j \in DOMAIN closing : closing[j].role # "tool"
      <4>1. closing = <<>> \/ closing = <<Assistant(<<>>)>>
        OBVIOUS
      <4>2. Assistant(<<>>).role = "assistant"
        BY DEF Assistant
      <4> DEFINE a == Assistant(<<>>)
      <4>3. DOMAIN <<>> = {} /\ DOMAIN <<a>> = {1} /\ <<a>>[1] = a
        OBVIOUS
      <4> HIDE DEF a
      <4> QED BY <4>1, <4>2, <4>3 DEF a
    <3> QED BY <3>1, <3>2, FollowsPlain
  <2> DEFINE r == Replay(Timeline(more), known, closing)
             u == Append(past, User)
  <2>4. r \in Seq(Message) /\ FollowCalls(r)
    <3>1. Timeline(more) \in Seq(Line)
      BY <1>3, TimelineType
    <3>2. OwnCalls(Timeline(more)) /\ MadeBefore(Timeline(more))
          /\ RunInOrder(Timeline(more), known)
      BY <1>4 DEF Told
    <3> HIDE DEF known
    <3> QED BY <2>3, <3>1, <3>2, ReplayType, ReplayFollows
  <2>5. u \in Seq(Message) /\ FollowCalls(u)
    <3>1. User \in Message /\ User.role # "tool"
      BY MessageTypes
    <3> QED BY <2>1, <3>1, FollowsOne
  <2>6. past' = u \o r
    <3>1. past \o <<User>> = Append(past, User)
      <4> DEFINE x == User
      <4>1. past \in Seq(Message) /\ x \in Message
        BY <2>1, MessageTypes
      <4> HIDE DEF x
      <4>2. past \o <<x>> = Append(past, x)
        BY <4>1
      <4> QED BY <4>2 DEF x
    <3> HIDE DEF r
    <3> QED BY <2>2, <3>1 DEF r
  <2> HIDE DEF u, r
  <2> QED BY <2>4, <2>5, <2>6, FollowsJoin
<1> QED BY <1>5, <1>6, <1>7 DEF RecordIsTrue

LEMMA AbortRecorded ==
    ASSUME IInv, Typed, RInv, AbortDueToStepLimit \/ AbortDueToToolErrors \/ ModelFails
    PROVE  RInv'
<1>1. PICK stop : Finish(FALSE, stop, events)
  BY DEF AbortDueToStepLimit, AbortDueToToolErrors, ModelFails
<1>2. /\ pc \in Working /\ pc # "invalid"
      /\ UNCHANGED <<conversation, snapshots, executed, stops>>
  BY DEF AbortDueToStepLimit, AbortDueToToolErrors, ModelFails, Working
<1>3. /\ Sound(events, step, DOMAIN snapshots)
      /\ Reported(Timeline(events), snapshots) = SuccessesOf(executed)
      /\ executed \in Seq(Call)
  BY <1>2 DEF RInv, Recorded, Last
<1>4. step \in Nat /\ step \in Int /\ events \in Seq(Entry) /\ FALSE \in BOOLEAN
  BY DEF IInv, Types
<1>5. (stops = 0 => FollowCalls(past')) /\ RecordIsTrue'
  <2>1. stops = 0 => FollowCalls(past)
    BY DEF RInv, Story
  <2> QED BY <1>1, <1>2, <1>3, <1>4, <2>1, FinishRecorded
<1>6. Story'
  BY <1>2, <1>5 DEF RInv, Story
<1>7. pc' = "done"
  BY <1>1 DEF Finish
<1>8. Recorded' /\ Progressing' /\ executed' \in Seq(Call)
  BY <1>2, <1>3, <1>7 DEF Recorded, Progressing, Working
<1> QED BY <1>5, <1>6, <1>8 DEF RInv

LEMMA AnswerTextRecorded == IInv /\ Typed /\ RInv /\ AnswerText => RInv'
<1> SUFFICES ASSUME IInv, Typed, RInv, AnswerText PROVE RInv'
  OBVIOUS
<1> DEFINE e == Answered(step + 1, <<>>)
           log == Append(events, e)
<1>1. /\ pc = "waiting" /\ Finish(TRUE, "text", log)
      /\ conversation' = Append(conversation, Assistant(<<>>))
      /\ UNCHANGED <<snapshots, executed, stops>>
  BY DEF AnswerText
<1>2. /\ step \in Nat /\ step + 1 \in Int /\ events \in Seq(Entry) /\ TRUE \in BOOLEAN
      /\ <<>> \in Seq(Int)
  BY DEF IInv, Types
<1>3. /\ Sound(events, step, DOMAIN snapshots)
      /\ Reported(Timeline(events), snapshots) = SuccessesOf(executed)
      /\ executed \in Seq(Call)
  BY <1>1 DEF RInv, Recorded, Last, Working
<1>4. e \in Entry /\ e.kind = "llm_step" /\ e \in Line
  <2>1. e \in Entry /\ e.kind = "llm_step"
    BY <1>2, AnsweredType
  <2> QED BY <2>1 DEF Line
<1>5. Sound(log, step + 1, DOMAIN snapshots) /\ Timeline(log) = Append(Timeline(events), e)
  <2>1. Fresh(events, step, <<>>)
    BY NothingFresh
  <2> QED BY <1>2, <1>3, <2>1, AnswerSound DEF Fresh
<1> HIDE DEF e
<1>6. log \in Seq(Entry)
  BY <1>2, <1>4
<1>7. Reported(Timeline(log), snapshots) = SuccessesOf(executed)
  <2>1. SameCalls(Timeline(events), snapshots, snapshots) /\ Timeline(events) \in Seq(Line)
    BY <1>2, TimelineType DEF SameCalls
  <2>2. e.kind # "tool_started"
    BY <1>4
  <2> HIDE DEF log
  <2> QED BY <1>3, <1>4, <1>5, <2>1, <2>2, ReportedAppend
<1> HIDE DEF log
<1>8. (stops = 0 => FollowCalls(past')) /\ RecordIsTrue'
  <2>1. stops = 0 => FollowCalls(past)
    BY DEF RInv, Story
  <2> QED BY <1>1, <1>2, <1>3, <1>5, <1>6, <1>7, <2>1, FinishRecorded
<1>9. Story'
  <2>1. ASSUME stops = 0 PROVE FollowCalls(conversation')
    <3>1. FollowCalls(conversation) /\ conversation \in Seq(Message)
      BY <2>1 DEF RInv, Story, Typed
    <3>2. Assistant(<<>>) \in Message /\ Assistant(<<>>).role # "tool"
      BY <1>2, MessageTypes DEF Assistant
    <3> QED BY <1>1, <3>1, <3>2, FollowsOne
  <2> QED BY <1>1, <1>8, <2>1 DEF Story
<1>10. pc' = "done"
  BY <1>1 DEF Finish
<1>11. Recorded' /\ Progressing' /\ executed' \in Seq(Call)
  BY <1>1, <1>3, <1>10 DEF Recorded, Progressing, Working
<1> QED BY <1>8, <1>9, <1>11 DEF RInv

LEMMA AnswerCallsRecorded ==
    ASSUME ProviderIds, IInv, Typed, RInv, AnswerCalls
    PROVE  RInv'
<1>1. PICK n \in 1..MaxCalls :
        /\ turn' = CallIds(n)
        /\ conversation' = Append(conversation, Assistant(CallIds(n)))
        /\ events' = Append(events, Answered(step + 1, CallIds(n)))
  BY DEF AnswerCalls
<1>2. /\ pc = "waiting" /\ pc' = "call" /\ step' = step + 1 /\ messages' = <<>>
      /\ UNCHANGED <<past, snapshots, executed, payload, stops>>
  BY DEF AnswerCalls
<1>3. step \in Nat /\ events \in Seq(Entry) /\ step + 1 \in Int /\ n \in Nat
  BY AgentLoopAssumption DEF IInv, Types
<1>4. PICK ids \in Seq(Int) : ids = CallIds(n) /\ Len(ids) = n
  BY <1>3, CallIdsType
<1> DEFINE e == Answered(step + 1, ids)
           line == Timeline(events)
           known == DOMAIN snapshots
<1>5. /\ Sound(events, step, known)
      /\ Reported(line, snapshots) = SuccessesOf(executed)
      /\ executed \in Seq(Call)
  BY <1>2 DEF RInv, Recorded, Last, Working
<1>6. Fresh(events, step, ids)
  <2>1. Numbered(events, step, known)
    BY <1>5 DEF Sound
  <2> QED BY <1>3, <1>4, <2>1, CallIdsFresh
<1>7. e \in Entry /\ e.kind = "llm_step" /\ e \in Line /\ e.calls = ids
  <2>1. e \in Entry /\ e.kind = "llm_step"
    BY <1>3, <1>4, AnsweredType
  <2>2. e.calls = ids
    BY DEF Answered, Event
  <2> QED BY <2>1, <2>2 DEF Line
<1>8. /\ Sound(events', step + 1, known) /\ Open(events', step + 1)
      /\ Timeline(events') = Append(line, e)
  <2>1. /\ \A c, d \in DOMAIN ids : ids[c] = ids[d] => c = d
        /\ Given(events) \cap Range(ids) = {}
        /\ \A id \in Range(ids) :
             -(step + 1) <= id /\ id <= Cardinality(Given(events) \cup Range(ids))
    BY <1>6 DEF Fresh
  <2>2. events' = Append(events, Answered(step + 1, ids))
    BY <1>1, <1>4
  <2> QED BY <1>3, <1>4, <1>5, <2>1, <2>2, AnswerSound
<1> HIDE DEF e
<1>9. line \in Seq(Line)
  BY <1>3, TimelineType
<1>10. Reported(Append(line, e), snapshots) = Reported(line, snapshots)
  <2>1. SameCalls(line, snapshots, snapshots)
    BY DEF SameCalls
  <2>2. e.kind # "tool_started"
    BY <1>7
  <2> HIDE DEF line
  <2> QED BY <1>7, <1>9, <2>1, <2>2, ReportedAppend
<1>11. Recorded'
  BY <1>2, <1>5, <1>8, <1>10 DEF Recorded, Last
<1>12. conversation \in Seq(Message) /\ Assistant(ids) \in Message
       /\ conversation' = Append(conversation, Assistant(ids))
  BY <1>1, <1>4, MessageTypes DEF Typed
<1>13. Story'
  <2>1. Assistant(ids).role # "tool"
    BY DEF Assistant
  <2>2. stops = 0 => FollowCalls(past) /\ FollowCalls(conversation)
    BY DEF RInv, Story
  <2>3. stops = 0 => FollowCalls(conversation')
    BY <1>12, <2>1, <2>2, FollowsOne
  <2> QED BY <1>2, <2>2, <2>3 DEF Story
<1>14. Progress(ids)'
  <2> DEFINE a == Assistant(ids)
  <2>1. Len(conversation') > 0 /\ conversation'[Len(conversation')] = a
    <3>1. conversation \in Seq(Message) /\ a \in Message /\ conversation' = Append(conversation, a)
      BY <1>12
    <3> HIDE DEF a
    <3> QED BY ONLY <3>1
  <2>2. AnswerTo(<<>>, ids) /\ Len(<<>>) = 0
    <3>1. DOMAIN <<>> = {} /\ Len(<<>>) = 0 /\ Len(ids) \in Nat
      BY <1>4
    <3> QED BY <3>1 DEF AnswerTo
  <2>3. turn' = ids /\ \A c \in DOMAIN ids : 0 + c = c
    BY <1>1, <1>4
  <2>4. 0 + Len(ids) = Len(ids)
    BY <1>4
  <2>5. Up(Append(line, e), ids, known, 0)
    <3> DEFINE m == Len(line) + 1
    <3>1. m \in DOMAIN Append(line, e) /\ Append(line, e)[m] = e
      <4> HIDE DEF line
      <4> QED BY <1>7, <1>9
    <3>2. \A d \in DOMAIN ids : ids[d] \notin known /\ ~(d <= 0)
      <4>1. known \subseteq Given(events)
        BY <1>5 DEF Sound, Numbered
      <4>2. \A d \in DOMAIN ids : ids[d] \in Range(ids) /\ ~(d <= 0)
        BY <1>4 DEF Range
      <4> QED BY <1>6, <4>1, <4>2 DEF Fresh
    <3> HIDE DEF m, line, known
    <3> QED BY <1>7, <3>1, <3>2 DEF Up
  <2> HIDE DEF a, line, known
  <2> QED BY <1>2, <1>8, <2>1, <2>2, <2>3, <2>4, <2>5 DEF Progress, a, known
<1>15. Progressing'
  BY <1>4, <1>14 DEF Progressing
<1>16. RecordIsTrue'
  <2>1. payload' = None
    BY <1>2 DEF IInv, Verdict, Working
  <2> QED BY <2>1 DEF RecordIsTrue, SuccessesAreReported, TimelineKeepsCalls
<1> QED BY <1>2, <1>5, <1>11, <1>13, <1>15, <1>16 DEF RInv

LEMMA AnswerInvalidRecorded ==
    ASSUME ProviderIds, IInv, Typed, RInv, AnswerInvalid
    PROVE  RInv'
<1>1. PICK ids \in Seq(Int) : AnsweredInvalid(ids)
  BY AnswerInvalidIs
<1>2. /\ pc = "waiting" /\ pc' = "invalid"
      /\ UNCHANGED <<past, step, executed, payload, stops>>
  BY DEF AnswerInvalid
<1>3. /\ ids # <<>>
      /\ ids = <<Placeholder>> \/ \E n \in 1..MaxCalls : ids = CallIds(n)
      /\ events' = events \o <<Answered(step + 1, ids)>> \o FailedCalls(step + 1, ids)
      /\ snapshots' = Failing(snapshots, Range(ids))
      /\ conversation' = conversation \o <<Assistant(ids)>> \o Tools(ids)
  BY <1>1 DEF AnsweredInvalid, Failing
<1>4. step \in Nat /\ events \in Seq(Entry)
  BY DEF IInv, Types
<1>5. /\ Sound(events, step, DOMAIN snapshots)
      /\ Reported(Timeline(events), snapshots) = SuccessesOf(executed)
      /\ executed \in Seq(Call)
  BY <1>2 DEF RInv, Recorded, Last, Working
<1>6. Fresh(events, step, ids)
  <2>1. Numbered(events, step, DOMAIN snapshots)
    BY <1>5 DEF Sound
  <2>2. Fresh(events, step, <<Placeholder>>)
    BY <1>4, <2>1, PlaceholderFresh DEF Placeholder
  <2>3. \A n \in 1..MaxCalls : n \in Nat
    BY AgentLoopAssumption
  <2>4. \A n \in 1..MaxCalls : Fresh(events, step, CallIds(n))
    BY <1>4, <2>1, <2>3, CallIdsFresh
  <2> QED BY <1>3, <2>2, <2>4
<1>7. Recorded'
  <2>1. /\ Sound(events', step + 1, DOMAIN snapshots')
        /\ Reported(Timeline(events'), snapshots') = Reported(Timeline(events), snapshots)
    BY <1>3, <1>4, <1>5, <1>6, InvalidRecorded
  <2> QED BY <1>2, <1>5, <2>1 DEF Recorded, Last
<1>8. Story'
  <2>1. ASSUME stops = 0 PROVE FollowCalls(conversation')
    <3> DEFINE a == Assistant(ids)
               b == Tools(ids)
    <3>1. conversation \in Seq(Message) /\ FollowCalls(conversation)
      BY <2>1 DEF Typed, RInv, Story
    <3>2. a \in Message /\ b \in Seq(Message)
      BY MessageTypes, ToolsType
    <3>3. AnswerTo(b, ids)
      <4>1. DOMAIN b = DOMAIN ids /\ Len(b) = Len(ids) /\ Len(ids) <= Len(ids)
        BY DEF Tools
      <4>2. \A c \in DOMAIN ids : b[c].role = "tool" /\ b[c].call = ids[c]
        BY DEF Tools, Tool
      <4> HIDE DEF b
      <4> QED BY <4>1, <4>2 DEF AnswerTo
    <3>4. FollowCalls(<<a>> \o b)
      BY <3>2, <3>3, FollowsBlock
    <3> HIDE DEF a, b
    <3>5. <<a>> \o b \in Seq(Message) /\ conversation \o <<a>> \o b = conversation \o (<<a>> \o b)
      BY <3>1, <3>2
    <3> DEFINE r == <<a>> \o b
    <3> HIDE DEF r
    <3>6. FollowCalls(conversation \o r)
      BY <3>1, <3>4, <3>5, FollowsJoin DEF r
    <3> QED BY <1>3, <3>5, <3>6 DEF a, b, r
  <2>2. stops = 0 => FollowCalls(past)
    BY DEF RInv, Story
  <2> QED BY <1>2, <2>1, <2>2 DEF Story
<1>9. Progressing'
  BY <1>2 DEF Progressing
<1>10. RecordIsTrue'
  <2>1. payload' = None
    BY <1>2 DEF IInv, Verdict, Working
  <2> QED BY <2>1 DEF RecordIsTrue, SuccessesAreReported, TimelineKeepsCalls
<1> QED BY <1>2, <1>5, <1>7, <1>8, <1>9, <1>10 DEF RInv

LEMMA AdvanceInvalidRecorded == IInv /\ Typed /\ RInv /\ AdvanceInvalid => RInv'
<1> SUFFICES ASSUME IInv, Typed, RInv, AdvanceInvalid PROVE RInv'
  OBVIOUS
<1>1. /\ pc = "invalid" /\ pc' = "between" /\ step' = step + 1
      /\ UNCHANGED <<past, conversation, events, snapshots, executed, payload, stops>>
  BY DEF AdvanceInvalid
<1>2. executed' \in Seq(Call) /\ Story'
  BY <1>1 DEF RInv, Story
<1>3. Recorded'
  BY <1>1 DEF RInv, Recorded, Last, Working
<1>4. Progressing'
  BY <1>1 DEF Progressing
<1>5. RecordIsTrue'
  <2>1. payload' = None
    BY <1>1 DEF IInv, Verdict, Working
  <2> QED BY <2>1 DEF RecordIsTrue, SuccessesAreReported, TimelineKeepsCalls
<1> QED BY <1>2, <1>3, <1>4, <1>5 DEF RInv

\* The facts about the call at the head of the turn.
LEMMA HeadCall ==
    ASSUME IInv, Typed, NEW ids \in Seq(Int), Progress(ids), turn # <<>>
    PROVE  /\ Len(messages) \in Nat /\ Len(messages) + 1 \in DOMAIN ids
           /\ Len(messages) + 1 <= Len(ids)
           /\ Head(turn) = ids[Len(messages) + 1] /\ Head(turn) \in Int
<1>1. turn \in Seq(Int) /\ messages \in Seq(Message)
  BY DEF IInv, Types, Typed
<1>2. Len(turn) >= 1 /\ Len(turn) \in Nat /\ 1 \in DOMAIN turn /\ Head(turn) = turn[1]
  BY <1>1
<1>3. /\ Len(messages) + Len(turn) = Len(ids)
      /\ turn[1] = ids[Len(messages) + 1]
  BY <1>2 DEF Progress
<1>4. Len(messages) \in Nat /\ Len(ids) \in Nat /\ DOMAIN ids = 1..Len(ids)
  BY <1>1
<1>5. Len(messages) + 1 \in 1..Len(ids)
  BY <1>2, <1>3, <1>4
<1> QED BY <1>1, <1>2, <1>3, <1>4, <1>5

LEMMA RunToolRecorded == IInv /\ Typed /\ RInv /\ RunTool => RInv'
<1> SUFFICES ASSUME IInv, Typed, RInv, RunTool PROVE RInv'
  OBVIOUS
<1>1. /\ pc = "call" /\ pc' = "running" /\ turn # <<>>
      /\ events' = Append(events, Begun(step, Head(turn)))
      /\ snapshots' = Record(Head(turn), Snapshot("running", FALSE, 0))
      /\ UNCHANGED <<past, conversation, turn, messages, step, executed, payload, stops>>
  BY DEF RunTool
<1>2. /\ Sound(events, step, DOMAIN snapshots)
      /\ Reported(Timeline(events), snapshots) = SuccessesOf(executed)
      /\ executed \in Seq(Call)
  BY <1>1 DEF RInv, Recorded, Last, Working
<1>3. PICK ids \in Seq(Int) : Progress(ids)
  BY <1>1 DEF RInv, Progressing
<1>4. step \in Nat /\ step \in Int /\ step <= step /\ events \in Seq(Entry)
  BY DEF IInv, Types
<1>5. PICK c \in Nat : c = Len(messages) /\ c + 1 \in DOMAIN ids /\ Head(turn) = ids[c + 1]
  BY <1>1, <1>3, HeadCall
<1> DEFINE id == ids[c + 1]
<1>6. Open(events, step) /\ Up(Timeline(events), ids, DOMAIN snapshots, c)
  BY <1>1, <1>3, <1>5 DEF Progress
<1>7. id \notin DOMAIN snapshots
  <2>1. ~(c + 1 <= c)
    BY <1>5
  <2> QED BY <1>5, <1>6, <2>1 DEF Up
<1>8. /\ DOMAIN snapshots' = DOMAIN snapshots \cup {id}
      /\ \A x \in DOMAIN snapshots : snapshots'[x] = snapshots[x]
      /\ snapshots'[id].status = "running"
  BY <1>1, <1>5, <1>7 DEF Record, Snapshot
<1>9. WithCall(snapshots, snapshots', id)
  BY <1>8 DEF WithCall
<1>10. /\ Timeline(events') = Append(Timeline(events), Begun(step, id))
       /\ Sound(events', step, DOMAIN snapshots') /\ Open(events', step)
       /\ Reported(Timeline(events'), snapshots') = Reported(Timeline(events), snapshots)
       /\ Up(Timeline(events'), ids, DOMAIN snapshots', c + 1)
  <2>1. events' = Append(events, Begun(step, ids[c + 1]))
    BY <1>1, <1>5
  <2> DEFINE b == snapshots'
             more == Append(events, Begun(step, ids[c + 1]))
  <2>2. /\ events \in Seq(Entry) /\ step \in Int /\ Sound(events, step, DOMAIN snapshots)
        /\ Open(events, step) /\ step <= step
        /\ ids \in Seq(Int) /\ c \in Nat /\ c + 1 \in DOMAIN ids
        /\ Up(Timeline(events), ids, DOMAIN snapshots, c)
        /\ WithCall(snapshots, b, ids[c + 1])
    BY <1>2, <1>4, <1>5, <1>6, <1>9
  <2> HIDE DEF b
  <2>3. /\ Timeline(more) = Append(Timeline(events), Begun(step, id))
        /\ Sound(more, step, DOMAIN b) /\ Open(more, step)
        /\ Reported(Timeline(more), b) = Reported(Timeline(events), snapshots)
        /\ Up(Timeline(more), ids, DOMAIN b, c + 1)
    BY ONLY <2>2, BeginCall
  <2> QED BY <2>1, <2>3 DEF b
<1>11. Recorded'
  BY <1>1, <1>2, <1>10 DEF Recorded, Last
<1>12. Going(Timeline(events), Head(turn))'
  <2> DEFINE front == Timeline(events)
  <2>1. front \in Seq(Line)
    BY <1>4, TimelineType
  <2>2. \A k \in DOMAIN front : front[k].kind = "tool_started" => front[k].of # id
    BY <1>2, <1>4, <1>7, LineKnown
  <2> HIDE DEF front
  <2>3. Timeline(events') = Append(front, Begun(step', id)) /\ snapshots'[id].status = "running"
    BY <1>1, <1>8, <1>10 DEF front
  <2>4. Head(turn)' = id
    BY <1>1, <1>5
  <2> HIDE DEF id
  <2>5. \E f \in Seq(Line) :
          /\ Timeline(events') = Append(f, Begun(step', id))
          /\ \A k \in DOMAIN f : f[k].kind = "tool_started" => f[k].of # id
          /\ snapshots'[id].status = "running"
    BY <2>1, <2>2, <2>3
  <2> QED BY <2>4, <2>5 DEF Going, Begun, Event
<1>13. Progress(ids)'
  BY <1>1, <1>3, <1>5, <1>10, <1>12 DEF Progress
<1>14. executed' \in Seq(Call) /\ Story' /\ Progressing'
  BY <1>1, <1>2, <1>13 DEF RInv, Story, Progressing
<1>15. RecordIsTrue'
  <2>1. payload' = None
    BY <1>1 DEF IInv, Verdict, Working
  <2> QED BY <2>1 DEF RecordIsTrue, SuccessesAreReported, TimelineKeepsCalls
<1> QED BY <1>11, <1>14, <1>15 DEF RInv

\* The running call ends: snap is what its snapshot becomes.
LEMMA EndCall ==
    ASSUME events \in Seq(Entry), step \in Nat, Sound(events, step, DOMAIN snapshots),
           NEW id \in Int, id \in DOMAIN snapshots, Going(Timeline(events), id),
           NEW ok \in BOOLEAN, NEW snap
    PROVE  LET more == Append(events, Ended(step, id, ok))
               after == Record(id, snap)
           IN  /\ Sound(more, step, DOMAIN after) /\ DOMAIN after = DOMAIN snapshots
               /\ Open(events, step) => Open(more, step)
               /\ Timeline(more) = Timeline(events)
               /\ Reported(Timeline(more), after) =
                    IF ~snap.excluded /\ snap.status = "succeeded"
                    THEN Append(Reported(Timeline(events), snapshots), snap.run)
                    ELSE Reported(Timeline(events), snapshots)
<1> DEFINE more == Append(events, Ended(step, id, ok))
           after == Record(id, snap)
           line == Timeline(events)
           e == Begun(step, id)
<1>1. DOMAIN after = DOMAIN snapshots /\ after[id] = snap
      /\ \A x \in DOMAIN snapshots : x # id => after[x] = snapshots[x]
  BY DEF Record
<1> HIDE DEF after
<1>2. /\ Sound(more, step, DOMAIN snapshots) /\ (Open(events, step) => Open(more, step))
      /\ Timeline(more) = line
  <2>1. step \in Int
    OBVIOUS
  <2> QED BY <2>1, EndedSound
<1>3. PICK front \in Seq(Line) :
        /\ line = Append(front, e)
        /\ \A k \in DOMAIN front : front[k].kind = "tool_started" => front[k].of # id
        /\ snapshots[id].status = "running"
  BY DEF Going
<1>4. e \in Line /\ e.kind = "tool_started" /\ e.of = id
  <2>1. step \in Int /\ TRUE \in BOOLEAN
    OBVIOUS
  <2>2. e \in Entry /\ e.kind = "tool_started"
    BY <2>1, EventTypes
  <2>3. e.of = id
    BY DEF Begun, Event
  <2> QED BY <2>2, <2>3 DEF Line
<1> HIDE DEF e
<1>5. SameCalls(front, snapshots, snapshots)
  BY DEF SameCalls
<1>6. SameCalls(front, snapshots, after)
  <2>1. ASSUME NEW k \in DOMAIN front, front[k].kind = "tool_started"
        PROVE  front[k].of \in DOMAIN snapshots
    <3>1. k \in DOMAIN Append(front, e) /\ Append(front, e)[k] = front[k]
      BY <1>4
    <3>2. k \in DOMAIN line /\ line[k] = front[k]
      BY <1>3, <3>1
    <3> QED BY <2>1, <3>2, LineKnown
  <2> QED BY <1>1, <1>3, <2>1 DEF SameCalls
<1> DEFINE r == Reported(front, snapshots)
<1>7. Reported(Append(front, e), snapshots) = r
  <2>1. ~(/\ e.kind = "tool_started" /\ ~snapshots[e.of].excluded
          /\ snapshots[e.of].status = "succeeded")
    BY <1>3, <1>4
  <2> QED BY <1>4, <1>5, <2>1, ReportedAppend
<1>8. Reported(Append(front, e), after) =
        IF ~snap.excluded /\ snap.status = "succeeded" THEN Append(r, snap.run) ELSE r
  <2>1. Reported(Append(front, e), after) =
          IF e.kind = "tool_started" /\ ~after[e.of].excluded /\ after[e.of].status = "succeeded"
          THEN Append(r, after[e.of].run) ELSE r
    BY <1>4, <1>6, ReportedAppend
  <2> HIDE DEF r
  <2> QED BY <1>1, <1>4, <2>1
<1> HIDE DEF more, line, r
<1>9. Reported(line, after) =
        IF ~snap.excluded /\ snap.status = "succeeded"
        THEN Append(Reported(line, snapshots), snap.run) ELSE Reported(line, snapshots)
  BY <1>3, <1>7, <1>8
<1> QED BY <1>1, <1>2, <1>9 DEF more, line, after

\* The answer to the running call comes next.
LEMMA AnswerNext ==
    ASSUME NEW tools \in Seq(Message), NEW ids \in Seq(Int), AnswerTo(tools, ids),
           Len(tools) + 1 <= Len(ids), NEW t \in Nat
    PROVE  LET more == Append(tools, Tool(ids[Len(tools) + 1], t))
           IN  more \in Seq(Message) /\ Len(more) = Len(tools) + 1 /\ AnswerTo(more, ids)
<1> DEFINE e == Tool(ids[Len(tools) + 1], t)
           more == Append(tools, e)
           n == Len(tools)
<1>1. n \in Nat /\ ids[n + 1] \in Int
  OBVIOUS
<1>2. e \in Message /\ e.role = "tool" /\ e.call = ids[n + 1]
  <2>1. e \in Message
    BY <1>1, MessageTypes
  <2> QED BY <2>1 DEF Tool
<1> HIDE DEF e
<1>3. /\ more \in Seq(Message) /\ DOMAIN more = 1..(n + 1) /\ Len(more) = n + 1
      /\ DOMAIN tools = 1..n
      /\ \A k \in 1..n : more[k] = tools[k]
      /\ more[n + 1] = e
  BY <1>2, AppendIs
<1> HIDE DEF more
<1>4. \A c \in DOMAIN more : more[c].role = "tool" /\ more[c].call = ids[c]
  <2>1. \A c \in 1..n : tools[c].role = "tool" /\ tools[c].call = ids[c]
    BY <1>3 DEF AnswerTo
  <2>2. \A c \in DOMAIN more : c \in 1..n \/ c = n + 1
    BY <1>1, <1>3
  <2> HIDE DEF n
  <2> QED BY <1>2, <1>3, <2>1, <2>2
<1> QED BY <1>3, <1>4 DEF AnswerTo, more, e

LEMMA ToolSucceedsRecorded == IInv /\ Typed /\ RInv /\ ToolSucceeds => RInv'
<1> SUFFICES ASSUME IInv, Typed, RInv, ToolSucceeds PROVE RInv'
  OBVIOUS
<1> DEFINE snap == Snapshot("succeeded", FALSE, Len(executed) + 1)
           ran == [id |-> Head(turn), ok |-> TRUE]
<1>1. /\ pc = "running" /\ pc' = "call"
      /\ executed' = Append(executed, ran)
      /\ snapshots' = Record(Head(turn), snap)
      /\ events' = Append(events, Ended(step, Head(turn), TRUE))
      /\ turn' = Tail(turn)
      /\ UNCHANGED <<past, conversation, step, payload, stops>>
  BY DEF ToolSucceeds
<1>2. PICK t \in Nat : messages' = Append(messages, Tool(Head(turn), t))
  BY AgentLoopAssumption DEF ToolSucceeds
<1>3. /\ Sound(events, step, DOMAIN snapshots)
      /\ Reported(Timeline(events), snapshots) = SuccessesOf(executed)
      /\ executed \in Seq(Call)
  BY <1>1 DEF RInv, Recorded, Last, Working
<1>4. PICK ids \in Seq(Int) : Progress(ids)
  BY <1>1 DEF RInv, Progressing
<1>5. /\ step \in Nat /\ events \in Seq(Entry) /\ TRUE \in BOOLEAN /\ turn # <<>>
      /\ turn \in Seq(Int) /\ messages \in Seq(Message)
  BY <1>1 DEF IInv, Types, Typed
<1>6. PICK c \in Nat : /\ c = Len(messages) /\ c + 1 \in DOMAIN ids /\ c + 1 <= Len(ids)
                       /\ Head(turn) = ids[c + 1]
  BY <1>4, <1>5, HeadCall
<1>7. PICK id \in Int : id = ids[c + 1] /\ id = Head(turn)
  BY <1>6
<1>8. /\ Open(events, step) /\ Up(Timeline(events), ids, DOMAIN snapshots, c + 1)
      /\ Going(Timeline(events), id)
  BY <1>1, <1>4, <1>6, <1>7 DEF Progress
<1>9. id \in DOMAIN snapshots
  <2>1. c + 1 <= c + 1
    BY <1>6
  <2> QED BY <1>6, <1>7, <1>8, <2>1 DEF Up
<1>10. ~snap.excluded /\ snap.status = "succeeded" /\ snap.run = Len(executed) + 1
  BY DEF Snapshot
<1> HIDE DEF snap
<1>11. /\ Sound(events', step, DOMAIN snapshots') /\ DOMAIN snapshots' = DOMAIN snapshots
       /\ Open(events', step) /\ Timeline(events') = Timeline(events)
       /\ Reported(Timeline(events'), snapshots')
            = Append(Reported(Timeline(events), snapshots), Len(executed) + 1)
  <2> DEFINE more == Append(events, Ended(step, id, TRUE))
             after == Record(id, snap)
  <2>1. /\ Sound(more, step, DOMAIN after) /\ DOMAIN after = DOMAIN snapshots
        /\ Open(events, step) => Open(more, step)
        /\ Timeline(more) = Timeline(events)
        /\ Reported(Timeline(more), after) =
             IF ~snap.excluded /\ snap.status = "succeeded"
             THEN Append(Reported(Timeline(events), snapshots), snap.run)
             ELSE Reported(Timeline(events), snapshots)
    BY <1>3, <1>5, <1>8, <1>9, EndCall
  <2>2. events' = more /\ snapshots' = after
    BY <1>1, <1>7
  <2> HIDE DEF more, after
  <2> QED BY <1>8, <1>10, <2>1, <2>2
<1>12. Recorded'
  <2>1. ran \in Call /\ ran.ok
    BY <1>7 DEF Call
  <2> HIDE DEF ran
  <2>2. SuccessesOf(executed') = Append(SuccessesOf(executed), Len(executed) + 1)
    BY <1>1, <1>3, <2>1, SuccessesAppend
  <2> QED BY <1>1, <1>3, <1>11, <2>2 DEF Recorded, Last
<1>13. executed' \in Seq(Call)
  <2>1. ran \in Call
    BY <1>7 DEF Call
  <2> HIDE DEF ran
  <2> QED BY <1>1, <1>3, <2>1
<1>14. Progress(ids)'
  <2>1. /\ messages' \in Seq(Message) /\ Len(messages') = c + 1 /\ AnswerTo(messages', ids)
    <3>1. AnswerTo(messages, ids)
      BY <1>4 DEF Progress
    <3>2. messages' = Append(messages, Tool(ids[Len(messages) + 1], t))
      BY <1>2, <1>6
    <3> QED BY <1>5, <1>6, <3>1, <3>2, AnswerNext
  <2>2. /\ Len(turn') = Len(turn) - 1 /\ Len(turn) \in Nat /\ DOMAIN turn' = 1..(Len(turn) - 1)
        /\ DOMAIN turn = 1..Len(turn)
        /\ \A k \in 1..(Len(turn) - 1) : turn'[k] = turn[k + 1]
    BY <1>1, <1>5
  <2>3. c + Len(turn) = Len(ids) /\ Len(ids) \in Nat
    BY <1>4, <1>6 DEF Progress
  <2>4. Len(messages') + Len(turn') = Len(ids)
    <3> DEFINE n == Len(turn)
    <3>1. Len(messages') = c + 1 /\ Len(turn') = n - 1 /\ n \in Nat /\ c \in Nat /\ c + n = Len(ids)
      BY <2>1, <2>2, <2>3
    <3> HIDE DEF n
    <3>2. (c + 1) + (n - 1) = c + n
      BY ONLY <3>1
    <3> QED BY ONLY <3>1, <3>2
  <2>5. \A k \in DOMAIN turn' : turn'[k] = ids[(c + 1) + k]
    <3>1. ASSUME NEW k \in DOMAIN turn' PROVE turn'[k] = ids[(c + 1) + k]
      <4>1. k + 1 \in DOMAIN turn /\ c + (k + 1) = (c + 1) + k
        BY <2>2
      <4>2. turn[k + 1] = ids[c + (k + 1)]
        BY <1>4, <1>6, <4>1 DEF Progress
      <4> QED BY <2>2, <4>1, <4>2
    <3> QED BY <3>1
  <2>6. Len(conversation') > 0 /\ conversation'[Len(conversation')] = Assistant(ids)
    BY <1>1, <1>4 DEF Progress
  <2>7. Open(events', step') /\ Up(Timeline(events'), ids, DOMAIN snapshots', Len(messages'))
    BY <1>1, <1>8, <1>11, <2>1
  <2> QED BY <1>1, <2>1, <2>4, <2>5, <2>6, <2>7 DEF Progress
<1>15. Story' /\ Progressing'
  BY <1>1, <1>14 DEF RInv, Story, Progressing
<1>16. RecordIsTrue'
  <2>1. payload' = None
    BY <1>1 DEF IInv, Verdict, Working
  <2> QED BY <2>1 DEF RecordIsTrue, SuccessesAreReported, TimelineKeepsCalls
<1> QED BY <1>12, <1>13, <1>15, <1>16 DEF RInv

LEMMA ToolFailsRecorded == IInv /\ Typed /\ RInv /\ ToolFails => RInv'
<1> SUFFICES ASSUME IInv, Typed, RInv, ToolFails PROVE RInv'
  OBVIOUS
<1> DEFINE ran == [id |-> Head(turn), ok |-> FALSE]
<1>1. /\ pc = "running" /\ pc' = "between"
      /\ events' = Append(events, Ended(step, Head(turn), FALSE))
      /\ conversation' = Append(conversation \o messages, Tool(Head(turn), 1))
      /\ UNCHANGED <<past, step, payload, stops>>
  BY DEF ToolFails
<1>2. PICK reached \in BOOLEAN :
        /\ executed' = IF reached THEN Append(executed, ran) ELSE executed
        /\ snapshots' = Record(Head(turn), Snapshot("failed", ~reached, Len(executed')))
  BY DEF ToolFails
<1>3. /\ Sound(events, step, DOMAIN snapshots)
      /\ Reported(Timeline(events), snapshots) = SuccessesOf(executed)
      /\ executed \in Seq(Call)
  BY <1>1 DEF RInv, Recorded, Last, Working
<1>4. PICK ids \in Seq(Int) : Progress(ids)
  BY <1>1 DEF RInv, Progressing
<1>5. /\ step \in Nat /\ events \in Seq(Entry) /\ FALSE \in BOOLEAN /\ turn # <<>>
      /\ turn \in Seq(Int) /\ messages \in Seq(Message) /\ conversation \in Seq(Message)
  BY <1>1 DEF IInv, Types, Typed
<1>6. PICK c \in Nat : /\ c = Len(messages) /\ c + 1 \in DOMAIN ids /\ c + 1 <= Len(ids)
                       /\ Head(turn) = ids[c + 1]
  BY <1>4, <1>5, HeadCall
<1>7. PICK id \in Int : id = ids[c + 1] /\ id = Head(turn)
  BY <1>6
<1>8. Up(Timeline(events), ids, DOMAIN snapshots, c + 1) /\ Going(Timeline(events), id)
  BY <1>1, <1>4, <1>6, <1>7 DEF Progress
<1>9. id \in DOMAIN snapshots
  <2>1. c + 1 <= c + 1
    BY <1>6
  <2> QED BY <1>6, <1>7, <1>8, <2>1 DEF Up
<1>10. /\ Sound(events', step, DOMAIN snapshots')
       /\ Reported(Timeline(events'), snapshots') = Reported(Timeline(events), snapshots)
  <2> DEFINE more == Append(events, Ended(step, id, FALSE))
             snap == Snapshot("failed", ~reached, Len(executed'))
             after == Record(id, snap)
  <2>1. snap.status # "succeeded"
    BY DEF Snapshot
  <2> HIDE DEF snap
  <2>2. /\ Sound(more, step, DOMAIN after)
        /\ Reported(Timeline(more), after) =
             IF ~snap.excluded /\ snap.status = "succeeded"
             THEN Append(Reported(Timeline(events), snapshots), snap.run)
             ELSE Reported(Timeline(events), snapshots)
    BY <1>3, <1>5, <1>8, <1>9, EndCall
  <2>3. events' = more /\ snapshots' = after
    BY <1>1, <1>2, <1>7 DEF snap
  <2> HIDE DEF more, after
  <2> QED BY <2>1, <2>2, <2>3
<1>11. ran \in Call /\ ~ran.ok
  BY <1>7 DEF Call
<1> HIDE DEF ran
<1>12. executed' \in Seq(Call) /\ SuccessesOf(executed') = SuccessesOf(executed)
  <2>1. Append(executed, ran) \in Seq(Call)
        /\ SuccessesOf(Append(executed, ran)) = SuccessesOf(executed)
    BY <1>3, <1>11, SuccessesAppend
  <2> QED BY <1>2, <1>3, <2>1
<1>13. Recorded'
  BY <1>1, <1>3, <1>10, <1>12 DEF Recorded, Last
<1>14. Story'
  <2> DEFINE e == Tool(id, 1)
             tools == Append(messages, e)
  <2>1. tools \in Seq(Message) /\ AnswerTo(tools, ids)
    <3>1. AnswerTo(messages, ids) /\ 1 \in Nat
      BY <1>4 DEF Progress
    <3>2. tools = Append(messages, Tool(ids[Len(messages) + 1], 1))
      BY <1>6, <1>7
    <3> HIDE DEF tools
    <3> QED BY <1>5, <1>6, <3>1, <3>2, AnswerNext
  <2>2. e \in Message
    BY MessageTypes
  <2>3. conversation' = conversation \o tools
    <3> HIDE DEF e
    <3>0. conversation \in Seq(Message) /\ messages \in Seq(Message)
      BY <1>5
    <3>1. Append(conversation \o messages, e) = conversation \o Append(messages, e)
      BY ONLY <2>2, <3>0
    <3> QED BY <1>1, <1>7, <3>1 DEF e
  <2> HIDE DEF tools
  <2>4. ASSUME stops = 0 PROVE FollowCalls(conversation')
    <3>1. FollowCalls(conversation)
      BY <2>4 DEF RInv, Story
    <3>2. Len(conversation) > 0 /\ conversation[Len(conversation)] = Assistant(ids)
      BY <1>4 DEF Progress
    <3> QED BY <1>5, <2>1, <2>3, <3>1, <3>2, FollowsAnswer
  <2> QED BY <1>1, <2>4 DEF RInv, Story
<1>15. Progressing'
  BY <1>1 DEF Progressing
<1>16. RecordIsTrue'
  <2>1. payload' = None
    BY <1>1 DEF IInv, Verdict, Working
  <2> QED BY <2>1 DEF RecordIsTrue, SuccessesAreReported, TimelineKeepsCalls
<1> QED BY <1>12, <1>13, <1>14, <1>15, <1>16 DEF RInv

LEMMA EndTurnRecorded == IInv /\ Typed /\ RInv /\ EndTurn => RInv'
<1> SUFFICES ASSUME IInv, Typed, RInv, EndTurn PROVE RInv'
  OBVIOUS
<1>1. /\ pc = "call" /\ pc' = "between"
      /\ conversation' = conversation \o messages
      /\ UNCHANGED <<past, step, events, snapshots, executed, payload, stops>>
  BY DEF EndTurn
<1>2. PICK ids \in Seq(Int) : Progress(ids)
  BY <1>1 DEF RInv, Progressing
<1>3. messages \in Seq(Message) /\ conversation \in Seq(Message)
  BY DEF Typed
<1>4. Story'
  <2>1. ASSUME stops = 0 PROVE FollowCalls(conversation')
    <3>1. FollowCalls(conversation)
      BY <2>1 DEF RInv, Story
    <3>2. /\ Len(conversation) > 0 /\ conversation[Len(conversation)] = Assistant(ids)
          /\ AnswerTo(messages, ids)
      BY <1>2 DEF Progress
    <3> QED BY <1>1, <1>3, <3>1, <3>2, FollowsAnswer
  <2> QED BY <1>1, <2>1 DEF RInv, Story
<1>5. executed' \in Seq(Call) /\ Recorded'
  BY <1>1 DEF RInv, Recorded, Last, Working
<1>6. Progressing'
  BY <1>1 DEF Progressing
<1>7. RecordIsTrue'
  <2>1. payload' = None
    BY <1>1 DEF IInv, Verdict, Working
  <2> QED BY <2>1 DEF RecordIsTrue, SuccessesAreReported, TimelineKeepsCalls
<1> QED BY <1>4, <1>5, <1>6, <1>7 DEF RInv

LEMMA RInvNext ==
    ASSUME ProviderIds
    PROVE  IInv /\ Typed /\ RInv /\ [Next]_vars => RInv'
<1> SUFFICES ASSUME IInv, Typed, RInv, [Next]_vars PROVE RInv'
  OBVIOUS
<1>1. CASE Prompt
  BY <1>1, PromptRecorded
<1>2. CASE Stop
  BY <1>2, StopRecorded
<1>3. CASE Cancelled \/ Request \/ NextIteration \/ UNCHANGED vars
  BY <1>3, MovesRecorded
<1>4. CASE AbortDueToStepLimit \/ AbortDueToToolErrors \/ ModelFails
  BY <1>4, AbortRecorded
<1>5. CASE AnswerText
  BY <1>5, AnswerTextRecorded
<1>6. CASE AnswerCalls
  BY <1>6, AnswerCallsRecorded
<1>7. CASE AnswerInvalid
  BY <1>7, AnswerInvalidRecorded
<1>8. CASE AdvanceInvalid
  BY <1>8, AdvanceInvalidRecorded
<1>9. CASE RunTool
  BY <1>9, RunToolRecorded
<1>10. CASE ToolSucceeds
  BY <1>10, ToolSucceedsRecorded
<1>11. CASE ToolFails
  BY <1>11, ToolFailsRecorded
<1>12. CASE EndTurn
  BY <1>12, EndTurnRecorded
<1> QED BY <1>1, <1>2, <1>3, <1>4, <1>5, <1>6, <1>7, <1>8, <1>9, <1>10, <1>11, <1>12
        DEF Next, Worker

\* What a finished run leaves behind tells its calls truly, for every limit,
\* number of calls and length of the chat, wherever the provider gives every
\* call an id of its own: the payload of a successful run has the result of every
\* call that succeeded, in order, and in the stored timeline every step is
\* followed by exactly the calls begun for it (to_payload, build_agent_timeline).
THEOREM RecordsAreTrue ==
    ASSUME ProviderIds
    PROVE  Spec => []RecordIsTrue
<1>1. RInv => RecordIsTrue
  BY DEF RInv
<1> QED BY <1>1, IInvInit, IInvNext, TypedInit, TypedNext, RInvInit, RInvNext, PTL DEF Spec

\* The front of the request was cut off between a call and its answer.
Parted ==
    LET sent == Trimmed(conversation, ContextTokens)
    IN  sent # <<>> /\ sent[1].role = "tool"

LEMMA TrimmedFollows ==
    ASSUME NEW m \in Seq(Message), FollowCalls(m), NEW budget,
           Trimmed(m, budget) # <<>> => Trimmed(m, budget)[1].role # "tool"
    PROVE  FollowCalls(Trimmed(m, budget))
<1> DEFINE sent == Trimmed(m, budget)
<1>1. CASE sent = <<>>
  <2>1. DOMAIN <<>> = {}
    OBVIOUS
  <2>2. FollowCalls(<<>>)
    BY <2>1, FollowsPlain
  <2> QED BY <1>1, <2>2
<1>2. CASE sent # <<>>
  <2>1. PICK a \in 1..(Len(m) + 1) : sent = SubSeq(m, a, Len(m))
    BY <1>2, TrimmedIs
  <2>2. a <= Len(m) => m[a].role # "tool"
    <3>1. SUFFICES ASSUME a <= Len(m) PROVE m[a].role # "tool"
      OBVIOUS
    <3>2. SubSeq(m, a, Len(m))[1] = m[a]
      BY <3>1
    <3> HIDE DEF sent
    <3> QED BY <1>2, <2>1, <3>2 DEF sent
  <2> HIDE DEF sent
  <2>3. FollowCalls(SubSeq(m, a, Len(m)))
    BY <2>2, FollowsSuffix
  <2> QED BY <2>1, <2>3 DEF sent
<1> QED BY <1>1, <1>2

\* Every request the model gets has each tool message behind the call it answers,
\* in every chat where no run was stopped and the provider gives every call an id
\* of its own, for every limit and length of the chat.  Only the trimming may put
\* a tool message first, without its call; then the theorem says nothing.
THEOREM RequestsOrdered ==
    ASSUME ProviderIds
    PROVE  Spec => [](~Parted => RequestsAreOrdered)
<1>1. Typed /\ RInv => (~Parted => RequestsAreOrdered)
  <2> SUFFICES ASSUME Typed, RInv, ~Parted, pc = "waiting", stops = 0
               PROVE  FollowCalls(Trimmed(conversation, ContextTokens))
    BY DEF RequestsAreOrdered
  <2>1. conversation \in Seq(Message) /\ FollowCalls(conversation)
    BY DEF Typed, RInv, Story
  <2> QED BY <2>1, TrimmedFollows DEF Parted
<1> QED BY <1>1, IInvInit, IInvNext, TypedInit, TypedNext, RInvInit, RInvNext, PTL DEF Spec
==============================================================================
