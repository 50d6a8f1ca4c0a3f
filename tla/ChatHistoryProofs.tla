--------------------------- MODULE ChatHistoryProofs ---------------------------
(* The conversations and their files are well formed for any number of         *)
(* programs, projects and conversations, whatever call of the database fails;  *)
(* and with one program that can read its files, what a file lacks is marked   *)
(* and what was stored stays stored.                                           *)
EXTENDS ChatHistory, FiniteSetTheorems, TLAPS

-------------------------------------------------------------------------------
(* Ranks                                                                       *)

\* A finite set is numbered by a strict total order on it.
IsOrder(B, S) ==
    /\ \A x \in S : <<x, x>> \notin B
    /\ \A x, y, z \in S : <<x, y>> \in B /\ <<y, z>> \in B => <<x, z>> \in B
    /\ \A x, y \in S : x # y => <<x, y>> \in B \/ <<y, x>> \in B
Below(B, S, x) == {y \in S : <<y, x>> \in B}

Ranked(B, S) ==
    /\ Cardinality(S) \in Nat
    /\ \A x \in S : Cardinality(Below(B, S, x)) \in Nat
    /\ \A x \in S : Cardinality(Below(B, S, x)) + 1 \in 1..Cardinality(S)
    /\ \A x, y \in S : <<x, y>> \in B =>
          Cardinality(Below(B, S, x)) < Cardinality(Below(B, S, y))
    /\ \A n \in 1..Cardinality(S) : \E x \in S : Cardinality(Below(B, S, x)) + 1 = n

LEMMA Ranking ==
    ASSUME NEW S, IsFiniteSet(S), NEW B, IsOrder(B, S)
    PROVE  Ranked(B, S)
<1> DEFINE b(x) == Below(B, S, x)
           r == [x \in S |-> Cardinality(b(x)) + 1]
           n == Cardinality(S)
<1>1. n \in Nat
  BY FS_CardinalityType
<1>2. ASSUME NEW x \in S
      PROVE  IsFiniteSet(b(x)) /\ Cardinality(b(x)) \in Nat /\ Cardinality(b(x)) + 1 \in 1..n
  <2>1. b(x) \in SUBSET (S \ {x})
    BY DEF IsOrder, Below
  <2>2. IsFiniteSet(S \ {x}) /\ Cardinality(S \ {x}) = n - 1
    BY FS_RemoveElement
  <2> HIDE DEF b, n
  <2>3. IsFiniteSet(b(x)) /\ Cardinality(b(x)) <= n - 1
    BY <2>1, <2>2, FS_Subset
  <2>4. Cardinality(b(x)) \in Nat
    BY <2>3, FS_CardinalityType
  <2> QED BY <1>1, <2>3, <2>4
<1>3. ASSUME NEW x \in S, NEW y \in S, <<x, y>> \in B
      PROVE  Cardinality(b(x)) < Cardinality(b(y))
  <2>1. x \notin b(x)
    BY DEF IsOrder, Below
  <2>2. b(x) \cup {x} \in SUBSET b(y)
    BY <1>3 DEF IsOrder, Below
  <2> HIDE DEF b
  <2>3. Cardinality(b(x) \cup {x}) = Cardinality(b(x)) + 1
    BY <1>2, <2>1, FS_AddElement
  <2>4. Cardinality(b(x) \cup {x}) <= Cardinality(b(y))
    BY <1>2, <2>2, FS_Subset
  <2> QED BY <1>2, <2>3, <2>4
<1>4. r \in Injection(S, 1..n)
  <2>1. r \in [S -> 1..n]
    BY <1>2
  <2>2. ASSUME NEW x \in S, NEW y \in S, r[x] = r[y] PROVE x = y
    <3>1. Cardinality(b(x)) = Cardinality(b(y))
      BY <1>2, <2>2
    <3> HIDE DEF b, r
    <3>2. Cardinality(b(x)) \in Nat /\ Cardinality(b(y)) \in Nat
      BY <1>2
    <3>3. ~ (Cardinality(b(x)) < Cardinality(b(y))) /\ ~ (Cardinality(b(y)) < Cardinality(b(x)))
      BY <3>1, <3>2
    <3>4. <<x, y>> \notin B /\ <<y, x>> \notin B
      BY <1>3, <3>3
    <3> QED BY <3>4 DEF IsOrder
  <2> HIDE DEF r, n
  <2> QED BY <2>1, <2>2 DEF Injection, IsInjective
<1>5. r \in Surjection(S, 1..n)
  <2>1. IsFiniteSet(1..n) /\ Cardinality(1..n) = n
    <3> HIDE DEF n
    <3> QED BY <1>1, FS_Interval
  <2> HIDE DEF r
  <2> QED BY <1>4, <2>1, FS_Injection
<1>6. \A k \in 1..n : \E x \in S : r[x] = k
  <2> HIDE DEF r, n
  <2> QED BY <1>5 DEF Surjection
<1> QED BY <1>1, <1>2, <1>3, <1>6 DEF Ranked

\* The numbers K, in their order.
LEMMA NthIs ==
    ASSUME NEW K \in SUBSET Nat, IsFiniteSet(K)
    PROVE  /\ Cardinality(K) \in Nat
           /\ \A n \in 1..Cardinality(K) : Nth(K, n) \in K
           /\ \A m, n \in 1..Cardinality(K) : Nth(K, m) = Nth(K, n) => m = n
           /\ \A k \in K : \E n \in 1..Cardinality(K) : Nth(K, n) = k
<1> DEFINE B == {p \in K \X K : p[1] < p[2]}
           b(k) == {j \in K : j < k}
           n == Cardinality(K)
<1>1. IsOrder(B, K)
  BY DEF IsOrder
<1>2. ASSUME NEW k \in K PROVE Below(B, K, k) = b(k)
  BY DEF Below
<1>3. \A j, k \in K : j < k => <<j, k>> \in B
  OBVIOUS
<1> HIDE DEF B
<1>4. Ranked(B, K)
  BY <1>1, Ranking
<1> HIDE DEF n, b
<1>5. /\ \A k \in K : Cardinality(b(k)) \in Nat /\ Cardinality(b(k)) + 1 \in 1..n
      /\ \A j, k \in K : j < k => Cardinality(b(j)) < Cardinality(b(k))
      /\ \A m \in 1..n : \E k \in K : Cardinality(b(k)) + 1 = m
  <2>1. \A k \in K : Cardinality(b(k)) \in Nat /\ Cardinality(b(k)) + 1 \in 1..n
    BY <1>2, <1>4 DEF Ranked, n
  <2>2. \A j, k \in K : j < k => Cardinality(b(j)) < Cardinality(b(k))
    BY <1>2, <1>3, <1>4 DEF Ranked
  <2>3. \A m \in 1..n : \E k \in K : Cardinality(b(k)) + 1 = m
    BY <1>2, <1>4 DEF Ranked, n
  <2> QED BY <2>1, <2>2, <2>3
<1>6. \A j, k \in K : Cardinality(b(j)) + 1 = Cardinality(b(k)) + 1 => j = k
  BY <1>5
<1>7. \A m \in 1..n : Nth(K, m) \in K /\ Cardinality(b(Nth(K, m))) + 1 = m
  BY <1>5 DEF Nth, b
<1>8. ASSUME NEW k \in K PROVE \E m \in 1..n : Nth(K, m) = k
  BY <1>5, <1>6, <1>7
<1> QED BY <1>4, <1>7, <1>8 DEF Ranked, n

LEMMA FiniteNumbers ==
    ASSUME NEW n \in Nat, NEW S \in SUBSET (1..n)
    PROVE  IsFiniteSet(S) /\ S \in SUBSET Nat
<1>1. IsFiniteSet(1..n)
  <2>1. 1 \in Int /\ n \in Int
    OBVIOUS
  <2> QED BY <2>1, FS_Interval
<1>2. IsFiniteSet(S)
  BY <1>1, FS_Subset
<1> QED BY <1>2

\* The smallest of some numbers.
LEMMA SmallestIs ==
    ASSUME NEW n \in Nat, NEW S \in SUBSET (1..n), S # {}
    PROVE  Smallest(S) \in S
<1> DEFINE B == {p \in S \X S : p[1] < p[2]}
<1>1. IsFiniteSet(S)
  BY FiniteNumbers
<1>2. IsOrder(B, S)
  BY DEF IsOrder
<1>3. \A x, y \in S : y < x => y \in Below(B, S, x)
  BY DEF Below
<1> HIDE DEF B
<1>4. Ranked(B, S)
  BY <1>1, <1>2, Ranking
<1>5. Cardinality(S) # 0
  BY <1>1, FS_EmptySet
<1>6. PICK x \in S : Cardinality(Below(B, S, x)) + 1 = 1
  <2>1. 1 \in 1..Cardinality(S)
    BY <1>4, <1>5 DEF Ranked
  <2> QED BY <1>4, <2>1 DEF Ranked
<1>7. Below(B, S, x) = {}
  <2>1. Cardinality(Below(B, S, x)) = 0
    BY <1>4, <1>6 DEF Ranked
  <2>2. Below(B, S, x) \in SUBSET S
    BY DEF Below
  <2>3. IsFiniteSet(Below(B, S, x))
    BY <1>1, <2>2, FS_Subset
  <2> QED BY <2>1, <2>3, FS_EmptySet
<1>8. \A y \in S : x <= y
  BY <1>3, <1>7
<1> QED BY <1>8 DEF Smallest

-------------------------------------------------------------------------------
(* Lists and files                                                             *)

Rows == UNION {[S -> Row] : S \in SUBSET Chat}
Files == [exists : BOOLEAN, active : Chat \cup {None}, rows : Rows]
Memory == [up : BOOLEAN, path : Project \cup {None}, list : Seq(Conversation),
           active : Chat \cup {None}, dirty : SUBSET Chat, structure : BOOLEAN,
           cleanUps : Nat, run : Chat \cup {None}, attached : BOOLEAN]

Distinct(list) == \A j, k \in DOMAIN list : list[j].id = list[k].id => j = k
IsList(list) == list \in Seq(Conversation) /\ Distinct(list)
IsFile(d) == d \in Files /\ (d.exists \/ d = NoFile)
IsMemory(m) == m \in Memory /\ Distinct(m.list) /\ m.active \in Ids(m.list) \cup {None}

LEMMA RowsAre ==
    ASSUME NEW rows \in Rows
    PROVE  /\ DOMAIN rows \in SUBSET Chat
           /\ \A c \in DOMAIN rows :
                 /\ rows[c] \in Row /\ rows[c].pos \in Nat /\ rows[c].titled \in BOOLEAN
                 /\ rows[c].entries \in Seq({"working", "answered"})
           /\ rows # <<>> => DOMAIN rows # {}
<1>1. PICK S \in SUBSET Chat : rows \in [S -> Row]
  BY DEF Rows
<1>2. \A c \in DOMAIN rows : rows[c] \in Row
  BY <1>1
<1>3. DOMAIN rows = {} => rows = <<>>
  BY <1>1
<1> QED BY <1>1, <1>2, <1>3 DEF Row

LEMMA RowsMade ==
    ASSUME NEW S \in SUBSET Chat, NEW rows \in [S -> Row]
    PROVE  rows \in Rows
BY DEF Rows

LEMMA ListIs ==
    ASSUME NEW list, IsList(list)
    PROVE  /\ DOMAIN list = 1..Len(list) /\ Len(list) \in Nat
           /\ \A k \in DOMAIN list :
                 /\ list[k] \in Conversation /\ list[k].id \in Chat /\ list[k].titled \in BOOLEAN
                 /\ list[k].entries \in Seq({"working", "answered"})
           /\ Ids(list) \in SUBSET Chat
<1>1. DOMAIN list = 1..Len(list) /\ Len(list) \in Nat
  BY DEF IsList
<1>2. \A k \in DOMAIN list : list[k] \in Conversation
  BY DEF IsList
<1> QED BY <1>1, <1>2 DEF Conversation, Ids

LEMMA AtIs ==
    ASSUME NEW list, Distinct(list)
    PROVE  /\ \A c \in Ids(list) : At(list, c) \in DOMAIN list /\ list[At(list, c)].id = c
           /\ \A k \in DOMAIN list : list[k].id \in Ids(list) /\ At(list, list[k].id) = k
BY DEF Distinct, At, Ids

LEMMA ListMade ==
    ASSUME NEW n \in Nat, NEW list, DOMAIN list = 1..n, list = [k \in 1..n |-> list[k]],
           \A k \in 1..n : list[k] \in Conversation,
           \A j, k \in 1..n : list[j].id = list[k].id => j = k
    PROVE  IsList(list) /\ Len(list) = n
<1>1. list \in [1..n -> Conversation]
  OBVIOUS
<1>2. list \in Seq(Conversation)
  BY <1>1
<1> QED BY <1>2 DEF IsList, Distinct

\* A list without the conversations that are gone.
LEMMA WithoutIs ==
    ASSUME NEW list, IsList(list), NEW gone
    PROVE  /\ IsList(Without(list, gone))
           /\ Ids(Without(list, gone)) = Ids(list) \ gone
           /\ \A n \in DOMAIN Without(list, gone) : \E k \in DOMAIN list :
                 Without(list, gone)[n] = list[k]
<1> DEFINE kept == {k \in DOMAIN list : list[k].id \notin gone}
           n == Cardinality(kept)
           new == Without(list, gone)
<1>1. kept \in SUBSET Nat /\ IsFiniteSet(kept)
  <2>1. kept \in SUBSET (1..Len(list)) /\ Len(list) \in Nat
    BY ListIs
  <2> HIDE DEF kept
  <2> QED BY <2>1, FiniteNumbers
<1>2. /\ n \in Nat
      /\ \A i \in 1..n : Nth(kept, i) \in kept
      /\ \A i, j \in 1..n : Nth(kept, i) = Nth(kept, j) => i = j
      /\ \A k \in kept : \E i \in 1..n : Nth(kept, i) = k
  <2> HIDE DEF kept
  <2> QED BY <1>1, NthIs
<1>3. new = [i \in 1..n |-> list[Nth(kept, i)]]
  BY DEF Without
<1>4. \A i \in 1..n : new[i] = list[Nth(kept, i)] /\ Nth(kept, i) \in DOMAIN list
                      /\ new[i].id \notin gone
  BY <1>2, <1>3
<1>5. \A k \in DOMAIN list : list[k].id \notin gone => \E i \in 1..n : new[i] = list[k]
  BY <1>2, <1>3
<1> HIDE DEF kept, n, new
<1>6. DOMAIN new = 1..n /\ new = [i \in 1..n |-> new[i]]
  BY <1>3
<1>7. \A i \in 1..n : new[i] \in Conversation
  BY <1>4, ListIs
<1>8. \A i, j \in 1..n : new[i].id = new[j].id => i = j
  BY <1>2, <1>4 DEF IsList, Distinct
<1>9. IsList(new)
  BY <1>2, <1>6, <1>7, <1>8, ListMade
<1>10. Ids(new) = Ids(list) \ gone
  <2>1. Ids(new) \subseteq Ids(list) \ gone
    BY <1>4, <1>6 DEF Ids
  <2>2. Ids(list) \ gone \subseteq Ids(new)
    BY <1>5, <1>6 DEF Ids
  <2> QED BY <2>1, <2>2
<1>11. \A i \in DOMAIN new : \E k \in DOMAIN list : new[i] = list[k]
  BY <1>4, <1>6
<1> QED BY <1>9, <1>10, <1>11 DEF new

\* The rows of a file, in the order of their positions.
Sooner(rows, c, e) == rows[c].pos < rows[e].pos \/ (rows[c].pos = rows[e].pos /\ c < e)
Precedes(rows) == {p \in (DOMAIN rows) \X (DOMAIN rows) : Sooner(rows, p[1], p[2])}
Rank(rows, c) == Cardinality(Below(Precedes(rows), DOMAIN rows, c)) + 1

LEMMA RanksAre ==
    ASSUME NEW rows \in Rows
    PROVE  /\ Cardinality(DOMAIN rows) \in Nat
           /\ \A c \in DOMAIN rows : Rank(rows, c) \in 1..Cardinality(DOMAIN rows)
           /\ \A c, e \in DOMAIN rows : Rank(rows, c) = Rank(rows, e) => c = e
           /\ \A c, e \in DOMAIN rows : rows[c].pos < rows[e].pos => Rank(rows, c) < Rank(rows, e)
           /\ \A n \in 1..Cardinality(DOMAIN rows) : \E c \in DOMAIN rows : Rank(rows, c) = n
<1> DEFINE S == DOMAIN rows
           B == Precedes(rows)
<1>1. S \in SUBSET Nat /\ \A c \in S : rows[c].pos \in Nat
  BY RowsAre DEF Chat
<1>2. IsFiniteSet(S)
  <2>1. S \in SUBSET (1..MaxChats) /\ MaxChats \in Nat
    BY RowsAre, ChatHistoryAssumption DEF Chat
  <2> HIDE DEF S
  <2> QED BY <2>1, FiniteNumbers
<1>3. \A c, e \in S : <<c, e>> \in B <=> Sooner(rows, c, e)
  <2> HIDE DEF S
  <2> QED BY DEF Precedes, S
<1> HIDE DEF B, S
<1>4. IsOrder(B, S)
  <2>1. \A x \in S : <<x, x>> \notin B
    BY <1>1, <1>3 DEF Sooner
  <2>2. \A x, y, z \in S : <<x, y>> \in B /\ <<y, z>> \in B => <<x, z>> \in B
    BY <1>1, <1>3 DEF Sooner
  <2>3. \A x, y \in S : x # y => <<x, y>> \in B \/ <<y, x>> \in B
    BY <1>1, <1>3 DEF Sooner
  <2> QED BY <2>1, <2>2, <2>3 DEF IsOrder
<1>5. Ranked(B, S)
  BY <1>2, <1>4, Ranking
<1>6. /\ Cardinality(S) \in Nat
      /\ \A c \in S : Rank(rows, c) \in 1..Cardinality(S)
      /\ \A c, e \in S : <<c, e>> \in B => Rank(rows, c) < Rank(rows, e)
      /\ \A n \in 1..Cardinality(S) : \E c \in S : Rank(rows, c) = n
  BY <1>5 DEF Ranked, Rank, B, S
<1>7. \A c, e \in S : Rank(rows, c) = Rank(rows, e) => c = e
  <2> SUFFICES ASSUME NEW c \in S, NEW e \in S, Rank(rows, c) = Rank(rows, e), c # e PROVE FALSE
    OBVIOUS
  <2>1. <<c, e>> \in B \/ <<e, c>> \in B
    BY <1>4 DEF IsOrder
  <2>2. Rank(rows, c) \in Nat /\ Rank(rows, e) \in Nat
    BY <1>6
  <2> QED BY <1>6, <2>1, <2>2
<1>8. \A c, e \in S : rows[c].pos < rows[e].pos => Rank(rows, c) < Rank(rows, e)
  BY <1>3, <1>6 DEF Sooner
<1> QED BY <1>6, <1>7, <1>8 DEF S

LEMMA OrderedIs ==
    ASSUME NEW rows \in Rows
    PROVE  /\ IsList(Ordered(rows))
           /\ Ids(Ordered(rows)) = DOMAIN rows
           /\ \A k \in DOMAIN Ordered(rows) :
                 /\ Ordered(rows)[k].id \in DOMAIN rows
                 /\ Ordered(rows)[k].titled = rows[Ordered(rows)[k].id].titled
                 /\ Ordered(rows)[k].entries = rows[Ordered(rows)[k].id].entries
                 /\ Rank(rows, Ordered(rows)[k].id) = k
<1> DEFINE n == Cardinality(DOMAIN rows)
           list == Ordered(rows)
           nth(k) == CHOOSE c \in DOMAIN rows : Rank(rows, c) = k
<1>1. \A c \in DOMAIN rows :
         Rank(rows, c) = Cardinality({e \in DOMAIN rows : Sooner(rows, e, c)}) + 1
  <2> SUFFICES ASSUME NEW c \in DOMAIN rows
               PROVE  Below(Precedes(rows), DOMAIN rows, c)
                      = {e \in DOMAIN rows : Sooner(rows, e, c)}
    BY DEF Rank
  <2> DEFINE S == DOMAIN rows
  <2>1. \A e \in S : <<e, c>> \in Precedes(rows) <=> Sooner(rows, e, c)
    <3> HIDE DEF S
    <3> QED BY DEF Precedes, S
  <2> QED BY <2>1 DEF Below
<1>2. \A k \in 1..n : nth(k) \in DOMAIN rows /\ Rank(rows, nth(k)) = k
  BY RanksAre
<1>3. list = [k \in 1..n |->
                [id |-> nth(k), titled |-> rows[nth(k)].titled, entries |-> rows[nth(k)].entries]]
  <2>1. \A k \in 1..n : nth(k) = CHOOSE c \in DOMAIN rows :
           Cardinality({e \in DOMAIN rows : Sooner(rows, e, c)}) + 1 = k
    BY <1>1
  <2> QED BY <2>1 DEF Ordered, Sooner
<1>4. n \in Nat
  BY RanksAre
<1> HIDE DEF n, list, nth
<1>5. \A k \in 1..n : /\ list[k].id = nth(k) /\ list[k].titled = rows[nth(k)].titled
                      /\ list[k].entries = rows[nth(k)].entries
  BY <1>3
<1>6. \A k \in 1..n : list[k] \in Conversation
  BY <1>2, <1>3, RowsAre DEF Conversation
<1>7. \A j, k \in 1..n : list[j].id = list[k].id => j = k
  BY <1>2, <1>5
<1>8. DOMAIN list = 1..n /\ list = [k \in 1..n |-> list[k]]
  BY <1>3
<1>9. IsList(list)
  BY <1>4, <1>6, <1>7, <1>8, ListMade
<1>10. Ids(list) = DOMAIN rows
  <2>1. Ids(list) \subseteq DOMAIN rows
    BY <1>2, <1>5, <1>8 DEF Ids
  <2>2. ASSUME NEW c \in DOMAIN rows PROVE c \in Ids(list)
    <3>1. Rank(rows, c) \in 1..n
      BY RanksAre DEF n
    <3>2. nth(Rank(rows, c)) = c
      BY <1>2, <3>1, RanksAre
    <3> QED BY <1>5, <1>8, <3>1, <3>2 DEF Ids
  <2> QED BY <2>1, <2>2
<1> QED BY <1>2, <1>5, <1>8, <1>9, <1>10 DEF list

-------------------------------------------------------------------------------
(* What the handlers do to a list                                              *)

LEMMA AppendedIs ==
    ASSUME NEW list, IsList(list), NEW v \in Conversation, v.id \notin Ids(list)
    PROVE  /\ IsList(Append(list, v))
           /\ Ids(Append(list, v)) = Ids(list) \cup {v.id}
           /\ \A c \in Ids(list) : /\ At(Append(list, v), c) = At(list, c)
                                   /\ Append(list, v)[At(list, c)] = list[At(list, c)]
           /\ Append(list, v)[At(Append(list, v), v.id)] = v
           /\ DOMAIN Append(list, v) = 1..(Len(list) + 1)
           /\ \A k \in 1..Len(list) : Append(list, v)[k] = list[k]
           /\ Append(list, v)[Len(list) + 1] = v
<1> DEFINE n == Len(list) + 1
           new == Append(list, v)
<1>1. DOMAIN list = 1..Len(list) /\ Len(list) \in Nat /\ list \in Seq(Conversation)
  BY ListIs DEF IsList
<1>2. /\ DOMAIN new = 1..n /\ new[n] = v /\ new \in Seq(Conversation)
      /\ \A k \in 1..Len(list) : new[k] = list[k]
  <2>1. new \in Seq(Conversation) /\ Len(new) = n
    BY <1>1
  <2>2. DOMAIN new = 1..n
    BY <2>1
  <2>3. new[n] = v /\ \A k \in 1..Len(list) : new[k] = list[k]
    BY <1>1
  <2> QED BY <2>1, <2>2, <2>3
<1>3. n \notin 1..Len(list) /\ 1..n = (1..Len(list)) \cup {n}
  BY <1>1
<1>4. \A k \in 1..Len(list) : list[k].id \in Ids(list)
  BY <1>1 DEF Ids
<1> HIDE DEF new, n
<1>5. IsList(new)
  <2> SUFFICES ASSUME NEW j \in 1..n, NEW k \in 1..n, new[j].id = new[k].id PROVE j = k
    BY <1>2 DEF IsList, Distinct
  <2>1. CASE j \in 1..Len(list) /\ k \in 1..Len(list)
    BY <1>1, <1>2, <2>1 DEF IsList, Distinct
  <2>2. CASE j = n \/ k = n
    BY <1>2, <1>3, <1>4, <2>2
  <2> QED BY <1>3, <2>1, <2>2
<1>6. Ids(new) = Ids(list) \cup {v.id}
  <2>1. Ids(new) = {new[k].id : k \in 1..n}
    BY <1>2 DEF Ids
  <2>2. Ids(list) = {new[k].id : k \in 1..Len(list)}
    BY <1>1, <1>2 DEF Ids
  <2> QED BY <1>2, <1>3, <2>1, <2>2
<1>7. ASSUME NEW c \in Ids(list)
      PROVE  At(new, c) = At(list, c) /\ new[At(list, c)] = list[At(list, c)]
  <2>1. At(list, c) \in DOMAIN list /\ list[At(list, c)].id = c
    BY AtIs DEF IsList
  <2>2. At(list, c) \in DOMAIN new /\ new[At(list, c)] = list[At(list, c)]
    BY <1>1, <1>2, <1>3, <2>1
  <2>3. \A k \in DOMAIN new : At(new, new[k].id) = k
    BY <1>5, AtIs DEF IsList
  <2> QED BY <2>1, <2>2, <2>3
<1>8. new[At(new, v.id)] = v
  <2>1. \A k \in DOMAIN new : At(new, new[k].id) = k
    BY <1>5, AtIs DEF IsList
  <2>2. At(new, v.id) = n
    BY <1>2, <1>3, <2>1
  <2> QED BY <1>2, <2>2
<1> QED BY <1>2, <1>5, <1>6, <1>7, <1>8 DEF new, n

LEMMA ReplacedIs ==
    ASSUME NEW list, IsList(list), NEW c \in Ids(list), NEW v \in Conversation, v.id = c
    PROVE  LET new == [list EXCEPT ![At(list, c)] = v] IN
           /\ IsList(new) /\ Ids(new) = Ids(list) /\ DOMAIN new = DOMAIN list
           /\ \A e \in Ids(list) : At(new, e) = At(list, e)
           /\ new[At(list, c)] = v
           /\ \A k \in DOMAIN list : k # At(list, c) => new[k] = list[k]
<1> DEFINE a == At(list, c)
           n == Len(list)
           new == [list EXCEPT ![a] = v]
<1>1. DOMAIN list = 1..n /\ n \in Nat
  BY ListIs
<1>2. a \in DOMAIN list /\ list[a].id = c
  BY AtIs DEF IsList
<1>3. /\ DOMAIN new = 1..n /\ new[a] = v
      /\ \A k \in 1..n : k # a => new[k] = list[k]
      /\ new = [k \in 1..n |-> new[k]]
  <2> HIDE DEF a, n
  <2> QED BY <1>1, <1>2
<1> HIDE DEF new, a, n
<1>4. \A k \in 1..n : new[k] \in Conversation /\ new[k].id = list[k].id
  BY <1>1, <1>2, <1>3, ListIs
<1>5. \A j, k \in 1..n : new[j].id = new[k].id => j = k
  BY <1>1, <1>4 DEF IsList, Distinct
<1>6. IsList(new)
  BY <1>1, <1>3, <1>4, <1>5, ListMade
<1>7. Ids(new) = Ids(list)
  BY <1>1, <1>3, <1>4 DEF Ids
<1>8. ASSUME NEW e \in Ids(list) PROVE At(new, e) = At(list, e)
  <2>1. At(list, e) \in DOMAIN list /\ list[At(list, e)].id = e
    BY AtIs DEF IsList
  <2>2. At(new, new[At(list, e)].id) = At(list, e)
    BY <1>1, <1>3, <1>6, <2>1, AtIs DEF IsList
  <2> QED BY <1>1, <1>4, <2>1, <2>2
<1> QED BY <1>1, <1>3, <1>6, <1>7, <1>8 DEF new, a

LEMMA MemoryIs ==
    ASSUME NEW m, IsMemory(m)
    PROVE  /\ IsList(m.list) /\ m.active \in Ids(m.list) \cup {None}
           /\ m.up \in BOOLEAN /\ m.path \in Project \cup {None} /\ m.dirty \in SUBSET Chat
           /\ m.structure \in BOOLEAN /\ m.cleanUps \in Nat /\ m.run \in Chat \cup {None}
           /\ m.attached \in BOOLEAN
BY DEF IsMemory, Memory, IsList

LEMMA NoChat == None \notin Chat
BY ChatHistoryAssumption DEF Chat

\* A memory with another list, another active conversation and other marks.
With(m, list, active, dirty, structure) ==
    [m EXCEPT !.list = list, !.active = active, !.dirty = dirty, !.structure = structure]

SameRest(w, m) ==
    /\ w.up = m.up /\ w.path = m.path /\ w.cleanUps = m.cleanUps /\ w.run = m.run
    /\ w.attached = m.attached
IsWith(w, m, list, active, dirty, structure) ==
    /\ IsMemory(w) /\ SameRest(w, m)
    /\ w.list = list /\ w.active = active /\ w.dirty = dirty /\ w.structure = structure

LEMMA WithIs ==
    ASSUME NEW m, IsMemory(m), NEW list, IsList(list), NEW active \in Ids(list) \cup {None},
           NEW dirty \in SUBSET Chat, NEW structure \in BOOLEAN
    PROVE  IsWith(With(m, list, active, dirty, structure), m, list, active, dirty, structure)
<1> DEFINE w == With(m, list, active, dirty, structure)
<1>1. m \in Memory
  BY DEF IsMemory
<1>2. list \in Seq(Conversation) /\ active \in Chat \cup {None}
  BY ListIs DEF IsList
<1>3. w \in Memory
  BY <1>1, <1>2 DEF With, Memory
<1>4. /\ w.list = list /\ w.active = active /\ w.dirty = dirty /\ w.structure = structure
      /\ w.up = m.up /\ w.path = m.path /\ w.cleanUps = m.cleanUps /\ w.run = m.run
      /\ w.attached = m.attached
  BY <1>1 DEF With, Memory
<1> QED BY <1>3, <1>4 DEF IsWith, SameRest, IsMemory, IsList

LEMMA RegisterIs ==
    ASSUME NEW m, IsMemory(m), NEW v \in Conversation, v.id \notin Ids(m.list)
    PROVE  IsWith(Register(m, v), m, Append(m.list, v), v.id, m.dirty \cup {v.id}, m.structure)
<1> DEFINE list == Append(m.list, v)
           dirty == m.dirty \cup {v.id}
<1>1. Register(m, v) = With(m, list, v.id, dirty, m.structure)
  BY DEF Register, With, IsMemory, Memory
<1>2. IsList(list) /\ v.id \in Ids(list) \cup {None}
  BY MemoryIs, AppendedIs
<1>3. dirty \in SUBSET Chat /\ m.structure \in BOOLEAN
  BY MemoryIs DEF Conversation
<1> HIDE DEF list, dirty
<1>4. IsWith(With(m, list, v.id, dirty, m.structure), m, list, v.id, dirty, m.structure)
  BY <1>2, <1>3, WithIs
<1> QED BY <1>1, <1>4 DEF list, dirty

LEMMA ChangedIs ==
    ASSUME NEW m, IsMemory(m), NEW c \in Ids(m.list), NEW v \in Conversation, v.id = c
    PROVE  IsWith(Changed(m, c, v), m, [m.list EXCEPT ![At(m.list, c)] = v], m.active,
                  m.dirty \cup {c}, m.structure)
<1> DEFINE list == [m.list EXCEPT ![At(m.list, c)] = v]
           dirty == m.dirty \cup {c}
<1>1. Changed(m, c, v) = With(m, list, m.active, dirty, m.structure)
  BY DEF Changed, With, IsMemory, Memory
<1>2. IsList(list) /\ m.active \in Ids(list) \cup {None}
  BY MemoryIs, ReplacedIs
<1>3. dirty \in SUBSET Chat /\ m.structure \in BOOLEAN
  BY MemoryIs, ListIs
<1> HIDE DEF list, dirty
<1>4. IsWith(With(m, list, m.active, dirty, m.structure), m, list, m.active, dirty, m.structure)
  BY <1>2, <1>3, WithIs
<1> QED BY <1>1, <1>4 DEF list, dirty

\* Pruning drops conversations that are empty or missing, never all of them.
Pruned(m, gone) ==
    With(m, Without(m.list, gone),
         IF m.active \in gone THEN LastId(Without(m.list, gone)) ELSE m.active, m.dirty, TRUE)

PruneGives(w, m, missing, verify) ==
    \/ w = m
    \/ \E gone \in SUBSET Ids(m.list) :
          /\ gone # Ids(m.list)
          /\ \A c \in gone : c \in missing \/ Entries(m, c) = <<>>
          /\ verify \/ m.active \notin gone
          /\ w = Pruned(m, gone)

LEMMA PruneIs ==
    ASSUME NEW m, IsMemory(m), NEW missing \in SUBSET Ids(m.list), NEW verify \in BOOLEAN
    PROVE  PruneGives(Prune(m, missing, verify), m, missing, verify)
<1> DEFINE empty == {m.list[k].id : k \in {j \in DOMAIN m.list : m.list[j].entries = <<>>}}
           asked == (empty \cup missing) \ (IF verify THEN {} ELSE {m.active})
           gone == IF asked = Ids(m.list) THEN asked \ {LastId(m.list)} ELSE asked
<1>1. IsList(m.list) /\ m \in Memory
  BY MemoryIs DEF IsMemory
<1>2. \A c \in empty : c \in Ids(m.list) /\ Entries(m, c) = <<>>
  BY <1>1, AtIs DEF IsList, Entries, Ids
<1> SUFFICES ASSUME ~(m.list = <<>> \/ gone = {})
             PROVE  PruneGives(Prune(m, missing, verify), m, missing, verify)
  <2>1. m.list = <<>> \/ gone = {} => Prune(m, missing, verify) = m
    BY DEF Prune
  <2> HIDE DEF gone
  <2> QED BY <2>1 DEF PruneGives
<1>3. Prune(m, missing, verify) = Pruned(m, gone)
  BY <1>1 DEF Prune, Pruned, With, Memory
<1>4. LastId(m.list) \in Ids(m.list)
  <2>1. Len(m.list) \in DOMAIN m.list
    BY <1>1 DEF IsList
  <2> QED BY <2>1 DEF LastId, Ids
<1> HIDE DEF empty
<1>5. gone \in SUBSET Ids(m.list) /\ gone # Ids(m.list)
  BY <1>2, <1>4
<1>6. \A c \in gone : c \in missing \/ Entries(m, c) = <<>>
  BY <1>2
<1>7. verify \/ m.active \notin gone
  OBVIOUS
<1> HIDE DEF gone
<1> QED BY <1>3, <1>5, <1>6, <1>7 DEF PruneGives

LEMMA PrunedIs ==
    ASSUME NEW m, IsMemory(m), NEW gone \in SUBSET Ids(m.list), gone # Ids(m.list)
    PROVE  LET w == Pruned(m, gone) IN
           /\ IsMemory(w) /\ SameRest(w, m)
           /\ w.list = Without(m.list, gone) /\ w.dirty = m.dirty /\ w.structure = TRUE
<1> DEFINE list == Without(m.list, gone)
           active == IF m.active \in gone THEN LastId(list) ELSE m.active
<1>1. IsList(m.list)
  BY MemoryIs
<1>2. IsList(list) /\ Ids(list) = Ids(m.list) \ gone
  BY <1>1, WithoutIs
<1> HIDE DEF list
<1>3. LastId(list) \in Ids(list)
  <2>1. Ids(list) # {}
    BY <1>2
  <2>2. Len(list) \in DOMAIN list
    BY <1>2, <2>1 DEF Ids, IsList
  <2> QED BY <2>2 DEF LastId, Ids
<1>4. active \in Ids(list) \cup {None}
  BY <1>2, <1>3, MemoryIs
<1>5. m.dirty \in SUBSET Chat /\ TRUE \in BOOLEAN
  BY MemoryIs
<1>6. Pruned(m, gone) = With(m, list, active, m.dirty, TRUE)
  BY DEF Pruned, list
<1> HIDE DEF active
<1>7. IsWith(With(m, list, active, m.dirty, TRUE), m, list, active, m.dirty, TRUE)
  BY <1>2, <1>4, <1>5, WithIs
<1> QED BY <1>6, <1>7 DEF list, IsWith

LEMMA PruneType ==
    ASSUME NEW m, IsMemory(m), NEW missing \in SUBSET Ids(m.list), NEW verify \in BOOLEAN
    PROVE  LET w == Prune(m, missing, verify) IN
           IsMemory(w) /\ SameRest(w, m) /\ Ids(w.list) \subseteq Ids(m.list)
<1>1. CASE Prune(m, missing, verify) = m
  BY <1>1 DEF SameRest
<1>2. ASSUME NEW gone \in SUBSET Ids(m.list), gone # Ids(m.list)
      PROVE  LET w == Pruned(m, gone) IN
             IsMemory(w) /\ SameRest(w, m) /\ Ids(w.list) \subseteq Ids(m.list)
  <2>1. Ids(Without(m.list, gone)) = Ids(m.list) \ gone
    BY MemoryIs, WithoutIs
  <2>2. /\ IsMemory(Pruned(m, gone)) /\ SameRest(Pruned(m, gone), m)
        /\ Pruned(m, gone).list = Without(m.list, gone)
    BY <1>2, PrunedIs
  <2> QED BY <2>1, <2>2
<1>3. PruneGives(Prune(m, missing, verify), m, missing, verify)
  BY PruneIs
<1> QED BY <1>1, <1>2, <1>3 DEF PruneGives

-------------------------------------------------------------------------------
(* What saving and loading do to a file                                        *)

Written(m, c, entries) ==
    [pos |-> At(m.list, c), titled |-> Titled(m, c), entries |-> entries]

LEMMA EntriesAre ==
    ASSUME NEW m, IsMemory(m), NEW c \in Ids(m.list)
    PROVE  /\ c \in Chat /\ At(m.list, c) \in DOMAIN m.list /\ At(m.list, c) \in Nat
           /\ m.list[At(m.list, c)].id = c
           /\ Titled(m, c) \in BOOLEAN /\ Entries(m, c) \in Seq({"working", "answered"})
<1>1. IsList(m.list) /\ Distinct(m.list)
  BY MemoryIs DEF IsList
<1>2. At(m.list, c) \in DOMAIN m.list /\ m.list[At(m.list, c)].id = c
  BY <1>1, AtIs
<1> QED BY <1>1, <1>2, ListIs DEF Titled, Entries

IsSynced(f, d, m, dirty, structure) ==
    /\ IsFile(f) /\ f.exists /\ f.active = m.active
    /\ DOMAIN f.rows = Ids(m.list)
    /\ \A c \in Ids(m.list) : f.rows[c] =
          IF c \notin DOMAIN d.rows \/ c \in dirty THEN Written(m, c, Entries(m, c))
          ELSE IF structure THEN Written(m, c, d.rows[c].entries) ELSE d.rows[c]

LEMMA SyncedIs ==
    ASSUME NEW d, IsFile(d), NEW m, IsMemory(m), NEW dirty, NEW structure
    PROVE  IsSynced(Synced(d, m, dirty, structure), d, m, dirty, structure)
<1> DEFINE f == Synced(d, m, dirty, structure)
           row(c) == IF c \notin DOMAIN d.rows \/ c \in dirty THEN Written(m, c, Entries(m, c))
                     ELSE IF structure THEN Written(m, c, d.rows[c].entries) ELSE d.rows[c]
<1>1. f.exists = TRUE /\ f.active = m.active /\ f = [exists |-> f.exists, active |-> f.active, rows |-> f.rows]
  BY DEF Synced
<1>2. f.rows = [c \in Ids(m.list) |-> row(c)]
  BY DEF Synced, Written, Entries, Titled
<1>3. d.rows \in Rows
  BY DEF IsFile, Files
<1>4. ASSUME NEW c \in Ids(m.list) PROVE row(c) \in Row
  <2>1. Written(m, c, Entries(m, c)) \in Row
    BY EntriesAre DEF Written, Row
  <2>2. c \in DOMAIN d.rows =>
           d.rows[c] \in Row /\ d.rows[c].entries \in Seq({"working", "answered"})
    BY <1>3, RowsAre
  <2>3. c \in DOMAIN d.rows => Written(m, c, d.rows[c].entries) \in Row
    BY <2>2, EntriesAre DEF Written, Row
  <2> QED BY <2>1, <2>2, <2>3
<1>5. Ids(m.list) \in SUBSET Chat
  BY MemoryIs, ListIs
<1> HIDE DEF row, f
<1>6. f.rows \in Rows
  <2>1. f.rows \in [Ids(m.list) -> Row]
    BY <1>2, <1>4
  <2> QED BY <1>5, <2>1, RowsMade
<1>7. f.active \in Chat \cup {None}
  BY <1>1, <1>5, MemoryIs
<1>8. IsFile(f)
  BY <1>1, <1>6, <1>7 DEF IsFile, Files
<1>9. DOMAIN f.rows = Ids(m.list) /\ \A c \in Ids(m.list) : f.rows[c] = row(c)
  BY <1>2
<1> QED BY <1>1, <1>8, <1>9 DEF f, row, IsSynced

Clean(m) == With(m, m.list, m.active, {}, FALSE)

LEMMA CleanIs ==
    ASSUME NEW m, IsMemory(m)
    PROVE  IsWith(Clean(m), m, m.list, m.active, {}, FALSE)
<1>1. {} \in SUBSET Chat /\ FALSE \in BOOLEAN /\ IsList(m.list) /\ m.active \in Ids(m.list) \cup {None}
  BY MemoryIs
<1> DEFINE none == {}
<1>2. none \in SUBSET Chat
  OBVIOUS
<1> HIDE DEF none
<1>3. IsWith(With(m, m.list, m.active, none, FALSE), m, m.list, m.active, none, FALSE)
  BY <1>1, <1>2, WithIs
<1> QED BY <1>3 DEF none, Clean

\* A save writes, finds nothing to write, or fails.
LEMMA SaveIs ==
    ASSUME NEW d, NEW m, IsMemory(m), NEW s \in Save(d, m)
    PROVE  \/ s.d = d /\ s.m = m
           \/ s.d = d /\ s.m = Clean(m) /\ ~d.exists /\ ~HasPersistable(m)
           \/ s.d = Synced(d, m, m.dirty, m.structure) /\ s.m = Clean(m)
<1>1. [m EXCEPT !.dirty = {}, !.structure = FALSE] = Clean(m)
  BY DEF Clean, With, IsMemory, Memory
<1> QED BY <1>1 DEF Save

LEMMA SavedMemory ==
    ASSUME NEW d, NEW m, IsMemory(m), NEW s \in Save(d, m)
    PROVE  /\ IsMemory(s.m) /\ SameRest(s.m, m) /\ s.m.list = m.list /\ s.m.active = m.active
<1>1. s.m = m \/ s.m = Clean(m)
  BY SaveIs
<1>2. CASE s.m = m
  BY <1>2 DEF SameRest
<1>3. CASE s.m = Clean(m)
  <2>1. IsWith(s.m, m, m.list, m.active, {}, FALSE)
    BY <1>3, CleanIs
  <2> QED BY <2>1 DEF IsWith
<1> QED BY <1>1, <1>2, <1>3

LEMMA SavedType ==
    ASSUME NEW d, IsFile(d), NEW m, IsMemory(m), NEW s \in Save(d, m)
    PROVE  /\ IsFile(s.d) /\ IsMemory(s.m) /\ SameRest(s.m, m)
           /\ s.m.list = m.list /\ s.m.active = m.active
           /\ DOMAIN s.d.rows \subseteq DOMAIN d.rows \cup Ids(m.list)
<1>1. s.d = d \/ s.d = Synced(d, m, m.dirty, m.structure)
  BY SaveIs
<1>2. IsFile(s.d) /\ DOMAIN s.d.rows \subseteq DOMAIN d.rows \cup Ids(m.list)
  <2>1. CASE s.d = d
    BY <2>1
  <2>2. CASE s.d = Synced(d, m, m.dirty, m.structure)
    <3>1. IsSynced(s.d, d, m, m.dirty, m.structure)
      BY <2>2, SyncedIs
    <3> QED BY <3>1 DEF IsSynced
  <2> QED BY <1>1, <2>1, <2>2
<1> QED BY <1>2, SavedMemory

LEMMA LastIdIs ==
    ASSUME NEW list, IsList(list), Ids(list) # {}
    PROVE  LastId(list) \in Ids(list)
<1>1. Len(list) \in DOMAIN list
  BY DEF Ids, IsList
<1> QED BY <1>1 DEF LastId, Ids

LEMMA StoredActiveIs ==
    ASSUME NEW d, IsFile(d)
    PROVE  StoredActive(d) \in DOMAIN d.rows \cup {None}
<1>1. d.rows \in Rows
  BY DEF IsFile, Files
<1>2. IsList(Ordered(d.rows)) /\ Ids(Ordered(d.rows)) = DOMAIN d.rows
  BY <1>1, OrderedIs
<1>3. d.rows # <<>> => LastId(Ordered(d.rows)) \in DOMAIN d.rows
  BY <1>1, <1>2, LastIdIs, RowsAre
<1> QED BY <1>3 DEF StoredActive

\* The list that is loaded when the file can be read.
Read(rows, unread) ==
    [k \in DOMAIN Ordered(rows) |->
        IF Ordered(rows)[k].id \in unread THEN [Ordered(rows)[k] EXCEPT !.entries = <<>>]
        ELSE Ordered(rows)[k]]

LEMMA ReadIs ==
    ASSUME NEW rows \in Rows, NEW unread
    PROVE  IsList(Read(rows, unread)) /\ Ids(Read(rows, unread)) = DOMAIN rows
<1> DEFINE list == Ordered(rows)
           new == Read(rows, unread)
           n == Len(list)
<1>1. IsList(list) /\ Ids(list) = DOMAIN rows
  BY OrderedIs
<1> HIDE DEF list
<1>2. DOMAIN list = 1..n /\ n \in Nat /\ \A k \in DOMAIN list : list[k] \in Conversation
  BY <1>1, ListIs
<1>3. new = [k \in 1..n |-> IF list[k].id \in unread THEN [list[k] EXCEPT !.entries = <<>>]
                            ELSE list[k]]
  BY <1>2 DEF Read, list
<1>4. <<>> \in Seq({"working", "answered"})
  OBVIOUS
<1>5. ASSUME NEW k \in 1..n PROVE new[k] \in Conversation /\ new[k].id = list[k].id
  BY <1>2, <1>3, <1>4 DEF Conversation
<1> HIDE DEF new, n
<1>6. DOMAIN new = 1..n /\ new = [k \in 1..n |-> new[k]]
  BY <1>3
<1>7. \A j, k \in 1..n : new[j].id = new[k].id => j = k
  BY <1>1, <1>2, <1>5 DEF IsList, Distinct
<1>8. IsList(new)
  BY <1>2, <1>5, <1>6, <1>7, ListMade
<1>9. Ids(new) = Ids(list)
  BY <1>2, <1>5, <1>6 DEF Ids
<1> QED BY <1>1, <1>8, <1>9 DEF new

IsLoaded(w, m, d, p, ok, unread) ==
    /\ IsMemory(w) /\ w.up = TRUE /\ w.path = p /\ w.cleanUps = m.cleanUps /\ w.run = m.run
    /\ w.dirty = {} /\ w.structure = FALSE
    /\ w.list = IF ok /\ d.exists THEN Read(d.rows, unread) ELSE <<>>
    /\ Ids(w.list) \subseteq DOMAIN d.rows

LEMMA LoadedIs ==
    ASSUME NEW m, IsMemory(m), NEW d, IsFile(d), NEW p \in Project, NEW ok \in BOOLEAN, NEW unread
    PROVE  IsLoaded(Loaded(m, d, p, ok, unread), m, d, p, ok, unread)
<1> DEFINE w == Loaded(m, d, p, ok, unread)
           list == IF ok /\ d.exists THEN Read(d.rows, unread) ELSE <<>>
           active == IF ok /\ d.exists THEN StoredActive(d) ELSE None
<1>1. m \in Memory /\ d.rows \in Rows
  BY DEF IsMemory, IsFile, Files
<1>2. IsList(<<>>) /\ Ids(<<>>) = {} /\ <<>> = [k \in {} |-> <<>>] /\ DOMAIN <<>> = {}
  BY DEF IsList, Distinct, Ids
<1>3. IsList(list) /\ Ids(list) = IF ok /\ d.exists THEN DOMAIN d.rows ELSE {}
  BY <1>1, <1>2, ReadIs
<1>4. active \in Ids(list) \cup {None}
  BY <1>3, StoredActiveIs
<1>5. w = [m EXCEPT !.up = TRUE, !.path = p, !.dirty = {}, !.structure = FALSE,
                    !.attached = FALSE, !.active = active, !.list = list]
  <2>1. (IF ok /\ d.exists THEN Ordered(d.rows) ELSE <<>>)
        = (IF ok /\ d.exists THEN Ordered(d.rows) ELSE <<>>)
    OBVIOUS
  <2>2. CASE ok /\ d.exists
    BY <2>2 DEF Loaded, Read
  <2>3. CASE ~(ok /\ d.exists)
    BY <1>2, <2>3 DEF Loaded
  <2> QED BY <2>2, <2>3
<1> HIDE DEF w, list, active
<1>6. /\ w.up = TRUE /\ w.path = p /\ w.dirty = {} /\ w.structure = FALSE /\ w.active = active
      /\ w.list = list /\ w.cleanUps = m.cleanUps /\ w.run = m.run
  BY <1>1, <1>5 DEF Memory
<1>7. w \in Memory
  <2>1. active \in Chat \cup {None} /\ list \in Seq(Conversation)
    BY <1>3, <1>4, ListIs DEF IsList
  <2> QED BY <1>1, <1>5, <2>1 DEF Memory
<1>8. IsMemory(w)
  BY <1>3, <1>4, <1>6, <1>7 DEF IsMemory, IsList
<1> QED BY <1>3, <1>6, <1>8 DEF w, list, IsLoaded

-------------------------------------------------------------------------------
(* Types                                                                       *)

IsValid(m) ==
    /\ IsMemory(m) /\ m.up = (m.path # None)
    /\ m.cleanUps \in 0..MaxCleanUps /\ (~m.up => m.cleanUps = 0)
FilesTyped == db \in [Project -> Files] /\ \A p \in Project : IsFile(db[p])
MemoryTyped == mem \in [Program -> Memory] /\ \A i \in Program : IsValid(mem[i])
Types ==
    /\ FilesTyped /\ MemoryTyped
    /\ deleted \in SUBSET (Project \X Chat)
    /\ acts \in 0..MaxActs

LEMMA NoFileIs == IsFile(NoFile) /\ NoFile.rows = <<>> /\ DOMAIN NoFile.rows = {}
<1>1. <<>> \in Rows
  <2>1. <<>> \in [{} -> Row]
    OBVIOUS
  <2> QED BY <2>1, RowsMade
<1>2. NoFile.rows = <<>> /\ DOMAIN <<>> = {}
  BY DEF NoFile
<1> QED BY <1>1, <1>2 DEF NoFile, IsFile, Files

LEMMA StoppedIs == Stopped \in Memory /\ IsValid(Stopped) /\ ~Stopped.up
<1>1. Stopped \in Memory
  BY DEF Stopped, Memory
<1>2. Distinct(Stopped.list)
  BY DEF Stopped, Distinct
<1>3. /\ Stopped.active = None /\ Stopped.up = FALSE /\ Stopped.path = None
      /\ Stopped.cleanUps = 0
  BY DEF Stopped
<1>4. 0 \in 0..MaxCleanUps
  BY ChatHistoryAssumption
<1> QED BY <1>1, <1>2, <1>3, <1>4 DEF IsValid, IsMemory

LEMMA TypesInit == Init => Types
<1> SUFFICES ASSUME Init PROVE Types
  OBVIOUS
<1>1. FilesTyped
  BY NoFileIs DEF Init, FilesTyped, IsFile
<1>2. MemoryTyped
  BY StoppedIs DEF Init, MemoryTyped
<1>3. deleted = {} /\ acts = 0 /\ 0 \in 0..MaxActs
  BY ChatHistoryAssumption DEF Init
<1> QED BY <1>1, <1>2, <1>3 DEF Types

\* A free number is in no file, on no list and not that of a deleted conversation.
LEMMA FreeIs ==
    ASSUME Free # {}
    PROVE  /\ NewConversation \in Conversation /\ NewConversation.id \in Free
           /\ NewConversation.entries = <<>> /\ NewConversation.titled = FALSE
           /\ \A p \in Project : NewConversation.id \notin DOMAIN db[p].rows
           /\ \A i \in Program : NewConversation.id \notin Ids(mem[i].list)
<1>1. Smallest(Free) \in Free
  <2> DEFINE S == Free
  <2>1. S \in SUBSET (1..MaxChats) /\ MaxChats \in Nat /\ S # {}
    BY ChatHistoryAssumption DEF Free, Chat
  <2> HIDE DEF S
  <2>2. Smallest(S) \in S
    BY <2>1, SmallestIs
  <2> QED BY <2>2 DEF S
<1>2. /\ NewConversation.id = Smallest(Free) /\ NewConversation.titled = FALSE
      /\ NewConversation.entries = <<>>
  BY DEF NewConversation
<1>3. Smallest(Free) \in Chat
  BY <1>1 DEF Free
<1>4. NewConversation \in Conversation
  BY <1>3 DEF NewConversation, Conversation
<1>5. \A c \in Free : /\ \A p \in Project : c \notin DOMAIN db[p].rows
                      /\ \A i \in Program : c \notin Ids(mem[i].list)
  BY DEF Free
<1> QED BY <1>1, <1>2, <1>4, <1>5

\* A list gets a draft; the clean-up is posted.
Drafted(m, v) == [m EXCEPT !.list = Append(@, v), !.active = v.id, !.cleanUps = @ + 1]

LEMMA DraftedIs ==
    ASSUME NEW m, IsMemory(m), NEW v \in Conversation, v.id \notin Ids(m.list)
    PROVE  LET w == Drafted(m, v) IN
           /\ IsMemory(w) /\ w.list = Append(m.list, v) /\ w.active = v.id /\ w.dirty = m.dirty
           /\ w.structure = m.structure /\ w.up = m.up /\ w.path = m.path
           /\ w.cleanUps = m.cleanUps + 1
<1> DEFINE w == Drafted(m, v)
           list == Append(m.list, v)
<1>1. IsList(list) /\ v.id \in Ids(list) /\ v.id \in Chat
  BY MemoryIs, AppendedIs DEF Conversation
<1>2. m \in Memory
  BY DEF IsMemory
<1>3. w = [m EXCEPT !.list = list, !.active = v.id, !.cleanUps = m.cleanUps + 1]
  BY <1>2 DEF Drafted, Memory
<1> HIDE DEF list, w
<1>4. /\ w.list = list /\ w.active = v.id /\ w.dirty = m.dirty
      /\ w.structure = m.structure /\ w.up = m.up /\ w.path = m.path
      /\ w.cleanUps = m.cleanUps + 1
  BY <1>2, <1>3 DEF Memory
<1>5. w \in Memory
  <2>1. m.cleanUps + 1 \in Nat /\ list \in Seq(Conversation)
    BY <1>1, MemoryIs DEF IsList
  <2> QED BY <1>1, <1>2, <1>3, <2>1 DEF Memory
<1>6. IsMemory(w)
  BY <1>1, <1>4, <1>5 DEF IsMemory, IsList
<1> QED BY <1>4, <1>6 DEF w, list

LEMMA WithDraftType ==
    ASSUME NEW m, IsMemory(m), NEW v \in Conversation, v.id \notin Ids(m.list)
    PROVE  LET w == WithDraft(m, v) IN
           IsMemory(w) /\ w.up = m.up /\ w.path = m.path /\ w.cleanUps = m.cleanUps + 1
<1> DEFINE b == Drafted(m, v)
           none == {}
<1>1. IsMemory(b) /\ b.up = m.up /\ b.path = m.path /\ b.cleanUps = m.cleanUps + 1
  BY DraftedIs
<1>2. WithDraft(m, v) = Prune(b, none, FALSE)
  BY DEF WithDraft, Drafted
<1>3. none \in SUBSET Ids(b.list) /\ FALSE \in BOOLEAN
  OBVIOUS
<1> HIDE DEF b, none
<1>4. IsMemory(Prune(b, none, FALSE)) /\ SameRest(Prune(b, none, FALSE), b)
  BY <1>1, <1>3, PruneType
<1> QED BY <1>1, <1>2, <1>4 DEF SameRest

\* The parts of opening a file.
OpenedVia(s, d, m, p, ok, unread, failed, t) ==
    LET l == Loaded(m, d, p, ok, unread) IN
    /\ ok \in Succeeds("read") /\ unread \in Unread(DOMAIN d.rows)
    /\ failed \in Unread(Ids(l.list))
    /\ t \in Save(d, Prune(l, Missing(d, l.list, failed), TRUE))
    /\ s.d = t.d /\ s.m = WithDraft(t.m, NewConversation)

LEMMA OpenedIs ==
    ASSUME NEW d, NEW m, NEW p, NEW s \in Opened(d, m, p)
    PROVE  \E ok, unread, failed, t : OpenedVia(s, d, m, p, ok, unread, failed, t)
<1>1. PICK l \in Loads(d, m, p) : \E t \in Verified(d, l) :
         s = [d |-> t.d, m |-> WithDraft(t.m, NewConversation)]
  BY DEF Opened
<1>2. PICK t \in Verified(d, l) : s = [d |-> t.d, m |-> WithDraft(t.m, NewConversation)]
  BY <1>1
<1>3. PICK failed \in Unread(Ids(l.list)) : t \in Save(d, Prune(l, Missing(d, l.list, failed), TRUE))
  BY DEF Verified
<1>4. PICK ok \in Succeeds("read") : \E unread \in Unread(DOMAIN d.rows) :
         l = Loaded(m, d, p, ok, unread)
  BY DEF Loads
<1>5. PICK unread \in Unread(DOMAIN d.rows) : l = Loaded(m, d, p, ok, unread)
  BY <1>4
<1>6. s.d = t.d /\ s.m = WithDraft(t.m, NewConversation)
  BY <1>2
<1>7. OpenedVia(s, d, m, p, ok, unread, failed, t)
  BY <1>3, <1>5, <1>6 DEF OpenedVia
<1> QED BY <1>7

IsOpened(s, m, p) ==
    /\ IsFile(s.d) /\ IsMemory(s.m) /\ s.m.up = TRUE /\ s.m.path = p
    /\ s.m.cleanUps = m.cleanUps + 1

LEMMA OpenedType ==
    ASSUME NEW d, IsFile(d), NEW m, IsMemory(m), NEW p \in Project, NEW s \in Opened(d, m, p),
           Free # {}, NewConversation.id \notin DOMAIN d.rows
    PROVE  IsOpened(s, m, p)
<1>1. PICK ok, unread, failed, t : OpenedVia(s, d, m, p, ok, unread, failed, t)
  BY OpenedIs
<1> DEFINE l == Loaded(m, d, p, ok, unread)
           missing == Missing(d, l.list, failed)
           v == Prune(l, missing, TRUE)
<1>2. ok \in BOOLEAN
  BY <1>1 DEF OpenedVia, Succeeds
<1>3. t \in Save(d, v) /\ s.d = t.d /\ s.m = WithDraft(t.m, NewConversation)
  BY <1>1 DEF OpenedVia
<1>4. IsLoaded(l, m, d, p, ok, unread)
  BY <1>2, LoadedIs
<1>5. IsMemory(l) /\ l.up = TRUE /\ l.path = p /\ l.cleanUps = m.cleanUps
      /\ Ids(l.list) \subseteq DOMAIN d.rows
  BY <1>4 DEF IsLoaded
<1> HIDE DEF l
<1>6. missing \in SUBSET Ids(l.list) /\ TRUE \in BOOLEAN
  BY DEF Missing
<1> HIDE DEF missing
<1>7. IsMemory(v) /\ SameRest(v, l) /\ Ids(v.list) \subseteq DOMAIN d.rows
  BY <1>5, <1>6, PruneType
<1> HIDE DEF v
<1>8. IsFile(t.d) /\ IsMemory(t.m) /\ SameRest(t.m, v) /\ t.m.list = v.list
  BY <1>3, <1>7, SavedType
<1>9. NewConversation \in Conversation /\ NewConversation.id \notin Ids(t.m.list)
  BY <1>7, <1>8, FreeIs
<1>10. /\ IsMemory(s.m) /\ s.m.up = t.m.up /\ s.m.path = t.m.path
       /\ s.m.cleanUps = t.m.cleanUps + 1
  BY <1>3, <1>8, <1>9, WithDraftType
<1> QED BY <1>3, <1>5, <1>7, <1>8, <1>10 DEF SameRest, IsOpened

LEMMA ValidIs ==
    ASSUME NEW m, IsValid(m), NEW w, IsMemory(w), SameRest(w, m)
    PROVE  IsValid(w)
BY DEF IsValid, SameRest

LEMMA EnsureIs ==
    ASSUME NEW m, IsMemory(m),
           m.active \in Ids(m.list) \/ (Free # {} /\ NewConversation.id \notin Ids(m.list))
    PROVE  /\ IsMemory(EnsureActive(m)) /\ SameRest(EnsureActive(m), m)
           /\ EnsureActive(m).active \in Ids(EnsureActive(m).list)
<1>1. CASE m.active \in Ids(m.list)
  BY <1>1 DEF EnsureActive, SameRest
<1>2. CASE m.active \notin Ids(m.list)
  <2> DEFINE v == NewConversation
             w == Register(m, v)
  <2>1. v \in Conversation /\ v.id \notin Ids(m.list)
    BY <1>2, FreeIs
  <2>2. EnsureActive(m) = w
    BY <1>2 DEF EnsureActive
  <2> HIDE DEF v
  <2>3. IsWith(w, m, Append(m.list, v), v.id, m.dirty \cup {v.id}, m.structure)
    BY <2>1, RegisterIs
  <2>4. v.id \in Ids(Append(m.list, v))
    BY <2>1, MemoryIs, AppendedIs
  <2> QED BY <2>2, <2>3, <2>4 DEF IsWith
<1> QED BY <1>1, <1>2

LEMMA AppendEntryIs ==
    ASSUME NEW m, IsMemory(m), NEW c \in Ids(m.list), NEW state \in {"working", "answered"}
    PROVE  IsMemory(AppendEntry(m, c, state)) /\ SameRest(AppendEntry(m, c, state), m)
<1> DEFINE v == [id |-> c, titled |-> TRUE, entries |-> Append(Entries(m, c), state)]
<1>1. Append(Entries(m, c), state) \in Seq({"working", "answered"}) /\ c \in Chat
  BY EntriesAre
<1>2. v \in Conversation /\ v.id = c
  BY <1>1 DEF Conversation
<1>3. AppendEntry(m, c, state) = Changed(m, c, v)
  BY DEF AppendEntry
<1> HIDE DEF v
<1>4. IsWith(Changed(m, c, v), m, [m.list EXCEPT ![At(m.list, c)] = v], m.active,
             m.dirty \cup {c}, m.structure)
  BY <1>2, ChangedIs
<1> QED BY <1>3, <1>4 DEF IsWith

LEMMA AddPendingIs ==
    ASSUME NEW m, IsMemory(m), m.active \in Ids(m.list)
    PROVE  /\ IsMemory(AddPending(m)) /\ AddPending(m).up = m.up /\ AddPending(m).path = m.path
           /\ AddPending(m).cleanUps = m.cleanUps
<1> DEFINE w == AppendEntry(m, m.active, "working")
<1>1. IsMemory(w) /\ SameRest(w, m) /\ m.active \in Chat
  BY AppendEntryIs, EntriesAre
<1>2. AddPending(m) = [w EXCEPT !.run = m.active, !.attached = TRUE]
  BY DEF AddPending
<1> HIDE DEF w
<1>3. [w EXCEPT !.run = m.active, !.attached = TRUE] \in Memory
  BY <1>1 DEF IsMemory, Memory
<1> QED BY <1>1, <1>2, <1>3 DEF IsMemory, Memory, SameRest

-------------------------------------------------------------------------------
(* The steps keep the types                                                    *)

LEMMA LeavesTyped ==
    ASSUME Types, NEW i \in Program, NEW p \in Project, NEW d, NEW m, IsFile(d), IsValid(m),
           Leaves(i, p, d, m)
    PROVE  FilesTyped' /\ MemoryTyped'
<1>1. d \in Files /\ m \in Memory
  BY DEF IsFile, IsValid, IsMemory
<1>2. FilesTyped'
  BY <1>1 DEF Leaves, Types, FilesTyped
<1>3. MemoryTyped'
  BY <1>1 DEF Leaves, Types, MemoryTyped
<1> QED BY <1>2, <1>3

LEMMA FileAt == ASSUME Types, NEW p \in Project PROVE IsFile(db[p])
BY DEF Types, FilesTyped

LEMMA MemoryAt ==
    ASSUME Types, NEW i \in Program
    PROVE  IsValid(mem[i]) /\ IsMemory(mem[i])
BY DEF Types, MemoryTyped, IsValid

LEMMA OpenPath ==
    ASSUME NEW m, IsValid(m), m.up
    PROVE  m.path \in Project
<1>1. m.up = TRUE /\ m.path \in Project \cup {None}
  BY MemoryIs DEF IsValid
<1> QED BY <1>1 DEF IsValid

LEMMA SavesTyped ==
    ASSUME Types, NEW i \in Program, NEW m, IsValid(m), m.path \in Project, Saves(i, m)
    PROVE  FilesTyped' /\ MemoryTyped'
<1>1. PICK s \in Save(db[m.path], m) : Leaves(i, m.path, s.d, s.m)
  BY DEF Saves
<1>2. IsFile(db[m.path]) /\ IsMemory(m)
  BY FileAt DEF IsValid
<1>3. IsFile(s.d) /\ IsMemory(s.m) /\ SameRest(s.m, m)
  BY <1>2, SavedType
<1>4. IsValid(s.m)
  BY <1>3, ValidIs
<1> QED BY <1>1, <1>3, <1>4, LeavesTyped

LEMMA ActTyped == ASSUME Types, Act PROVE acts' \in 0..MaxActs
BY ChatHistoryAssumption DEF Types, Act

LEMMA NewIs ==
    ASSUME NEW i \in Program, Free # {}
    PROVE  /\ NewConversation \in Conversation /\ NewConversation.id \notin Ids(mem[i].list)
           /\ \A p \in Project : NewConversation.id \notin DOMAIN db[p].rows
BY FreeIs

LEMMA LaunchTyped ==
    ASSUME Types, NEW i \in Program, NEW p \in Project, Launch(i, p)
    PROVE  Types'
<1>1. Free # {} /\ ~mem[i].up /\ Act /\ UNCHANGED deleted
  BY DEF Launch
<1>2. PICK s \in Opened(db[p], mem[i], p) : Leaves(i, p, s.d, s.m)
  BY DEF Launch
<1>3. IsFile(db[p]) /\ IsMemory(mem[i]) /\ NewConversation.id \notin DOMAIN db[p].rows
  BY <1>1, FileAt, MemoryAt, NewIs
<1>4. IsOpened(s, mem[i], p)
  BY <1>1, <1>3, OpenedType
<1>5. mem[i].cleanUps = 0
  BY <1>1, MemoryAt DEF IsValid
<1>6. IsValid(s.m)
  <2>1. s.m.cleanUps \in 0..MaxCleanUps
    BY <1>4, <1>5, ChatHistoryAssumption DEF IsOpened
  <2> QED BY <1>4, <2>1, ChatHistoryAssumption DEF IsValid, IsOpened
<1>7. FilesTyped' /\ MemoryTyped'
  BY <1>2, <1>4, <1>6, LeavesTyped DEF IsOpened
<1> QED BY <1>1, <1>7, ActTyped DEF Types

LEMMA ExitTyped ==
    ASSUME Types, NEW i \in Program, Exit(i)
    PROVE  Types'
<1>1. Act /\ UNCHANGED <<db, deleted>> /\ mem' = [mem EXCEPT ![i] = Stopped]
  BY DEF Exit
<1>2. MemoryTyped'
  BY <1>1, StoppedIs DEF Types, MemoryTyped
<1>3. FilesTyped'
  BY <1>1 DEF Types, FilesTyped
<1> QED BY <1>1, <1>2, <1>3, ActTyped DEF Types

LEMMA SendTyped ==
    ASSUME Types, NEW i \in Program, Send(i)
    PROVE  Types'
<1> DEFINE m == EnsureActive(mem[i])
<1>1. Act /\ UNCHANGED deleted /\ mem[i].up /\ CanEnsureActive(mem[i]) /\ Saves(i, AddPending(m))
  BY DEF Send
<1>2. IsValid(mem[i]) /\ IsMemory(mem[i]) /\ mem[i].path \in Project
  BY <1>1, MemoryAt, OpenPath
<1>3. IsMemory(m) /\ SameRest(m, mem[i]) /\ m.active \in Ids(m.list)
  BY <1>1, <1>2, NewIs, EnsureIs DEF CanEnsureActive
<1> HIDE DEF m
<1>4. IsMemory(AddPending(m)) /\ AddPending(m).up = m.up /\ AddPending(m).path = m.path
      /\ AddPending(m).cleanUps = m.cleanUps
  BY <1>3, AddPendingIs
<1>5. IsValid(AddPending(m)) /\ AddPending(m).path \in Project
  BY <1>2, <1>3, <1>4 DEF IsValid, SameRest
<1>6. FilesTyped' /\ MemoryTyped'
  BY <1>1, <1>5, SavesTyped
<1> QED BY <1>1, <1>6, ActTyped DEF Types

LEMMA AnswerTyped ==
    ASSUME Types, NEW i \in Program, Answer(i)
    PROVE  Types'
<1> DEFINE m == [mem[i] EXCEPT !.run = None, !.attached = FALSE]
           c == mem[i].run
<1>1. mem[i].up /\ UNCHANGED <<deleted, acts>>
  BY DEF Answer
<1>2. IsValid(mem[i]) /\ IsMemory(mem[i]) /\ mem[i].path \in Project
  BY <1>1, MemoryAt, OpenPath
<1>3. /\ IsMemory(m) /\ m.up = mem[i].up /\ m.path = mem[i].path
      /\ m.cleanUps = mem[i].cleanUps /\ m.list = mem[i].list
  <2>1. mem[i] \in Memory
    BY <1>2 DEF IsMemory
  <2>2. m \in Memory
    BY <2>1 DEF Memory
  <2> QED BY <1>2, <2>1, <2>2 DEF IsMemory, Memory
<1>4. IsValid(m) /\ m.path \in Project
  BY <1>2, <1>3 DEF IsValid
<1>5. ASSUME NEW w, IsMemory(w), SameRest(w, m), Saves(i, w)
      PROVE  FilesTyped' /\ MemoryTyped'
  <2>1. IsValid(w) /\ w.path \in Project
    BY <1>4, <1>5, ValidIs DEF SameRest
  <2> QED BY <1>5, <2>1, SavesTyped
<1>6. \/ /\ c \in Ids(m.list)
         /\ mem[i].attached
         /\ Saves(i, Changed(m, c, [id |-> c, titled |-> Titled(m, c),
                                   entries |-> Completed(Entries(m, c))]))
      \/ c \in Ids(m.list) /\ Saves(i, [m EXCEPT !.dirty = @ \cup {c}])
      \/ /\ CanEnsureActive(m)
         /\ Saves(i, AppendEntry(EnsureActive(m), EnsureActive(m).active, "answered"))
  BY DEF Answer
<1> HIDE DEF m, c
<1>7. CASE /\ c \in Ids(m.list)
           /\ mem[i].attached
           /\ Saves(i, Changed(m, c, [id |-> c, titled |-> Titled(m, c),
                                     entries |-> Completed(Entries(m, c))]))
  <2> DEFINE v == [id |-> c, titled |-> Titled(m, c), entries |-> Completed(Entries(m, c))]
  <2>1. v \in Conversation /\ v.id = c
    <3>1. Completed(Entries(m, c)) \in Seq({"working", "answered"})
      <4> DEFINE e == Entries(m, c)
      <4>1. e \in Seq({"working", "answered"})
        BY <1>3, <1>7, EntriesAre
      <4> HIDE DEF e
      <4>2. /\ Completed(e) = [e EXCEPT ![Len(e)] = "answered"]
            /\ e \in [1..Len(e) -> {"working", "answered"}] /\ Len(e) \in Nat
        BY <4>1 DEF Completed
      <4>3. Completed(e) \in [1..Len(e) -> {"working", "answered"}]
        BY <4>2
      <4>4. Completed(e) \in Seq({"working", "answered"})
        BY <4>2, <4>3
      <4> QED BY <4>4 DEF e
    <3> QED BY <1>3, <1>7, <3>1, EntriesAre DEF Conversation
  <2> HIDE DEF v
  <2>2. IsWith(Changed(m, c, v), m, [m.list EXCEPT ![At(m.list, c)] = v], m.active,
               m.dirty \cup {c}, m.structure)
    BY <1>3, <1>7, <2>1, ChangedIs
  <2>3. Saves(i, Changed(m, c, v))
    BY <1>7 DEF v
  <2>4. FilesTyped' /\ MemoryTyped'
    BY <1>5, <2>2, <2>3 DEF IsWith
  <2> QED BY <1>1, <2>4 DEF Types
<1>8. CASE c \in Ids(m.list) /\ Saves(i, [m EXCEPT !.dirty = @ \cup {c}])
  <2> DEFINE w == [m EXCEPT !.dirty = @ \cup {c}]
  <2>1. m \in Memory /\ c \in Chat
    BY <1>3, <1>8, EntriesAre DEF IsMemory
  <2>2. w \in Memory /\ SameRest(w, m) /\ w.list = m.list /\ w.active = m.active
    BY <2>1 DEF Memory, SameRest
  <2>3. IsMemory(w)
    BY <1>3, <2>2 DEF IsMemory
  <2> HIDE DEF w
  <2>4. Saves(i, w)
    BY <1>8 DEF w
  <2>5. FilesTyped' /\ MemoryTyped'
    BY <1>5, <2>2, <2>3, <2>4
  <2> QED BY <1>1, <2>5 DEF Types
<1>9. CASE /\ CanEnsureActive(m)
           /\ Saves(i, AppendEntry(EnsureActive(m), EnsureActive(m).active, "answered"))
  <2> DEFINE e == EnsureActive(m)
             w == AppendEntry(e, e.active, "answered")
  <2>1. IsMemory(e) /\ SameRest(e, m) /\ e.active \in Ids(e.list)
    BY <1>3, <1>9, NewIs, EnsureIs DEF CanEnsureActive
  <2> HIDE DEF e
  <2>2. IsMemory(w) /\ SameRest(w, e)
    BY <2>1, AppendEntryIs
  <2>3. Saves(i, w)
    BY <1>9 DEF e
  <2> HIDE DEF w
  <2>4. SameRest(w, m)
    BY <2>1, <2>2 DEF SameRest
  <2>5. FilesTyped' /\ MemoryTyped'
    BY <1>5, <2>2, <2>3, <2>4
  <2> QED BY <1>1, <2>5 DEF Types
<1> QED BY <1>6, <1>7, <1>8, <1>9

LEMMA RegenerateTyped ==
    ASSUME Types, NEW i \in Program, Regenerate(i)
    PROVE  Types'
<1> DEFINE m == mem[i]
           c == m.active
           v == [id |-> c, titled |-> Titled(m, c),
                 entries |-> SubSeq(Entries(m, c), 1, Len(Entries(m, c)) - 1)]
           popped == Changed(m, c, v)
<1>1. /\ Act /\ m.up /\ c \in Ids(m.list) /\ Entries(m, c) # <<>>
      /\ deleted' = deleted \cup {<<m.path, c>>}
  BY DEF Regenerate
<1>2. PICK s \in Save(db[m.path], popped) :
         \E t \in Save(s.d, AddPending(s.m)) : Leaves(i, m.path, t.d, t.m)
  BY DEF Regenerate
<1>3. PICK t \in Save(s.d, AddPending(s.m)) : Leaves(i, m.path, t.d, t.m)
  BY <1>2
<1>4. IsValid(m) /\ IsMemory(m) /\ m.path \in Project /\ c \in Chat
  BY <1>1, MemoryAt, OpenPath, EntriesAre
<1>5. v \in Conversation /\ v.id = c
  <2>1. SubSeq(Entries(m, c), 1, Len(Entries(m, c)) - 1) \in Seq({"working", "answered"})
    <3> DEFINE old == Entries(m, c)
    <3>1. old \in Seq({"working", "answered"})
      BY <1>1, <1>4, EntriesAre
    <3> HIDE DEF old
    <3>2. Len(old) \in Nat /\ \A k \in 1..Len(old) : old[k] \in {"working", "answered"}
      BY <3>1
    <3> QED BY <3>1, <3>2 DEF old
  <2> QED BY <1>1, <1>4, <2>1, EntriesAre DEF Conversation
<1> HIDE DEF m, c, v
<1>6. IsWith(popped, m, [m.list EXCEPT ![At(m.list, c)] = v], m.active,
             m.dirty \cup {c}, m.structure)
  BY <1>1, <1>4, <1>5, ChangedIs
<1>7. IsMemory(popped) /\ SameRest(popped, m) /\ popped.active \in Ids(popped.list)
  <2>1. Ids([m.list EXCEPT ![At(m.list, c)] = v]) = Ids(m.list)
    BY <1>1, <1>4, <1>5, MemoryIs, ReplacedIs
  <2> QED BY <1>1, <1>6, <2>1 DEF IsWith, c
<1> HIDE DEF popped
<1>8. /\ IsFile(s.d) /\ IsMemory(s.m) /\ SameRest(s.m, popped) /\ s.m.active \in Ids(s.m.list)
  BY <1>2, <1>4, <1>7, FileAt, SavedType
<1>9. IsMemory(AddPending(s.m)) /\ AddPending(s.m).up = s.m.up /\ AddPending(s.m).path = s.m.path
      /\ AddPending(s.m).cleanUps = s.m.cleanUps
  BY <1>8, AddPendingIs
<1>10. IsFile(t.d) /\ IsMemory(t.m) /\ SameRest(t.m, AddPending(s.m))
  BY <1>3, <1>8, <1>9, SavedType
<1>11. IsValid(t.m)
  BY <1>4, <1>7, <1>8, <1>9, <1>10 DEF IsValid, SameRest
<1>12. FilesTyped' /\ MemoryTyped'
  BY <1>3, <1>4, <1>10, <1>11, LeavesTyped
<1>13. deleted' \in SUBSET (Project \X Chat)
  BY <1>1, <1>4 DEF Types
<1> QED BY <1>1, <1>12, <1>13, ActTyped DEF Types

LEMMA NewChatTyped ==
    ASSUME Types, NEW i \in Program, NewChat(i)
    PROVE  Types'
<1> DEFINE m == mem[i]
           v == NewConversation
<1>1. Act /\ m.up /\ Free # {} /\ UNCHANGED deleted /\ Saves(i, Register(m, v))
  BY DEF NewChat
<1>2. IsValid(m) /\ IsMemory(m) /\ m.path \in Project
  BY <1>1, MemoryAt, OpenPath
<1>3. v \in Conversation /\ v.id \notin Ids(m.list)
  BY <1>1, NewIs
<1> HIDE DEF m, v
<1>4. IsWith(Register(m, v), m, Append(m.list, v), v.id, m.dirty \cup {v.id}, m.structure)
  BY <1>2, <1>3, RegisterIs
<1>5. IsValid(Register(m, v)) /\ Register(m, v).path \in Project
  BY <1>2, <1>4, ValidIs DEF IsWith, SameRest
<1>6. FilesTyped' /\ MemoryTyped'
  BY <1>1, <1>5, SavesTyped
<1> QED BY <1>1, <1>6, ActTyped DEF Types

LEMMA SelectedIs ==
    ASSUME NEW m, IsMemory(m), NEW c \in Ids(m.list)
    PROVE  IsWith([m EXCEPT !.active = c], m, m.list, c, m.dirty, m.structure)
<1>1. m \in Memory /\ IsList(m.list) /\ c \in Chat
  BY MemoryIs, EntriesAre DEF IsMemory
<1> DEFINE w == [m EXCEPT !.active = c]
<1>2. w \in Memory
  BY <1>1 DEF Memory
<1>3. /\ w.list = m.list /\ w.active = c /\ w.dirty = m.dirty /\ w.structure = m.structure
      /\ SameRest(w, m)
  BY <1>1 DEF Memory, SameRest
<1> HIDE DEF w
<1>4. IsWith(w, m, m.list, c, m.dirty, m.structure)
  BY <1>1, <1>2, <1>3 DEF IsWith, IsMemory, IsList
<1> QED BY <1>4 DEF w

LEMMA MarkedActive ==
    ASSUME NEW d, IsFile(d), NEW c \in Chat
    PROVE  IsFile([d EXCEPT !.exists = TRUE, !.active = c])
<1>1. d \in Files
  BY DEF IsFile
<1> QED BY <1>1 DEF IsFile, Files

LEMMA SelectChatTyped ==
    ASSUME Types, NEW i \in Program, NEW c \in Chat, SelectChat(i, c)
    PROVE  Types'
<1> DEFINE m == [mem[i] EXCEPT !.active = c]
           d == db[m.path]
           e == [d EXCEPT !.exists = TRUE, !.active = c]
<1>1. mem[i].up /\ UNCHANGED deleted /\ Act
  BY DEF SelectChat
<1>2. IsValid(mem[i]) /\ IsMemory(mem[i]) /\ mem[i].path \in Project
  BY <1>1, MemoryAt, OpenPath
<1>3. c \in Ids(mem[i].list)
  BY <1>2 DEF SelectChat, IsMemory, Memory
<1>4. IsWith(m, mem[i], mem[i].list, c, mem[i].dirty, mem[i].structure)
  BY <1>2, <1>3, SelectedIs
<1>5. IsValid(m) /\ m.path \in Project
  BY <1>2, <1>4, ValidIs DEF IsWith, SameRest
<1>6. Leaves(i, m.path, d, m) \/ Leaves(i, m.path, e, m)
  BY DEF SelectChat
<1>7. IsFile(d) /\ IsFile(e)
  <2> HIDE DEF m
  <2>1. IsFile(d)
    BY <1>5, FileAt
  <2> HIDE DEF d
  <2> QED BY <2>1, MarkedActive
<1> HIDE DEF m, d, e
<1>8. FilesTyped' /\ MemoryTyped'
  BY <1>5, <1>6, <1>7, LeavesTyped
<1> QED BY <1>1, <1>8, ActTyped DEF Types

\* The list and the file when conversations are deleted.
Removed(m, gone, active) == With(m, Without(m.list, gone), active, m.dirty, TRUE)
Anew(m) == With(m, m.list, m.active, m.dirty \cup Ids(m.list), TRUE)

LEMMA AnewIs ==
    ASSUME NEW m, IsMemory(m)
    PROVE  IsWith(Anew(m), m, m.list, m.active, m.dirty \cup Ids(m.list), TRUE)
<1> DEFINE dirty == m.dirty \cup Ids(m.list)
<1>1. IsList(m.list) /\ m.active \in Ids(m.list) \cup {None} /\ TRUE \in BOOLEAN
  BY MemoryIs
<1>2. dirty \in SUBSET Chat
  BY <1>1, MemoryIs, ListIs
<1>3. Anew(m) = With(m, m.list, m.active, dirty, TRUE)
  BY DEF Anew
<1> HIDE DEF dirty
<1>4. IsWith(With(m, m.list, m.active, dirty, TRUE), m, m.list, m.active, dirty, TRUE)
  BY <1>1, <1>2, WithIs
<1> QED BY <1>3, <1>4 DEF dirty

DeletesVia(i, gone, active, s) ==
    LET m == mem[i] IN
    /\ IsWith(Removed(m, gone, active), m, Without(m.list, gone), active, m.dirty, TRUE)
    /\ s \in Save(db[m.path], Removed(m, gone, active))
    /\ \/ Leaves(i, m.path, s.d, s.m)
       \/ \E t \in Save(s.d, Anew(s.m)) : Leaves(i, m.path, t.d, t.m)

LEMMA DeletesAre ==
    ASSUME Types, NEW i \in Program, NEW gone, DeleteChats(i, gone)
    PROVE  \E active, s : DeletesVia(i, gone, active, s)
<1> DEFINE m == mem[i]
           left == Without(m.list, gone)
           first == Smallest({k \in DOMAIN m.list : m.list[k].id \in gone})
           fallback == IF left = <<>> THEN None
                       ELSE left[IF first <= Len(left) THEN first ELSE Len(left)].id
           active == IF m.active \in Ids(left) THEN m.active ELSE fallback
           removed == [m EXCEPT !.list = left, !.structure = TRUE,
                                !.active = IF @ \in Ids(left) THEN @ ELSE fallback]
<1>1. IsMemory(m) /\ m \in Memory
  BY MemoryAt DEF IsMemory
<1>2. removed = Removed(m, gone, active)
  <2> HIDE DEF m, left, fallback
  <2> QED BY <1>1 DEF Removed, With, Memory, left, active
<1>3. gone # {} /\ gone \subseteq Ids(m.list)
  BY DEF DeleteChats
<1>4. PICK s \in Save(db[m.path], removed) :
         \/ Leaves(i, m.path, s.d, s.m)
         \/ \E t \in Save(s.d, [s.m EXCEPT !.structure = TRUE, !.dirty = @ \cup Ids(s.m.list)]) :
               Leaves(i, m.path, t.d, t.m)
  BY ZenonT(30) DEF DeleteChats
<1>5. IsList(m.list) /\ IsList(left)
  BY <1>1, MemoryIs, WithoutIs
<1>6. left # <<>> => first \in 1..Len(m.list)
  <2> DEFINE K == {k \in DOMAIN m.list : m.list[k].id \in gone}
  <2>1. K # {} /\ K \in SUBSET (1..Len(m.list)) /\ Len(m.list) \in Nat
    BY <1>3, <1>5, ListIs DEF Ids
  <2> HIDE DEF K
  <2>2. Smallest(K) \in K
    BY <2>1, SmallestIs
  <2> QED BY <2>1, <2>2 DEF K
<1>7. active \in Ids(left) \cup {None}
  <2> HIDE DEF left, first, m
  <2>1. CASE left = <<>> \/ m.active \in Ids(left)
    BY <2>1
  <2>2. CASE left # <<>> /\ m.active \notin Ids(left)
    <3>1. DOMAIN left = 1..Len(left) /\ Len(left) \in Nat /\ Len(left) # 0
      BY <1>5, <2>2, ListIs DEF IsList
    <3>2. first \in Nat /\ first >= 1
      BY <1>5, <1>6, <2>2, ListIs
    <3> DEFINE k == IF first <= Len(left) THEN first ELSE Len(left)
    <3>3. k \in DOMAIN left
      BY <3>1, <3>2
    <3>4. active = left[k].id
      BY <2>2
    <3> HIDE DEF k, active
    <3> QED BY <3>3, <3>4 DEF Ids
  <2> QED BY <2>1, <2>2
<1> HIDE DEF active, removed
<1>8. IsWith(Removed(m, gone, active), m, left, active, m.dirty, TRUE)
  <2>1. m.dirty \in SUBSET Chat /\ TRUE \in BOOLEAN
    BY <1>1, MemoryIs
  <2>2. Removed(m, gone, active) = With(m, left, active, m.dirty, TRUE)
    BY DEF Removed
  <2> HIDE DEF left, m
  <2>3. IsWith(With(m, left, active, m.dirty, TRUE), m, left, active, m.dirty, TRUE)
    BY <1>1, <1>5, <1>7, <2>1, WithIs
  <2> QED BY <2>2, <2>3
<1>9. IsMemory(s.m)
  <2>1. IsMemory(removed)
    BY <1>2, <1>8 DEF IsWith
  <2> QED BY <1>4, <2>1, SavedMemory
<1>10. [s.m EXCEPT !.structure = TRUE, !.dirty = @ \cup Ids(s.m.list)] = Anew(s.m)
  BY <1>9 DEF Anew, With, IsMemory, Memory
<1>11. DeletesVia(i, gone, active, s)
  BY <1>2, <1>4, <1>8, <1>10 DEF DeletesVia
<1> QED BY <1>11

LEMMA DeleteChatsTyped ==
    ASSUME Types, NEW i \in Program, NEW gone \in SUBSET Chat, DeleteChats(i, gone)
    PROVE  Types'
<1> DEFINE m == mem[i]
<1>1. Act /\ m.up /\ deleted' = deleted \cup ({m.path} \X gone)
  BY DEF DeleteChats
<1>2. IsValid(m) /\ IsMemory(m) /\ m.path \in Project
  BY <1>1, MemoryAt, OpenPath
<1>3. PICK active, s : DeletesVia(i, gone, active, s)
  BY DeletesAre
<1> DEFINE removed == Removed(m, gone, active)
<1>4. /\ IsWith(removed, m, Without(m.list, gone), active, m.dirty, TRUE)
      /\ s \in Save(db[m.path], removed)
      /\ \/ Leaves(i, m.path, s.d, s.m)
         \/ \E t \in Save(s.d, Anew(s.m)) : Leaves(i, m.path, t.d, t.m)
  BY <1>3 DEF DeletesVia
<1> HIDE DEF m, removed
<1>5. IsMemory(removed) /\ SameRest(removed, m)
  BY <1>4 DEF IsWith
<1>6. IsFile(s.d) /\ IsMemory(s.m) /\ SameRest(s.m, removed)
  BY <1>2, <1>4, <1>5, FileAt, SavedType
<1>7. FilesTyped' /\ MemoryTyped'
  <2>1. CASE Leaves(i, m.path, s.d, s.m)
    <3>1. IsValid(s.m)
      BY <1>2, <1>5, <1>6, ValidIs DEF SameRest
    <3> QED BY <1>2, <1>6, <2>1, <3>1, LeavesTyped
  <2>2. ASSUME NEW t \in Save(s.d, Anew(s.m)), Leaves(i, m.path, t.d, t.m)
        PROVE  FilesTyped' /\ MemoryTyped'
    <3> DEFINE w == Anew(s.m)
    <3>1. IsMemory(w) /\ SameRest(w, s.m)
      BY <1>6, AnewIs DEF IsWith
    <3> HIDE DEF w
    <3>2. IsFile(t.d) /\ IsMemory(t.m) /\ SameRest(t.m, w)
      <4>1. t \in Save(s.d, w)
        BY <2>2 DEF w
      <4> QED BY <1>6, <3>1, <4>1, SavedType
    <3>3. IsValid(t.m)
      BY <1>2, <1>5, <1>6, <3>1, <3>2, ValidIs DEF SameRest
    <3> QED BY <1>2, <2>2, <3>2, <3>3, LeavesTyped
  <2> QED BY <1>4, <2>1, <2>2
<1>8. deleted' \in SUBSET (Project \X Chat)
  <2>1. {m.path} \X gone \in SUBSET (Project \X Chat)
    BY <1>2
  <2> QED BY <1>1, <2>1 DEF Types
<1> QED BY <1>1, <1>7, <1>8, ActTyped DEF Types

LEMMA CleanUpTyped ==
    ASSUME Types, NEW i \in Program, CleanUp(i)
    PROVE  Types'
<1> DEFINE m == [mem[i] EXCEPT !.cleanUps = @ - 1]
<1>1. mem[i].up /\ mem[i].cleanUps > 0 /\ UNCHANGED <<db, deleted, acts>>
  BY DEF CleanUp
<1>2. PICK failed \in Unread(Ids(m.list)) :
         mem' = [mem EXCEPT ![i] = Prune(m, Missing(db[m.path], m.list, failed), TRUE)]
  BY DEF CleanUp
<1>3. IsValid(mem[i]) /\ IsMemory(mem[i])
  BY MemoryAt
<1>4. IsMemory(m) /\ IsValid(m)
  <2>1. mem[i] \in Memory /\ mem[i].cleanUps - 1 \in 0..MaxCleanUps /\ mem[i].cleanUps - 1 \in Nat
    BY <1>1, <1>3, ChatHistoryAssumption DEF IsMemory, IsValid
  <2>2. m \in Memory
    BY <2>1 DEF Memory
  <2>3. /\ m.list = mem[i].list /\ m.active = mem[i].active /\ m.up = mem[i].up
        /\ m.path = mem[i].path /\ m.cleanUps = mem[i].cleanUps - 1
    BY <2>1 DEF Memory
  <2>4. IsMemory(m)
    BY <1>3, <2>2, <2>3 DEF IsMemory
  <2> HIDE DEF m
  <2> QED BY <1>1, <1>3, <2>1, <2>3, <2>4 DEF IsValid
<1> DEFINE missing == Missing(db[m.path], m.list, failed)
           w == Prune(m, missing, TRUE)
<1> HIDE DEF m
<1>5. missing \in SUBSET Ids(m.list) /\ TRUE \in BOOLEAN
  BY DEF Missing
<1>6. mem' = [mem EXCEPT ![i] = w]
  BY <1>2
<1> HIDE DEF missing
<1>7. IsMemory(w) /\ SameRest(w, m)
  BY <1>4, <1>5, PruneType
<1> HIDE DEF w
<1>8. IsValid(w) /\ w \in Memory
  BY <1>4, <1>7, ValidIs DEF IsMemory
<1>9. MemoryTyped'
  BY <1>6, <1>8 DEF Types, MemoryTyped
<1> QED BY <1>1, <1>9 DEF Types, FilesTyped

\* The two ways of SwitchProject, and the one that ends with nothing changed.
LEMMA SwitchesVia ==
    ASSUME NEW i \in Program, NEW p \in Project, SwitchProject(i, p)
    PROVE  \/ \E s \in Opened(db[p], mem[i], p) : Leaves(i, p, s.d, s.m)
           \/ \E read \in Succeeds("read") :
                 /\ TakesAlong(mem[i], p, read)
                 /\ \E s \in Opened(Synced(db[p], mem[i], Ids(mem[i].list), FALSE), mem[i], p) :
                       Leaves(i, p, s.d, s.m)
           \/ UNCHANGED <<db, mem>>
BY DEF SwitchProject

LEMMA SwitchProjectTyped ==
    ASSUME Types, NEW i \in Program, NEW p \in Project, SwitchProject(i, p)
    PROVE  Types'
<1> DEFINE m == mem[i]
           copy == Synced(db[p], m, Ids(m.list), FALSE)
<1>1. Act /\ m.up /\ Free # {} /\ m.cleanUps < MaxCleanUps /\ UNCHANGED deleted
  BY DEF SwitchProject
<1>2. IsValid(m) /\ IsMemory(m) /\ IsFile(db[p])
  BY MemoryAt, FileAt
<1>3. NewConversation.id \notin DOMAIN db[p].rows /\ NewConversation.id \notin Ids(m.list)
  BY <1>1, NewIs
<1>4. IsFile(copy) /\ DOMAIN copy.rows = Ids(m.list)
  <2>1. IsSynced(copy, db[p], m, Ids(m.list), FALSE)
    BY <1>2, SyncedIs
  <2> QED BY <2>1 DEF IsSynced
<1>5. \/ \E s \in Opened(db[p], m, p) : Leaves(i, p, s.d, s.m)
      \/ \E s \in Opened(copy, m, p) : Leaves(i, p, s.d, s.m)
      \/ UNCHANGED <<db, mem>>
  BY SwitchesVia
<1> HIDE DEF m, copy
<1>6. ASSUME NEW s, IsOpened(s, m, p), Leaves(i, p, s.d, s.m)
      PROVE  FilesTyped' /\ MemoryTyped'
  <2>1. s.m.cleanUps \in 0..MaxCleanUps
    BY <1>1, <1>2, <1>6, ChatHistoryAssumption DEF IsOpened, IsValid
  <2>2. IsValid(s.m)
    BY <1>6, <2>1, ChatHistoryAssumption DEF IsValid, IsOpened
  <2> QED BY <1>6, <2>2, LeavesTyped DEF IsOpened
<1>7. FilesTyped' /\ MemoryTyped'
  <2>1. ASSUME NEW s \in Opened(db[p], m, p), Leaves(i, p, s.d, s.m)
        PROVE  FilesTyped' /\ MemoryTyped'
    <3>1. IsOpened(s, m, p)
      BY <1>1, <1>2, <1>3, <2>1, OpenedType
    <3> QED BY <1>6, <2>1, <3>1
  <2>2. ASSUME NEW s \in Opened(copy, m, p), Leaves(i, p, s.d, s.m)
        PROVE  FilesTyped' /\ MemoryTyped'
    <3>1. IsOpened(s, m, p)
      BY <1>1, <1>2, <1>3, <1>4, <2>2, OpenedType
    <3> QED BY <1>6, <2>2, <3>1
  <2>3. CASE UNCHANGED <<db, mem>>
    BY <2>3 DEF Types, FilesTyped, MemoryTyped
  <2> QED BY <1>5, <2>1, <2>2, <2>3
<1> QED BY <1>1, <1>7, ActTyped DEF Types

LEMMA TypesStep == Types /\ [Next]_vars => Types'
<1> SUFFICES ASSUME Types, [Next]_vars PROVE Types'
  OBVIOUS
<1>1. CASE UNCHANGED vars
  BY <1>1 DEF vars, Types, FilesTyped, MemoryTyped
<1>2. ASSUME NEW i \in Program, NEW p \in Project, Launch(i, p) \/ SwitchProject(i, p)
      PROVE  Types'
  BY <1>2, LaunchTyped, SwitchProjectTyped
<1>3. ASSUME NEW i \in Program,
             Exit(i) \/ Send(i) \/ Answer(i) \/ Regenerate(i) \/ NewChat(i) \/ CleanUp(i)
      PROVE  Types'
  BY <1>3, ExitTyped, SendTyped, AnswerTyped, RegenerateTyped, NewChatTyped, CleanUpTyped
<1>4. ASSUME NEW i \in Program, NEW c \in Chat, SelectChat(i, c) PROVE Types'
  BY <1>4, SelectChatTyped
<1>5. ASSUME NEW i \in Program, NEW gone \in SUBSET Chat, DeleteChats(i, gone) PROVE Types'
  BY <1>5, DeleteChatsTyped
<1> QED BY <1>1, <1>2, <1>3, <1>4, <1>5 DEF Next

LEMMA DistinctCount ==
    ASSUME NEW list, IsList(list)
    PROVE  Cardinality(Ids(list)) = Len(list)
<1> DEFINE n == Len(list)
           f == [k \in 1..n |-> list[k].id]
<1>1. DOMAIN list = 1..n /\ n \in Nat
  BY ListIs
<1>2. f \in [1..n -> Ids(list)]
  BY <1>1 DEF Ids
<1>3. \A j, k \in 1..n : f[j] = f[k] => j = k
  BY <1>1 DEF IsList, Distinct
<1>4. \A c \in Ids(list) : \E k \in 1..n : f[k] = c
  BY <1>1 DEF Ids
<1> HIDE DEF f, n
<1>5. f \in Bijection(1..n, Ids(list))
  BY <1>2, <1>3, <1>4 DEF Bijection, Injection, Surjection, IsInjective
<1>6. IsFiniteSet(1..n) /\ Cardinality(1..n) = n
  <2>1. 1 \in Int /\ n \in Int /\ 1 <= n + 1
    BY <1>1
  <2>2. IsFiniteSet(1..n) /\ Cardinality(1..n) = IF 1 > n THEN 0 ELSE n - 1 + 1
    BY <2>1, FS_Interval
  <2> QED BY <1>1, <2>2
<1>7. Cardinality(Ids(list)) = Cardinality(1..n)
  BY <1>5, <1>6, FS_Bijection DEF ExistsBijection
<1> QED BY <1>6, <1>7 DEF n

LEMMA TypesImply == Types => TypeOK
<1> SUFFICES ASSUME Types PROVE TypeOK
  OBVIOUS
<1>1. ASSUME NEW p \in Project
      PROVE  /\ db[p].exists \in BOOLEAN /\ db[p].active \in Chat \cup {None}
             /\ DOMAIN db[p].rows \subseteq Chat
             /\ \A c \in DOMAIN db[p].rows : db[p].rows[c] \in Row
             /\ ~db[p].exists => db[p] = NoFile
  <2>1. IsFile(db[p]) /\ db[p].rows \in Rows
    BY FileAt DEF IsFile, Files
  <2> QED BY <2>1, RowsAre DEF IsFile, Files
<1>2. ASSUME NEW i \in Program
      PROVE  /\ mem[i].up \in BOOLEAN /\ mem[i].path \in Project \cup {None}
             /\ mem[i].up = (mem[i].path # None)
             /\ mem[i].list \in Seq(Conversation)
             /\ Cardinality(Ids(mem[i].list)) = Len(mem[i].list)
             /\ mem[i].active \in Ids(mem[i].list) \cup {None}
             /\ mem[i].dirty \subseteq Chat /\ mem[i].structure \in BOOLEAN
             /\ mem[i].cleanUps \in 0..MaxCleanUps
             /\ mem[i].run \in Chat \cup {None} /\ mem[i].attached \in BOOLEAN
  <2>1. IsValid(mem[i]) /\ IsMemory(mem[i]) /\ IsList(mem[i].list)
    BY MemoryAt, MemoryIs
  <2>2. Cardinality(Ids(mem[i].list)) = Len(mem[i].list)
    BY <2>1, DistinctCount
  <2> QED BY <2>1, <2>2, MemoryIs DEF IsValid, IsList
<1>3. deleted \subseteq Project \X Chat /\ acts \in 0..MaxActs
  BY DEF Types
<1> QED BY <1>1, <1>2, <1>3 DEF TypeOK

\* The lists and the files stay well formed (history.py, history_store.py): no two
\* conversations of a list are the same, the active one is on the list, whatever is
\* registered, pruned, deleted, copied and reloaded, by any number of programs on
\* the same files, and whatever call of the database fails.
THEOREM HistoryTypeCorrect == Spec => []TypeOK
<1> QED BY TypesInit, TypesStep, TypesImply, PTL DEF Spec

-------------------------------------------------------------------------------
(* One program that can read its files                                         *)
(*                                                                             *)
(* What the list and the file owe each other: what is not marked dirty reads   *)
(* the same, the positions agree unless the structure is dirty, and what the   *)
(* file holds is on the list in a later version, or lost on purpose.           *)

Extends(new, old) ==
    /\ Len(new) >= Len(old)
    /\ \A k \in DOMAIN old : old[k] = "answered" => new[k] = "answered"

Marked(d, m) ==
    \A c \in Ids(m.list) : c \notin m.dirty =>
        IF c \in DOMAIN d.rows
        THEN d.rows[c].entries = Entries(m, c) /\ d.rows[c].titled = Titled(m, c)
        ELSE Entries(m, c) = <<>>
Positioned(d, m) ==
    ~m.structure => \A c \in DOMAIN d.rows : c \in Ids(m.list) /\ d.rows[c].pos = At(m.list, c)
Kept(d, m, lost) ==
    \A c \in DOMAIN d.rows :
        \/ c \in lost \/ d.rows[c].entries = <<>>
        \/ c \in Ids(m.list) /\ Extends(Entries(m, c), d.rows[c].entries)
Coherent(d, m, lost) == Marked(d, m) /\ Positioned(d, m) /\ Kept(d, m, lost)

\* The positions in a file are 1, 2, ... in some order.
Positions(rows) == {rows[c].pos : c \in DOMAIN rows}
Dense(d) == Positions(d.rows) = 1..Cardinality(DOMAIN d.rows)

\* A file after a save and before.
StoredIn(new, old, lost) ==
    \A c \in DOMAIN old.rows :
        \/ c \in lost \/ old.rows[c].entries = <<>>
        \/ c \in DOMAIN new.rows /\ Extends(new.rows[c].entries, old.rows[c].entries)

Recorded == Seq({"working", "answered"})

LEMMA ExtendsIs ==
    ASSUME NEW a \in Recorded, NEW b \in Recorded, NEW c \in Recorded
    PROVE  /\ Extends(a, a)
           /\ Extends(b, a) /\ Extends(c, b) => Extends(c, a)
           /\ b = <<>> /\ Extends(b, a) => a = <<>>
           /\ a # <<>> /\ Extends(b, a) => b # <<>>
<1>1. /\ Len(a) \in Nat /\ DOMAIN a = 1..Len(a) /\ Len(b) \in Nat /\ DOMAIN b = 1..Len(b)
      /\ Len(c) \in Nat
  BY DEF Recorded
<1>2. Extends(a, a)
  BY <1>1 DEF Extends
<1>3. Extends(b, a) /\ Extends(c, b) => Extends(c, a)
  BY <1>1 DEF Extends
<1>4. b = <<>> /\ Extends(b, a) => a = <<>>
  <2>1. Len(<<>>) = 0
    OBVIOUS
  <2>2. Len(a) = 0 => a = <<>>
    BY DEF Recorded
  <2> QED BY <1>1, <2>1, <2>2 DEF Extends
<1> QED BY <1>2, <1>3, <1>4

\* What a handler may do to the list before it is saved: w for m.
Edit(d, m, w, lost) ==
    /\ \A c \in Ids(w.list) : c \notin w.dirty =>
          \/ /\ c \in Ids(m.list) /\ c \notin m.dirty
             /\ Entries(w, c) = Entries(m, c) /\ Titled(w, c) = Titled(m, c)
          \/ c \notin DOMAIN d.rows /\ Entries(w, c) = <<>>
    /\ ~w.structure =>
          /\ ~m.structure
          /\ \A c \in Ids(m.list) : c \in Ids(w.list) /\ At(w.list, c) = At(m.list, c)
    /\ \A c \in Ids(m.list) :
          \/ c \in lost \/ Entries(m, c) = <<>>
          \/ c \in DOMAIN d.rows => d.rows[c].entries = <<>>
          \/ c \in Ids(w.list) /\ Extends(Entries(w, c), Entries(m, c))

LEMMA EditCoherent ==
    ASSUME NEW d, IsFile(d), NEW m, IsMemory(m), NEW w, IsMemory(w),
           NEW before, NEW lost, before \subseteq lost,
           Coherent(d, m, before), Edit(d, m, w, lost)
    PROVE  Coherent(d, w, lost)
<1>1. Marked(d, w)
  BY DEF Coherent, Marked, Edit
<1>2. Positioned(d, w)
  BY DEF Coherent, Positioned, Edit
<1>3. Kept(d, w, lost)
  <2> SUFFICES ASSUME NEW c \in DOMAIN d.rows, c \notin lost, d.rows[c].entries # <<>>
               PROVE  c \in Ids(w.list) /\ Extends(Entries(w, c), d.rows[c].entries)
    BY DEF Kept
  <2>1. c \in Ids(m.list) /\ Extends(Entries(m, c), d.rows[c].entries)
    BY DEF Coherent, Kept
  <2>2. d.rows[c].entries \in Recorded /\ Entries(m, c) \in Recorded
    BY <2>1, RowsAre, EntriesAre DEF IsFile, Files, Recorded
  <2>3. Entries(m, c) # <<>>
    BY <2>1, <2>2, ExtendsIs
  <2>4. c \in Ids(w.list) /\ Extends(Entries(w, c), Entries(m, c))
    BY <2>1, <2>3 DEF Edit
  <2>5. Entries(w, c) \in Recorded
    BY <2>4, EntriesAre DEF Recorded
  <2> QED BY <2>1, <2>2, <2>4, <2>5, ExtendsIs
<1> QED BY <1>1, <1>2, <1>3 DEF Coherent

\* Marks alone change nothing that is owed.
LEMMA RemarkedEdit ==
    ASSUME NEW d, NEW m, IsMemory(m), NEW w, w.list = m.list, m.dirty \subseteq w.dirty,
           w.structure = m.structure \/ w.structure = TRUE, NEW lost
    PROVE  Edit(d, m, w, lost)
<1>1. \A c : Entries(w, c) = Entries(m, c) /\ Titled(w, c) = Titled(m, c)
  BY DEF Entries, Titled
<1>2. \A c \in Ids(m.list) : Extends(Entries(m, c), Entries(m, c))
  BY EntriesAre, ExtendsIs DEF Recorded
<1> QED BY <1>1, <1>2 DEF Edit

LEMMA RegisteredEdit ==
    ASSUME NEW d, NEW m, IsMemory(m), NEW v \in Conversation, v.id \notin Ids(m.list),
           v.id \notin DOMAIN d.rows, v.entries = <<>>,
           NEW w, w.list = Append(m.list, v), m.dirty \subseteq w.dirty,
           w.structure = m.structure, w.dirty \subseteq m.dirty \cup {v.id}, NEW lost
    PROVE  Edit(d, m, w, lost)
<1>1. IsList(m.list)
  BY MemoryIs
<1>2. /\ Ids(w.list) = Ids(m.list) \cup {v.id}
      /\ \A c \in Ids(m.list) : At(w.list, c) = At(m.list, c)
                                /\ w.list[At(m.list, c)] = m.list[At(m.list, c)]
      /\ w.list[At(w.list, v.id)] = v
  <2> DEFINE list == m.list
             new == Append(list, v)
  <2>1. IsList(list) /\ v.id \notin Ids(list) /\ w.list = new
    BY <1>1
  <2> HIDE DEF list
  <2>2. Ids(new) = Ids(list) \cup {v.id}
    BY <2>1, AppendedIs
  <2>3. \A c \in Ids(list) : At(new, c) = At(list, c) /\ new[At(list, c)] = list[At(list, c)]
    BY <2>1, AppendedIs
  <2>4. new[At(new, v.id)] = v
    BY <2>1, AppendedIs
  <2> HIDE DEF new
  <2> QED BY <2>1, <2>2, <2>3, <2>4 DEF list
<1>3. Entries(w, v.id) = <<>>
  BY <1>2 DEF Entries
<1>4. \A c \in Ids(m.list) : Entries(w, c) = Entries(m, c) /\ Titled(w, c) = Titled(m, c)
  BY <1>2 DEF Entries, Titled
<1>5. \A c \in Ids(m.list) : Extends(Entries(m, c), Entries(m, c))
  BY EntriesAre, ExtendsIs DEF Recorded
<1> QED BY <1>2, <1>3, <1>4, <1>5 DEF Edit

LEMMA ChangedEdit ==
    ASSUME NEW d, NEW m, IsMemory(m), NEW c \in Ids(m.list), NEW v \in Conversation, v.id = c,
           NEW lost, c \in lost \/ Extends(v.entries, Entries(m, c)),
           NEW w, w.list = [m.list EXCEPT ![At(m.list, c)] = v], w.dirty = m.dirty \cup {c},
           w.structure = m.structure
    PROVE  Edit(d, m, w, lost)
<1>1. IsList(m.list) /\ Distinct(m.list)
  BY MemoryIs DEF IsList
<1>2. /\ Ids(w.list) = Ids(m.list)
      /\ \A e \in Ids(m.list) : At(w.list, e) = At(m.list, e)
      /\ w.list[At(m.list, c)] = v
      /\ \A k \in DOMAIN m.list : k # At(m.list, c) => w.list[k] = m.list[k]
  BY <1>1, ReplacedIs
<1>3. Entries(w, c) = v.entries
  BY <1>2 DEF Entries
<1>4. \A e \in Ids(m.list) \ {c} : Entries(w, e) = Entries(m, e) /\ Titled(w, e) = Titled(m, e)
  <2> SUFFICES ASSUME NEW e \in Ids(m.list), e # c
               PROVE  w.list[At(w.list, e)] = m.list[At(m.list, e)]
    BY DEF Entries, Titled
  <2>1. At(m.list, e) \in DOMAIN m.list /\ At(m.list, e) # At(m.list, c)
    BY <1>1, AtIs
  <2> QED BY <1>2, <2>1
<1>5. \A e \in Ids(m.list) : Extends(Entries(m, e), Entries(m, e))
  BY EntriesAre, ExtendsIs DEF Recorded
<1> QED BY <1>2, <1>3, <1>4, <1>5 DEF Edit

LEMMA WithoutEdit ==
    ASSUME NEW d, NEW m, IsMemory(m), NEW gone, NEW lost, NEW w, w.list = Without(m.list, gone),
           w.dirty = m.dirty, w.structure = TRUE,
           \A c \in gone \cap Ids(m.list) :
              \/ c \in lost \/ Entries(m, c) = <<>>
              \/ c \in DOMAIN d.rows => d.rows[c].entries = <<>>
    PROVE  Edit(d, m, w, lost)
<1>1. IsList(m.list) /\ Distinct(m.list)
  BY MemoryIs DEF IsList
<1>2. /\ IsList(w.list) /\ Ids(w.list) = Ids(m.list) \ gone
      /\ \A n \in DOMAIN w.list : \E k \in DOMAIN m.list : w.list[n] = m.list[k]
  BY <1>1, WithoutIs
<1>3. \A c \in Ids(w.list) : Entries(w, c) = Entries(m, c) /\ Titled(w, c) = Titled(m, c)
  <2> SUFFICES ASSUME NEW c \in Ids(w.list)
               PROVE  w.list[At(w.list, c)] = m.list[At(m.list, c)]
    BY DEF Entries, Titled
  <2>1. At(w.list, c) \in DOMAIN w.list /\ w.list[At(w.list, c)].id = c
    BY <1>2, AtIs DEF IsList
  <2>2. PICK k \in DOMAIN m.list : w.list[At(w.list, c)] = m.list[k]
    BY <1>2, <2>1
  <2>3. At(m.list, m.list[k].id) = k
    BY <1>1, AtIs
  <2> QED BY <2>1, <2>2, <2>3
<1>4. \A e \in Ids(m.list) : Extends(Entries(m, e), Entries(m, e))
  BY EntriesAre, ExtendsIs DEF Recorded
<1> QED BY <1>2, <1>3, <1>4 DEF Edit

\* What pruning may do, the two uses of it.
PruneEdits(d, m, missing, verify, lost) ==
    LET w == Prune(m, missing, verify) IN
    /\ IsMemory(w) /\ SameRest(w, m)
    /\ Edit(d, m, w, lost)

LEMMA PruneEdit ==
    ASSUME NEW d, NEW m, IsMemory(m), NEW missing \in SUBSET Ids(m.list), NEW verify \in BOOLEAN,
           \A c \in missing : c \in DOMAIN d.rows => d.rows[c].entries = <<>>, NEW lost
    PROVE  PruneEdits(d, m, missing, verify, lost)
<1> DEFINE w == Prune(m, missing, verify)
<1>1. IsMemory(w) /\ SameRest(w, m)
  BY PruneType
<1>2. CASE w = m
  <2>1. w.list = m.list /\ m.dirty \subseteq w.dirty /\ w.structure = m.structure
    BY <1>2
  <2> HIDE DEF w
  <2>2. Edit(d, m, w, lost)
    BY <2>1, RemarkedEdit
  <2> QED BY <1>1, <2>2 DEF PruneEdits, w
<1>3. ASSUME NEW gone \in SUBSET Ids(m.list), gone # Ids(m.list), w = Pruned(m, gone),
             \A c \in gone : c \in missing \/ Entries(m, c) = <<>>
      PROVE  PruneEdits(d, m, missing, verify, lost)
  <2> HIDE DEF w
  <2>1. w.list = Without(m.list, gone) /\ w.dirty = m.dirty /\ w.structure = TRUE
    BY <1>3, PrunedIs
  <2>2. \A c \in gone \cap Ids(m.list) :
           \/ c \in lost \/ Entries(m, c) = <<>>
           \/ c \in DOMAIN d.rows => d.rows[c].entries = <<>>
    BY <1>3
  <2>3. Edit(d, m, w, lost)
    BY <2>1, <2>2, WithoutEdit
  <2> QED BY <1>1, <2>3 DEF PruneEdits, w
<1> HIDE DEF w
<1>4. PruneGives(w, m, missing, verify)
  BY PruneIs DEF w
<1> QED BY <1>2, <1>3, <1>4 DEF PruneGives

LEMMA DraftCoherent ==
    ASSUME NEW d, IsFile(d), NEW m, IsMemory(m), NEW v \in Conversation, v.id \notin Ids(m.list),
           v.id \notin DOMAIN d.rows, v.entries = <<>>, NEW lost, Coherent(d, m, lost)
    PROVE  IsMemory(WithDraft(m, v)) /\ Coherent(d, WithDraft(m, v), lost)
<1> DEFINE b == Drafted(m, v)
           none == {}
           w == Prune(b, none, FALSE)
<1>1. /\ IsMemory(b) /\ b.list = Append(m.list, v) /\ b.dirty = m.dirty
      /\ b.structure = m.structure
  BY DraftedIs
<1>2. WithDraft(m, v) = w
  BY DEF WithDraft, Drafted
<1> HIDE DEF b
<1>3. Edit(d, m, b, lost)
  <2>1. m.dirty \subseteq b.dirty /\ b.dirty \subseteq m.dirty \cup {v.id}
    BY <1>1
  <2> QED BY <1>1, <2>1, RegisteredEdit
<1>4. Coherent(d, b, lost)
  BY <1>1, <1>3, EditCoherent
<1>5. none \in SUBSET Ids(b.list) /\ \A c \in none : c \in DOMAIN d.rows => d.rows[c].entries = <<>>
  OBVIOUS
<1>6. FALSE \in BOOLEAN
  OBVIOUS
<1> HIDE DEF none, w
<1>7. PruneEdits(d, b, none, FALSE, lost)
  BY <1>1, <1>5, <1>6, PruneEdit
<1>8. IsMemory(w) /\ Edit(d, b, w, lost)
  BY <1>7 DEF PruneEdits, w
<1>9. Coherent(d, w, lost)
  BY <1>1, <1>4, <1>8, EditCoherent
<1> QED BY <1>2, <1>8, <1>9

\* The positions of a list are 1, 2, ...
LEMMA ListPositions ==
    ASSUME NEW list, IsList(list), NEW rows \in Rows, DOMAIN rows = Ids(list),
           \A c \in Ids(list) : rows[c].pos = At(list, c)
    PROVE  Positions(rows) = 1..Cardinality(DOMAIN rows)
<1>1. Cardinality(DOMAIN rows) = Len(list) /\ DOMAIN list = 1..Len(list)
  BY DistinctCount, ListIs
<1>2. /\ \A c \in Ids(list) : At(list, c) \in DOMAIN list
      /\ \A k \in DOMAIN list : list[k].id \in Ids(list) /\ At(list, list[k].id) = k
  BY AtIs DEF IsList
<1>3. Positions(rows) \subseteq DOMAIN list
  BY <1>2 DEF Positions
<1>4. ASSUME NEW k \in DOMAIN list PROVE k \in Positions(rows)
  <2>1. list[k].id \in DOMAIN rows /\ rows[list[k].id].pos = k
    BY <1>2
  <2> QED BY <2>1 DEF Positions
<1> QED BY <1>1, <1>3, <1>4

LEMMA WrittenIs ==
    ASSUME NEW m, NEW c, NEW entries
    PROVE  /\ Written(m, c, entries).pos = At(m.list, c)
           /\ Written(m, c, entries).titled = Titled(m, c)
           /\ Written(m, c, entries).entries = entries
BY DEF Written

\* A file that was written from the list agrees with it.
LEMMA WrittenCoherent ==
    ASSUME NEW f, IsFile(f), NEW m, IsMemory(m), DOMAIN f.rows = Ids(m.list),
           \A c \in Ids(m.list) : f.rows[c] = Written(m, c, Entries(m, c)),
           NEW w, IsMemory(w), w.list = m.list, NEW lost
    PROVE  Coherent(f, w, lost) /\ Dense(f)
<1>1. \A c \in Ids(m.list) : /\ f.rows[c].pos = At(m.list, c) /\ f.rows[c].titled = Titled(m, c)
                             /\ f.rows[c].entries = Entries(m, c)
  BY WrittenIs
<1>2. \A c : Entries(w, c) = Entries(m, c) /\ Titled(w, c) = Titled(m, c)
  BY DEF Entries, Titled
<1>3. \A c \in Ids(m.list) : Extends(Entries(m, c), Entries(m, c))
  BY EntriesAre, ExtendsIs DEF Recorded
<1>4. Marked(f, w) /\ Positioned(f, w)
  BY <1>1, <1>2 DEF Marked, Positioned
<1>5. Kept(f, w, lost)
  BY <1>1, <1>2, <1>3 DEF Kept
<1>6. Dense(f)
  <2>1. f.rows \in Rows /\ IsList(m.list)
    BY MemoryIs DEF IsFile, Files
  <2> QED BY <1>1, <2>1, ListPositions DEF Dense
<1> QED BY <1>4, <1>5, <1>6 DEF Coherent

LEMMA StoredTwice ==
    ASSUME NEW d, IsFile(d), NEW e, IsFile(e), NEW f, IsFile(f), NEW lost,
           StoredIn(e, d, lost), StoredIn(f, e, lost)
    PROVE  StoredIn(f, d, lost)
<1> SUFFICES ASSUME NEW c \in DOMAIN d.rows, c \notin lost, d.rows[c].entries # <<>>
             PROVE  c \in DOMAIN f.rows /\ Extends(f.rows[c].entries, d.rows[c].entries)
  BY DEF StoredIn
<1>1. c \in DOMAIN e.rows /\ Extends(e.rows[c].entries, d.rows[c].entries)
  BY DEF StoredIn
<1>2. d.rows[c].entries \in Recorded /\ e.rows[c].entries \in Recorded
  BY <1>1, RowsAre DEF IsFile, Files, Recorded
<1>3. e.rows[c].entries # <<>>
  BY <1>1, <1>2, ExtendsIs
<1>4. c \in DOMAIN f.rows /\ Extends(f.rows[c].entries, e.rows[c].entries)
  BY <1>1, <1>3 DEF StoredIn
<1>5. f.rows[c].entries \in Recorded
  BY <1>4, RowsAre DEF IsFile, Files, Recorded
<1> QED BY <1>1, <1>2, <1>4, <1>5, ExtendsIs

SavedRight(s, d, lost) == Coherent(s.d, s.m, lost) /\ Dense(s.d) /\ StoredIn(s.d, d, lost)

LEMMA SavedCoherent ==
    ASSUME NEW d, IsFile(d), NEW m, IsMemory(m), NEW lost, Coherent(d, m, lost), Dense(d),
           NEW s \in Save(d, m)
    PROVE  SavedRight(s, d, lost)
<1>1. \A c \in DOMAIN d.rows : d.rows[c].entries \in Recorded
  BY RowsAre DEF IsFile, Files, Recorded
<1>2. StoredIn(d, d, lost)
  BY <1>1, ExtendsIs DEF StoredIn
<1>3. CASE s.d = d /\ s.m = m
  BY <1>2, <1>3 DEF SavedRight
<1>4. CASE s.d = d /\ s.m = Clean(m) /\ ~d.exists /\ ~HasPersistable(m)
  <2>1. IsWith(s.m, m, m.list, m.active, {}, FALSE)
    BY <1>4, CleanIs
  <2>2. s.m.list = m.list
    BY <2>1 DEF IsWith
  <2>3. DOMAIN d.rows = {}
    BY <1>4, NoFileIs DEF IsFile
  <2>4. \A c \in Ids(m.list) : Entries(s.m, c) = <<>>
    <3>1. \A k \in DOMAIN m.list : m.list[k].entries = <<>>
      BY <1>4 DEF HasPersistable
    <3> QED BY <2>2, <3>1, EntriesAre DEF Entries
  <2>5. Coherent(d, s.m, lost)
    BY <2>2, <2>3, <2>4 DEF Coherent, Marked, Positioned, Kept
  <2> QED BY <1>2, <1>4, <2>5 DEF SavedRight
<1>5. CASE s.d = Synced(d, m, m.dirty, m.structure) /\ s.m = Clean(m)
  <2> DEFINE f == s.d
  <2>1. IsSynced(f, d, m, m.dirty, m.structure)
    BY <1>5, SyncedIs
  <2>2. IsWith(s.m, m, m.list, m.active, {}, FALSE)
    BY <1>5, CleanIs
  <2> HIDE DEF f
  <2>3. IsFile(f) /\ DOMAIN f.rows = Ids(m.list)
    BY <2>1 DEF IsSynced
  <2>4. ASSUME NEW c \in Ids(m.list) PROVE f.rows[c] = Written(m, c, Entries(m, c))
    <3>1. CASE c \notin DOMAIN d.rows \/ c \in m.dirty
      BY <2>1, <3>1 DEF IsSynced
    <3>2. CASE c \in DOMAIN d.rows /\ c \notin m.dirty
      <4>1. d.rows[c].entries = Entries(m, c) /\ d.rows[c].titled = Titled(m, c)
        BY <3>2 DEF Coherent, Marked
      <4>2. CASE m.structure
        BY <2>1, <3>2, <4>1, <4>2 DEF IsSynced
      <4>3. CASE ~m.structure
        <5>1. f.rows[c] = d.rows[c] /\ d.rows[c].pos = At(m.list, c)
          BY <2>1, <3>2, <4>3 DEF IsSynced, Coherent, Positioned
        <5>2. d.rows[c] \in Row
          BY <3>2, RowsAre DEF IsFile, Files
        <5>3. d.rows[c] = [pos |-> d.rows[c].pos, titled |-> d.rows[c].titled,
                           entries |-> d.rows[c].entries]
          BY <5>2 DEF Row
        <5> QED BY <4>1, <5>1, <5>3 DEF Written
      <4> QED BY <4>2, <4>3
    <3> QED BY <3>1, <3>2
  <2>5. IsMemory(s.m) /\ s.m.list = m.list
    BY <2>2 DEF IsWith
  <2>6. Coherent(f, s.m, lost) /\ Dense(f)
    <3> DEFINE w == s.m
    <3>1. IsMemory(w) /\ w.list = m.list
      BY <2>5
    <3> HIDE DEF w
    <3>2. Coherent(f, w, lost) /\ Dense(f)
      BY <2>3, <2>4, <3>1, WrittenCoherent
    <3> QED BY <3>2 DEF w
  <2>7. StoredIn(f, d, lost)
    <3> SUFFICES ASSUME NEW c \in DOMAIN d.rows, c \notin lost, d.rows[c].entries # <<>>
                 PROVE  c \in DOMAIN f.rows /\ Extends(f.rows[c].entries, d.rows[c].entries)
      BY DEF StoredIn
    <3>1. c \in Ids(m.list) /\ Extends(Entries(m, c), d.rows[c].entries)
      BY DEF Coherent, Kept
    <3>2. f.rows[c].entries = Entries(m, c)
      BY <2>4, <3>1, WrittenIs
    <3> QED BY <2>3, <3>1, <3>2
  <2> QED BY <2>6, <2>7 DEF SavedRight, f
<1> QED BY <1>3, <1>4, <1>5, SaveIs

\* In a file whose positions are 1, 2, ... a position is a rank.
LEMMA PositionIsRank ==
    ASSUME NEW d, IsFile(d), Dense(d)
    PROVE  \A c \in DOMAIN d.rows : d.rows[c].pos = Rank(d.rows, c)
<1> DEFINE rows == d.rows
           S == DOMAIN rows
           n == Cardinality(S)
           pos == [c \in S |-> rows[c].pos]
<1>1. rows \in Rows
  BY DEF IsFile, Files
<1>2. IsFiniteSet(S) /\ n \in Nat /\ \A c \in S : c \in Nat /\ rows[c].pos \in Nat
  <2>1. S \in SUBSET (1..MaxChats) /\ MaxChats \in Nat
    BY <1>1, RowsAre, ChatHistoryAssumption DEF Chat
  <2>2. \A c \in S : rows[c].pos \in Nat
    BY <1>1, RowsAre
  <2> HIDE DEF S
  <2>3. IsFiniteSet(S)
    BY <2>1, FiniteNumbers
  <2> QED BY <2>1, <2>2, <2>3, FS_CardinalityType DEF n
<1>3. /\ \A c \in S : rows[c].pos \in 1..n
      /\ \A k \in 1..n : \E c \in S : rows[c].pos = k
  BY DEF Dense, Positions
<1>4. \A c, e \in S : rows[c].pos = rows[e].pos => c = e
  <2>1. pos \in Surjection(S, 1..n)
    BY <1>3 DEF Surjection
  <2>2. IsFiniteSet(1..n) /\ Cardinality(1..n) = n
    <3>1. 1 \in Int /\ n \in Int
      BY <1>2
    <3>2. IsFiniteSet(1..n) /\ Cardinality(1..n) = IF 1 > n THEN 0 ELSE n - 1 + 1
      BY <3>1, FS_Interval
    <3> QED BY <1>2, <3>2
  <2> HIDE DEF pos, S
  <2>3. pos \in Injection(S, 1..n)
    <3> DEFINE T == 1..n
    <3>1. pos \in Surjection(S, T) /\ IsFiniteSet(T) /\ Cardinality(T) = Cardinality(S)
      BY <2>1, <2>2 DEF n
    <3> HIDE DEF T
    <3>2. pos \in Bijection(S, T)
      BY <1>2, <3>1, FS_Surjection DEF Bijection
    <3> QED BY <3>2 DEF T, Bijection
  <2> QED BY <2>3 DEF Injection, IsInjective, pos
<1> SUFFICES ASSUME NEW c \in S PROVE rows[c].pos = Rank(rows, c)
  OBVIOUS
<1> DEFINE below == Below(Precedes(rows), S, c)
           k == rows[c].pos - 1
           f == [e \in below |-> rows[e].pos]
<1>5. below = {e \in S : rows[e].pos < rows[c].pos}
  <2>1. \A e \in S : <<e, c>> \in Precedes(rows) <=> Sooner(rows, e, c)
    <3> HIDE DEF S
    <3> QED BY DEF Precedes, S
  <2>2. \A e \in S : Sooner(rows, e, c) <=> rows[e].pos < rows[c].pos
    BY <1>2, <1>4 DEF Sooner
  <2> HIDE DEF S
  <2> QED BY <2>1, <2>2 DEF Below
<1> HIDE DEF below, S, rows, n
<1>6. k \in Nat /\ \A j \in 1..k : j \in 1..n /\ j < rows[c].pos
  BY <1>2, <1>3
<1>7. f \in [below -> 1..k]
  BY <1>2, <1>3, <1>5
<1>8. \A x, y \in below : f[x] = f[y] => x = y
  BY <1>4, <1>5
<1>9. \A j \in 1..k : \E e \in below : f[e] = j
  <2> SUFFICES ASSUME NEW j \in 1..k PROVE \E e \in below : f[e] = j
    OBVIOUS
  <2>1. PICK e \in S : rows[e].pos = j
    BY <1>3, <1>6
  <2> QED BY <1>5, <1>6, <2>1
<1> HIDE DEF f
<1>10. f \in Bijection(below, 1..k)
  BY <1>7, <1>8, <1>9 DEF Bijection, Injection, Surjection, IsInjective
<1>11. IsFiniteSet(below)
  BY <1>2, <1>5, FS_Subset
<1> HIDE DEF k
<1>12. Cardinality(1..k) = Cardinality(below)
  <2> DEFINE T == 1..k
  <2>1. ExistsBijection(below, T)
    BY <1>10 DEF ExistsBijection
  <2> HIDE DEF T
  <2>2. Cardinality(T) = Cardinality(below)
    BY <1>11, <2>1, FS_Bijection
  <2> QED BY <2>2 DEF T
<1>13. Cardinality(1..k) = k
  <2>1. 1 \in Int /\ k \in Int
    BY <1>6
  <2>2. Cardinality(1..k) = IF 1 > k THEN 0 ELSE k - 1 + 1
    BY <2>1, FS_Interval
  <2> QED BY <1>6, <2>2
<1> QED BY <1>2, <1>12, <1>13 DEF k, Rank, below, S

\* A file that could be read is a list that agrees with it.
LEMMA LoadedCoherent ==
    ASSUME NEW d, IsFile(d), Dense(d), NEW m, IsMemory(m), NEW p \in Project, NEW lost
    PROVE  LET l == Loaded(m, d, p, TRUE, {}) IN
           IsMemory(l) /\ l.up = TRUE /\ l.path = p /\ Coherent(d, l, lost)
<1> DEFINE l == Loaded(m, d, p, TRUE, {})
           none == {}
           list == Ordered(d.rows)
<1>1. d.rows \in Rows
  BY DEF IsFile, Files
<1>2. IsLoaded(l, m, d, p, TRUE, {})
  <2>1. TRUE \in BOOLEAN
    OBVIOUS
  <2>2. IsLoaded(Loaded(m, d, p, TRUE, none), m, d, p, TRUE, none)
    <3> HIDE DEF none
    <3> QED BY <2>1, LoadedIs
  <2> QED BY <2>2
<1> HIDE DEF l
<1>3. IsMemory(l) /\ l.up = TRUE /\ l.path = p
  BY <1>2 DEF IsLoaded
<1>4. CASE ~d.exists
  <2>1. DOMAIN d.rows = {}
    BY <1>4, NoFileIs DEF IsFile
  <2>2. Ids(l.list) = {}
    BY <1>2, <2>1 DEF IsLoaded
  <2>3. Coherent(d, l, lost)
    BY <2>1, <2>2 DEF Coherent, Marked, Positioned, Kept
  <2> QED BY <1>3, <2>3 DEF l
<1>5. CASE d.exists
  <2>1. /\ IsList(list) /\ Ids(list) = DOMAIN d.rows
        /\ \A k \in DOMAIN list :
              /\ list[k].id \in DOMAIN d.rows
              /\ list[k].titled = d.rows[list[k].id].titled
              /\ list[k].entries = d.rows[list[k].id].entries
              /\ Rank(d.rows, list[k].id) = k
    BY <1>1, OrderedIs
  <2> HIDE DEF list
  <2>2. l.list = list
    <3>1. l.list = Read(d.rows, {})
      BY <1>2, <1>5 DEF IsLoaded
    <3>2. Read(d.rows, {}) = [k \in DOMAIN list |-> list[k]]
      BY DEF Read, list
    <3>3. list = [k \in DOMAIN list |-> list[k]]
      BY <2>1 DEF IsList
    <3> QED BY <3>1, <3>2, <3>3
  <2>3. \A c \in Ids(l.list) : At(list, c) \in DOMAIN list /\ list[At(list, c)].id = c
    BY <2>1, <2>2, AtIs DEF IsList
  <2>4. ASSUME NEW c \in Ids(l.list)
        PROVE  /\ c \in DOMAIN d.rows /\ d.rows[c].entries = Entries(l, c)
               /\ d.rows[c].titled = Titled(l, c) /\ d.rows[c].pos = At(l.list, c)
    <3>1. c \in DOMAIN d.rows /\ d.rows[c].pos = Rank(d.rows, c)
      BY <2>1, <2>2, PositionIsRank
    <3> QED BY <2>1, <2>2, <2>3, <3>1 DEF Entries, Titled
  <2>5. \A c \in Ids(l.list) : Extends(Entries(l, c), Entries(l, c))
    BY <1>3, EntriesAre, ExtendsIs DEF Recorded
  <2>6. Marked(d, l) /\ Positioned(d, l)
    BY <2>1, <2>2, <2>4 DEF Marked, Positioned
  <2>7. Kept(d, l, lost)
    BY <2>1, <2>2, <2>4, <2>5 DEF Kept
  <2> QED BY <1>3, <2>6, <2>7 DEF Coherent, l
<1> QED BY <1>4, <1>5

LEMMA OpenedCoherent ==
    ASSUME "read" \notin Faults, NEW d, IsFile(d), Dense(d), NEW m, IsMemory(m), NEW p \in Project,
           NEW s \in Opened(d, m, p), Free # {}, NewConversation.id \notin DOMAIN d.rows, NEW lost
    PROVE  SavedRight(s, d, lost)
<1>1. PICK ok, unread, failed, t : OpenedVia(s, d, m, p, ok, unread, failed, t)
  BY OpenedIs
<1>2. ok = TRUE /\ unread = {} /\ failed = {}
  BY <1>1 DEF OpenedVia, Succeeds, Unread
<1> DEFINE l == Loaded(m, d, p, TRUE, {})
           missing == Missing(d, l.list, {})
           v == Prune(l, missing, TRUE)
<1>3. t \in Save(d, v) /\ s.d = t.d /\ s.m = WithDraft(t.m, NewConversation)
  BY <1>1, <1>2 DEF OpenedVia
<1>4. IsMemory(l) /\ l.up = TRUE /\ l.path = p /\ Coherent(d, l, lost)
  BY LoadedCoherent
<1>5. Ids(l.list) \subseteq DOMAIN d.rows
  <2> DEFINE none == {}
  <2>1. TRUE \in BOOLEAN
    OBVIOUS
  <2>2. IsLoaded(Loaded(m, d, p, TRUE, none), m, d, p, TRUE, none)
    <3> HIDE DEF none
    <3> QED BY <2>1, LoadedIs
  <2> QED BY <2>2 DEF IsLoaded
<1> HIDE DEF l
<1>6. /\ missing \in SUBSET Ids(l.list) /\ TRUE \in BOOLEAN
      /\ \A c \in missing : c \in DOMAIN d.rows => d.rows[c].entries = <<>>
  BY DEF Missing
<1> HIDE DEF missing
<1>7. PruneEdits(d, l, missing, TRUE, lost)
  BY <1>4, <1>6, PruneEdit
<1>8. IsMemory(v) /\ Edit(d, l, v, lost) /\ Ids(v.list) \subseteq Ids(l.list)
  BY <1>4, <1>6, <1>7, PruneType DEF PruneEdits
<1> HIDE DEF v
<1>9. Coherent(d, v, lost)
  BY <1>4, <1>8, EditCoherent
<1>10. Coherent(t.d, t.m, lost) /\ Dense(t.d) /\ StoredIn(t.d, d, lost)
  BY <1>3, <1>8, <1>9, SavedCoherent DEF SavedRight
<1>11. /\ IsFile(t.d) /\ IsMemory(t.m) /\ t.m.list = v.list
       /\ DOMAIN t.d.rows \subseteq DOMAIN d.rows \cup Ids(v.list)
  BY <1>3, <1>8, SavedType
<1> DEFINE n == NewConversation
<1>12. /\ n \in Conversation /\ n.id \notin Ids(t.m.list) /\ n.id \notin DOMAIN t.d.rows
       /\ n.entries = <<>>
  BY <1>5, <1>8, <1>11, FreeIs
<1> HIDE DEF n
<1>13. Coherent(t.d, WithDraft(t.m, n), lost)
  BY <1>10, <1>11, <1>12, DraftCoherent
<1> QED BY <1>3, <1>10, <1>13 DEF SavedRight, n

LEMMA EnsureCoherent ==
    ASSUME NEW d, IsFile(d), NEW m, IsMemory(m), NEW lost, Coherent(d, m, lost),
           \/ m.active \in Ids(m.list)
           \/ /\ Free # {} /\ NewConversation.id \notin Ids(m.list)
              /\ NewConversation.id \notin DOMAIN d.rows
    PROVE  Coherent(d, EnsureActive(m), lost)
<1>1. CASE m.active \in Ids(m.list)
  BY <1>1 DEF EnsureActive
<1>2. CASE m.active \notin Ids(m.list)
  <2> DEFINE v == NewConversation
             w == Register(m, v)
  <2>1. v \in Conversation /\ v.id \notin Ids(m.list) /\ v.id \notin DOMAIN d.rows /\ v.entries = <<>>
    BY <1>2, FreeIs
  <2>2. EnsureActive(m) = w
    BY <1>2 DEF EnsureActive
  <2> HIDE DEF v
  <2>3. IsWith(w, m, Append(m.list, v), v.id, m.dirty \cup {v.id}, m.structure)
    BY <2>1, RegisterIs
  <2> HIDE DEF w
  <2>4. /\ IsMemory(w) /\ w.list = Append(m.list, v) /\ m.dirty \subseteq w.dirty
        /\ w.structure = m.structure /\ w.dirty \subseteq m.dirty \cup {v.id}
    BY <2>3 DEF IsWith
  <2>5. Edit(d, m, w, lost)
    BY <2>1, <2>4, RegisteredEdit
  <2>6. Coherent(d, w, lost)
    BY <2>4, <2>5, EditCoherent
  <2> QED BY <2>2, <2>6
<1> QED BY <1>1, <1>2

\* The memory a changed conversation leaves behind.
LEMMA ChangedCoherent ==
    ASSUME NEW d, IsFile(d), NEW m, IsMemory(m), NEW before, NEW lost, before \subseteq lost,
           Coherent(d, m, before),
           NEW c \in Ids(m.list), NEW v \in Conversation, v.id = c,
           c \in lost \/ Extends(v.entries, Entries(m, c))
    PROVE  IsMemory(Changed(m, c, v)) /\ Coherent(d, Changed(m, c, v), lost)
<1> DEFINE w == Changed(m, c, v)
<1>1. IsWith(w, m, [m.list EXCEPT ![At(m.list, c)] = v], m.active, m.dirty \cup {c}, m.structure)
  BY ChangedIs
<1> HIDE DEF w
<1>2. /\ IsMemory(w) /\ w.list = [m.list EXCEPT ![At(m.list, c)] = v] /\ w.dirty = m.dirty \cup {c}
      /\ w.structure = m.structure
  BY <1>1 DEF IsWith
<1>3. Edit(d, m, w, lost)
  BY <1>2, ChangedEdit
<1>4. Coherent(d, w, lost)
  BY <1>2, <1>3, EditCoherent
<1> QED BY <1>2, <1>4 DEF w

LEMMA AppendCoherent ==
    ASSUME NEW d, IsFile(d), NEW m, IsMemory(m), NEW lost, Coherent(d, m, lost),
           NEW c \in Ids(m.list), NEW state \in {"working", "answered"}
    PROVE  Coherent(d, AppendEntry(m, c, state), lost)
<1> DEFINE old == Entries(m, c)
           v == [id |-> c, titled |-> TRUE, entries |-> Append(old, state)]
<1>1. old \in Recorded /\ c \in Chat
  BY EntriesAre DEF Recorded
<1> HIDE DEF old
<1>2. Append(old, state) \in Recorded /\ Extends(Append(old, state), old)
  <2>1. Append(old, state) \in Recorded
    BY <1>1 DEF Recorded
  <2>2. /\ Len(old) \in Nat /\ DOMAIN old = 1..Len(old) /\ Len(Append(old, state)) = Len(old) + 1
        /\ \A k \in 1..Len(old) : Append(old, state)[k] = old[k]
    BY <1>1 DEF Recorded
  <2> QED BY <2>1, <2>2 DEF Extends
<1>3. v \in Conversation /\ v.id = c /\ v.entries = Append(old, state)
  BY <1>1, <1>2 DEF Conversation, Recorded
<1>4. AppendEntry(m, c, state) = Changed(m, c, v)
  BY DEF AppendEntry, old
<1>5. Extends(v.entries, Entries(m, c))
  BY <1>2, <1>3 DEF old
<1> HIDE DEF v
<1>6. Coherent(d, Changed(m, c, v), lost)
  BY <1>3, <1>5, ChangedCoherent
<1> QED BY <1>4, <1>6

LEMMA AddPendingCoherent ==
    ASSUME NEW d, IsFile(d), NEW m, IsMemory(m), NEW lost, Coherent(d, m, lost),
           m.active \in Ids(m.list)
    PROVE  Coherent(d, AddPending(m), lost)
<1> DEFINE w == AppendEntry(m, m.active, "working")
           u == AddPending(m)
<1>1. Coherent(d, w, lost) /\ IsMemory(w)
  BY AppendCoherent, AppendEntryIs
<1>2. u = [w EXCEPT !.run = m.active, !.attached = TRUE]
  BY DEF AddPending
<1>3. IsMemory(u)
  BY AddPendingIs
<1> HIDE DEF w
<1>4. u.list = w.list /\ w.dirty \subseteq u.dirty /\ u.structure = w.structure
  BY <1>1, <1>2 DEF IsMemory, Memory
<1> HIDE DEF u
<1>5. Edit(d, w, u, lost)
  BY <1>1, <1>4, RemarkedEdit
<1>6. Coherent(d, u, lost)
  BY <1>1, <1>3, <1>5, EditCoherent
<1> QED BY <1>6 DEF u

-------------------------------------------------------------------------------
(* The steps keep list and file together                                       *)

Lost(gone, p) == {c \in Chat : <<p, c>> \in gone}
Together ==
    /\ \A p \in Project : Dense(db[p])
    /\ \A i \in Program : mem[i].up => Coherent(db[mem[i].path], mem[i], Lost(deleted, mem[i].path))
Stored == \A p \in Project : StoredIn(db'[p], db[p], Lost(deleted', p))
OneProgram == \A i, j \in Program : i = j

LEMMA StoredSame ==
    ASSUME Types, NEW p \in Project, NEW lost
    PROVE  StoredIn(db[p], db[p], lost)
<1>1. \A c \in DOMAIN db[p].rows : db[p].rows[c].entries \in Recorded
  BY FileAt, RowsAre DEF IsFile, Files, Recorded
<1> QED BY <1>1, ExtendsIs DEF StoredIn

LEMMA LeavesTogether ==
    ASSUME OneProgram, Types, Together, NEW i \in Program, NEW p \in Project, NEW d, NEW m,
           m.path = p, Dense(d), Coherent(d, m, Lost(deleted', p)),
           StoredIn(d, db[p], Lost(deleted', p)), Leaves(i, p, d, m)
    PROVE  Together' /\ Stored
<1>1. db' = [db EXCEPT ![p] = d] /\ mem' = [mem EXCEPT ![i] = m]
  BY DEF Leaves
<1>2. db'[p] = d /\ mem'[i] = m /\ \A q \in Project : q # p => db'[q] = db[q]
  BY <1>1 DEF Types, FilesTyped, MemoryTyped
<1>3. \A j \in Program : j = i
  BY DEF OneProgram
<1>4. Together'
  BY <1>2, <1>3 DEF Together
<1>5. ASSUME NEW q \in Project PROVE StoredIn(db'[q], db[q], Lost(deleted', q))
  BY <1>2, StoredSame
<1> QED BY <1>4, <1>5 DEF Stored

LEMMA SavesTogether ==
    ASSUME OneProgram, Types, Together, NEW i \in Program, NEW m, IsMemory(m), m.path \in Project,
           Coherent(db[m.path], m, Lost(deleted', m.path)), Saves(i, m)
    PROVE  Together' /\ Stored
<1>1. PICK s \in Save(db[m.path], m) : Leaves(i, m.path, s.d, s.m)
  BY DEF Saves
<1>2. IsFile(db[m.path]) /\ Dense(db[m.path])
  BY FileAt DEF Together
<1>3. IsFile(s.d) /\ IsMemory(s.m) /\ SameRest(s.m, m)
  BY <1>2, SavedType
<1> DEFINE lost == Lost(deleted', m.path)
           d == db[m.path]
<1> HIDE DEF lost, d
<1>4. SavedRight(s, d, lost)
  BY <1>1, <1>2, SavedCoherent DEF lost, d
<1>5. Coherent(s.d, s.m, lost) /\ Dense(s.d) /\ StoredIn(s.d, d, lost) /\ s.m.path = m.path
  BY <1>3, <1>4 DEF SavedRight, SameRest
<1> QED BY <1>1, <1>5, LeavesTogether DEF lost, d

LEMMA LostGrows ==
    ASSUME deleted \subseteq deleted', NEW p
    PROVE  Lost(deleted, p) \subseteq Lost(deleted', p)
BY DEF Lost

\* What is known of a program that acts.
LEMMA ActorIs ==
    ASSUME Types, Together, NEW i \in Program, mem[i].up
    PROVE  /\ IsMemory(mem[i]) /\ mem[i].path \in Project /\ IsFile(db[mem[i].path])
           /\ Dense(db[mem[i].path])
           /\ Coherent(db[mem[i].path], mem[i], Lost(deleted, mem[i].path))
<1>1. IsValid(mem[i]) /\ IsMemory(mem[i]) /\ mem[i].path \in Project
  BY MemoryAt, OpenPath
<1> QED BY <1>1, FileAt DEF Together

LEMMA OpensTogether ==
    ASSUME OneProgram, "read" \notin Faults, Types, Together, NEW i \in Program, NEW p \in Project,
           NEW d, IsFile(d), Dense(d), Free # {}, NewConversation.id \notin DOMAIN d.rows,
           StoredIn(d, db[p], Lost(deleted', p)), d = db[p] \/ DOMAIN db[p].rows = {},
           NEW s \in Opened(d, mem[i], p), Leaves(i, p, s.d, s.m)
    PROVE  Together' /\ Stored
<1> DEFINE lost == Lost(deleted', p)
           m == mem[i]
<1>1. IsMemory(m)
  BY MemoryAt
<1> HIDE DEF lost, m
<1>2. s \in Opened(d, m, p)
  BY DEF m
<1>3. SavedRight(s, d, lost)
  BY <1>1, <1>2, OpenedCoherent
<1>4. Coherent(s.d, s.m, lost) /\ Dense(s.d) /\ StoredIn(s.d, d, lost)
  BY <1>3 DEF SavedRight
<1>5. IsOpened(s, m, p)
  BY <1>1, <1>2, OpenedType
<1>6. s.m.path = p
  BY <1>5 DEF IsOpened
<1>7. StoredIn(s.d, db[p], lost)
  <2>1. CASE d = db[p]
    BY <1>4, <2>1
  <2>2. CASE DOMAIN db[p].rows = {}
    BY <2>2 DEF StoredIn
  <2> QED BY <2>1, <2>2
<1> QED BY <1>4, <1>6, <1>7, LeavesTogether DEF lost

LEMMA LaunchTogether ==
    ASSUME OneProgram, "read" \notin Faults, Types, Together, NEW i \in Program, NEW p \in Project,
           Launch(i, p)
    PROVE  Together' /\ Stored
<1>1. Free # {}
  BY DEF Launch
<1>2. PICK s \in Opened(db[p], mem[i], p) : Leaves(i, p, s.d, s.m)
  BY DEF Launch
<1> DEFINE d == db[p]
<1>3. IsFile(d) /\ Dense(d) /\ NewConversation.id \notin DOMAIN d.rows
  BY <1>1, FileAt, NewIs DEF Together
<1>4. StoredIn(d, db[p], Lost(deleted', p))
  BY StoredSame
<1>5. s \in Opened(d, mem[i], p) /\ d = db[p]
  BY <1>2
<1> HIDE DEF d
<1> QED BY <1>1, <1>2, <1>3, <1>4, <1>5, OpensTogether

LEMMA ExitTogether ==
    ASSUME OneProgram, Types, Together, NEW i \in Program, Exit(i)
    PROVE  Together' /\ Stored
<1>1. db' = db /\ mem' = [mem EXCEPT ![i] = Stopped]
  BY DEF Exit
<1>2. \A j \in Program : ~mem'[j].up
  BY <1>1, StoppedIs DEF OneProgram, Types, MemoryTyped
<1>3. Together'
  BY <1>1, <1>2 DEF Together
<1> QED BY <1>1, <1>3, StoredSame DEF Stored

LEMMA SendTogether ==
    ASSUME OneProgram, Types, Together, NEW i \in Program, Send(i)
    PROVE  Together' /\ Stored
<1> DEFINE a == mem[i]
           p == a.path
           d == db[p]
           m == EnsureActive(a)
           w == AddPending(m)
<1>1. UNCHANGED deleted /\ a.up /\ CanEnsureActive(a) /\ Saves(i, w)
  BY DEF Send
<1>2. IsMemory(a) /\ p \in Project /\ IsFile(d) /\ Coherent(d, a, Lost(deleted, p))
  BY <1>1, ActorIs
<1>3. \/ a.active \in Ids(a.list)
      \/ Free # {} /\ NewConversation.id \notin Ids(a.list) /\ NewConversation.id \notin DOMAIN d.rows
  BY <1>1, <1>2, NewIs DEF CanEnsureActive
<1> DEFINE lost == Lost(deleted, p)
<1> HIDE DEF a, p, d, lost
<1>4. IsMemory(m) /\ SameRest(m, a) /\ m.active \in Ids(m.list)
  BY <1>2, <1>3, EnsureIs
<1>5. Coherent(d, m, lost)
  BY <1>2, <1>3, EnsureCoherent DEF lost
<1> HIDE DEF m
<1>6. IsMemory(w) /\ w.path = m.path
  BY <1>4, AddPendingIs
<1>7. Coherent(d, w, lost)
  BY <1>2, <1>4, <1>5, AddPendingCoherent
<1> HIDE DEF w
<1>8. w.path = p
  BY <1>4, <1>6 DEF SameRest, p
<1>9. Lost(deleted', p) = lost
  BY <1>1 DEF Lost, lost, p, a
<1>10. Coherent(db[w.path], w, Lost(deleted', w.path))
  BY <1>7, <1>8, <1>9 DEF d
<1> QED BY <1>1, <1>2, <1>6, <1>8, <1>10, SavesTogether

LEMMA AnswerTogether ==
    ASSUME OneProgram, Types, Together, NEW i \in Program, Answer(i)
    PROVE  Together' /\ Stored
<1> DEFINE a == mem[i]
           p == a.path
           d == db[p]
           lost == Lost(deleted, p)
           m == [a EXCEPT !.run = None, !.attached = FALSE]
           c == a.run
<1>1. a.up /\ deleted' = deleted
  BY DEF Answer
<1>2. IsMemory(a) /\ p \in Project /\ IsFile(d) /\ Coherent(d, a, lost)
  BY <1>1, ActorIs
<1>3. \/ c \in Ids(m.list) /\ Saves(i, Changed(m, c, [id |-> c, titled |-> Titled(m, c),
                                                    entries |-> Completed(Entries(m, c))]))
      \/ c \in Ids(m.list) /\ Saves(i, [m EXCEPT !.dirty = @ \cup {c}])
      \/ /\ CanEnsureActive(m)
         /\ Saves(i, AppendEntry(EnsureActive(m), EnsureActive(m).active, "answered"))
  BY DEF Answer
<1>4. /\ IsMemory(m) /\ m.list = a.list /\ a.dirty \subseteq m.dirty /\ m.structure = a.structure
      /\ m.path = p /\ m.active = a.active
  <2>1. a \in Memory
    BY <1>2 DEF IsMemory
  <2>2. m \in Memory
    BY <2>1 DEF Memory
  <2> QED BY <1>2, <2>1, <2>2 DEF IsMemory, Memory
<1>5. Free # {} => /\ NewConversation.id \notin Ids(m.list)
                   /\ NewConversation.id \notin DOMAIN d.rows
  BY <1>2, <1>4, NewIs
<1> HIDE DEF m, c, a, d, lost
<1>6. Coherent(d, m, lost)
  <2>1. Edit(d, a, m, lost)
    BY <1>2, <1>4, RemarkedEdit
  <2> QED BY <1>2, <1>4, <2>1, EditCoherent
<1> HIDE DEF p
<1>7. ASSUME NEW w, IsMemory(w), w.path = p, Coherent(d, w, lost), Saves(i, w)
      PROVE  Together' /\ Stored
  <2>1. Coherent(db[w.path], w, Lost(deleted', w.path))
    BY <1>1, <1>7 DEF d, lost
  <2> QED BY <1>2, <1>7, <2>1, SavesTogether
<1>8. CASE c \in Ids(m.list) /\ Saves(i, Changed(m, c, [id |-> c, titled |-> Titled(m, c),
                                                      entries |-> Completed(Entries(m, c))]))
  <2> DEFINE old == Entries(m, c)
             v == [id |-> c, titled |-> Titled(m, c), entries |-> Completed(old)]
             w == Changed(m, c, v)
  <2>1. old \in Recorded /\ c \in Chat /\ Titled(m, c) \in BOOLEAN
    BY <1>4, <1>8, EntriesAre DEF Recorded
  <2> HIDE DEF old
  <2>2. Completed(old) \in Recorded /\ Extends(Completed(old), old)
    <3>1. /\ Completed(old) = [old EXCEPT ![Len(old)] = "answered"]
          /\ old \in [1..Len(old) -> {"working", "answered"}] /\ Len(old) \in Nat
      BY <2>1 DEF Completed, Recorded
    <3>2. Completed(old) \in [1..Len(old) -> {"working", "answered"}]
      BY <3>1
    <3>3. Completed(old) \in Recorded
      BY <3>1, <3>2 DEF Recorded
    <3>4. Len(Completed(old)) = Len(old)
      BY <3>1, <3>2, <3>3 DEF Recorded
    <3>5. \A k \in DOMAIN old : old[k] = "answered" => Completed(old)[k] = "answered"
      BY <3>1
    <3> QED BY <3>1, <3>3, <3>4, <3>5 DEF Extends
  <2>3. v \in Conversation /\ v.id = c /\ v.entries = Completed(old)
    BY <2>1, <2>2 DEF Conversation, Recorded
  <2>4. Extends(v.entries, Entries(m, c))
    BY <2>2, <2>3 DEF old
  <2>5. Saves(i, w)
    BY <1>8 DEF old
  <2> HIDE DEF v
  <2>6. IsMemory(w) /\ Coherent(d, w, lost)
    BY <1>2, <1>4, <1>6, <1>8, <2>3, <2>4, ChangedCoherent
  <2>7. IsWith(w, m, [m.list EXCEPT ![At(m.list, c)] = v], m.active, m.dirty \cup {c}, m.structure)
    BY <1>4, <1>8, <2>3, ChangedIs
  <2> HIDE DEF w
  <2>8. w.path = p
    BY <1>4, <2>7 DEF IsWith, SameRest
  <2> QED BY <1>7, <2>5, <2>6, <2>8
<1>9. CASE c \in Ids(m.list) /\ Saves(i, [m EXCEPT !.dirty = @ \cup {c}])
  <2> DEFINE w == [m EXCEPT !.dirty = @ \cup {c}]
  <2>1. m \in Memory /\ c \in Chat
    BY <1>4, <1>9, EntriesAre DEF IsMemory
  <2>2. /\ w \in Memory /\ w.list = m.list /\ w.active = m.active /\ w.path = m.path
        /\ m.dirty \subseteq w.dirty /\ w.structure = m.structure
    BY <2>1 DEF Memory
  <2>3. IsMemory(w)
    BY <1>4, <2>2 DEF IsMemory
  <2>4. Saves(i, w)
    BY <1>9
  <2> HIDE DEF w
  <2>5. Edit(d, m, w, lost)
    BY <1>4, <2>2, RemarkedEdit
  <2>6. Coherent(d, w, lost)
    BY <1>2, <1>4, <1>6, <2>3, <2>5, EditCoherent
  <2> QED BY <1>4, <1>7, <2>2, <2>3, <2>4, <2>6
<1>10. CASE /\ CanEnsureActive(m)
            /\ Saves(i, AppendEntry(EnsureActive(m), EnsureActive(m).active, "answered"))
  <2> DEFINE e == EnsureActive(m)
             w == AppendEntry(e, e.active, "answered")
  <2>1. \/ m.active \in Ids(m.list)
        \/ /\ Free # {} /\ NewConversation.id \notin Ids(m.list)
           /\ NewConversation.id \notin DOMAIN d.rows
    BY <1>5, <1>10 DEF CanEnsureActive
  <2>2. IsMemory(e) /\ SameRest(e, m) /\ e.active \in Ids(e.list)
    BY <1>4, <2>1, EnsureIs
  <2>3. Coherent(d, e, lost)
    BY <1>2, <1>4, <1>6, <2>1, EnsureCoherent
  <2>4. Saves(i, w)
    BY <1>10
  <2> HIDE DEF e
  <2>5. IsMemory(w) /\ SameRest(w, e)
    BY <2>2, AppendEntryIs
  <2>6. Coherent(d, w, lost)
    BY <1>2, <2>2, <2>3, AppendCoherent
  <2> HIDE DEF w
  <2>7. w.path = p
    BY <1>4, <2>2, <2>5 DEF SameRest
  <2> QED BY <1>7, <2>4, <2>5, <2>6, <2>7
<1> QED BY <1>3, <1>8, <1>9, <1>10

LEMMA RegenerateTogether ==
    ASSUME OneProgram, Types, Together, NEW i \in Program, Regenerate(i)
    PROVE  Together' /\ Stored
<1> DEFINE m == mem[i]
           p == m.path
           d == db[p]
           c == m.active
           before == Lost(deleted, p)
           lost == Lost(deleted', p)
           v == [id |-> c, titled |-> Titled(m, c),
                 entries |-> SubSeq(Entries(m, c), 1, Len(Entries(m, c)) - 1)]
           popped == Changed(m, c, v)
<1>1. /\ m.up /\ c \in Ids(m.list) /\ Entries(m, c) # <<>> /\ deleted' = deleted \cup {<<p, c>>}
  BY DEF Regenerate
<1>2. PICK s \in Save(d, popped) : \E t \in Save(s.d, AddPending(s.m)) : Leaves(i, p, t.d, t.m)
  BY DEF Regenerate
<1>3. PICK t \in Save(s.d, AddPending(s.m)) : Leaves(i, p, t.d, t.m)
  BY <1>2
<1>4. IsMemory(m) /\ p \in Project /\ IsFile(d) /\ Dense(d) /\ Coherent(d, m, before) /\ c \in Chat
  BY <1>1, ActorIs, EntriesAre
<1>5. v \in Conversation /\ v.id = c
  <2> DEFINE old == Entries(m, c)
  <2>1. old \in Seq({"working", "answered"}) /\ Titled(m, c) \in BOOLEAN
    BY <1>1, <1>4, EntriesAre
  <2> HIDE DEF old
  <2>2. Len(old) \in Nat /\ \A k \in 1..Len(old) : old[k] \in {"working", "answered"}
    BY <2>1
  <2>3. SubSeq(old, 1, Len(old) - 1) \in Seq({"working", "answered"})
    BY <2>1, <2>2
  <2> HIDE DEF m
  <2>4. SubSeq(Entries(m, c), 1, Len(Entries(m, c)) - 1) \in Seq({"working", "answered"})
    BY <2>3 DEF old
  <2> QED BY <1>4, <2>1, <2>4 DEF Conversation
<1>6. before \subseteq lost /\ c \in lost
  BY <1>1, <1>4 DEF Lost
<1> HIDE DEF m, p, d, c, v, before, lost
<1>7. IsMemory(popped) /\ Coherent(d, popped, lost)
  BY <1>1, <1>4, <1>5, <1>6, ChangedCoherent
<1>8. IsWith(popped, m, [m.list EXCEPT ![At(m.list, c)] = v], m.active,
             m.dirty \cup {c}, m.structure)
  BY <1>1, <1>4, <1>5, ChangedIs
<1>9. SameRest(popped, m) /\ popped.active \in Ids(popped.list)
  <2>1. Ids([m.list EXCEPT ![At(m.list, c)] = v]) = Ids(m.list)
    BY <1>1, <1>4, <1>5, MemoryIs, ReplacedIs
  <2> QED BY <1>1, <1>8, <2>1 DEF IsWith, c
<1> HIDE DEF popped
<1>10. Coherent(s.d, s.m, lost) /\ Dense(s.d) /\ StoredIn(s.d, d, lost)
  <2>1. SavedRight(s, d, lost)
    BY <1>2, <1>4, <1>7, SavedCoherent
  <2> QED BY <2>1 DEF SavedRight
<1>11. IsFile(s.d) /\ IsMemory(s.m) /\ SameRest(s.m, popped) /\ s.m.active \in Ids(s.m.list)
  BY <1>2, <1>4, <1>7, <1>9, SavedType
<1> DEFINE w == AddPending(s.m)
<1>12. IsMemory(w) /\ w.path = s.m.path
  BY <1>11, AddPendingIs
<1>13. Coherent(s.d, w, lost)
  BY <1>10, <1>11, AddPendingCoherent
<1>14. t \in Save(s.d, w)
  BY <1>3
<1> HIDE DEF w
<1>15. Coherent(t.d, t.m, lost) /\ Dense(t.d) /\ StoredIn(t.d, s.d, lost)
  <2>1. SavedRight(t, s.d, lost)
    BY <1>10, <1>11, <1>12, <1>13, <1>14, SavedCoherent
  <2> QED BY <2>1 DEF SavedRight
<1>16. IsFile(t.d) /\ t.m.path = p
  <2>1. IsFile(t.d) /\ SameRest(t.m, w)
    BY <1>11, <1>12, <1>14, SavedType
  <2> QED BY <1>9, <1>11, <1>12, <2>1 DEF SameRest, p
<1>17. StoredIn(t.d, d, lost)
  BY <1>4, <1>10, <1>11, <1>15, <1>16, StoredTwice
<1> QED BY <1>3, <1>4, <1>15, <1>16, <1>17, LeavesTogether DEF lost, d

LEMMA NewChatTogether ==
    ASSUME OneProgram, Types, Together, NEW i \in Program, NewChat(i)
    PROVE  Together' /\ Stored
<1> DEFINE m == mem[i]
           p == m.path
           d == db[p]
           lost == Lost(deleted, p)
           v == NewConversation
           w == Register(m, v)
<1>1. m.up /\ Free # {} /\ deleted' = deleted /\ Saves(i, w)
  BY DEF NewChat
<1>2. IsMemory(m) /\ p \in Project /\ IsFile(d) /\ Coherent(d, m, lost)
  BY <1>1, ActorIs
<1>3. /\ v \in Conversation /\ v.id \notin Ids(m.list) /\ v.id \notin DOMAIN d.rows
      /\ v.entries = <<>>
  BY <1>1, <1>2, FreeIs
<1> HIDE DEF m, v, d, lost
<1>4. IsWith(w, m, Append(m.list, v), v.id, m.dirty \cup {v.id}, m.structure)
  BY <1>2, <1>3, RegisterIs
<1> HIDE DEF w
<1>5. /\ IsMemory(w) /\ w.list = Append(m.list, v) /\ m.dirty \subseteq w.dirty
      /\ w.structure = m.structure /\ w.dirty \subseteq m.dirty \cup {v.id} /\ w.path = p
  BY <1>4 DEF IsWith, SameRest
<1>6. Edit(d, m, w, lost)
  BY <1>2, <1>3, <1>5, RegisteredEdit
<1>7. Coherent(d, w, lost)
  BY <1>2, <1>5, <1>6, EditCoherent
<1> HIDE DEF p
<1>8. Coherent(db[w.path], w, Lost(deleted', w.path))
  BY <1>1, <1>5, <1>7 DEF d, lost
<1> QED BY <1>1, <1>2, <1>5, <1>8, SavesTogether

LEMMA SelectChatTogether ==
    ASSUME OneProgram, Types, Together, NEW i \in Program, NEW c \in Chat, SelectChat(i, c)
    PROVE  Together' /\ Stored
<1> DEFINE a == mem[i]
           p == a.path
           d == db[p]
           lost == Lost(deleted, p)
           m == [a EXCEPT !.active = c]
           e == [d EXCEPT !.exists = TRUE, !.active = c]
<1>1. a.up /\ deleted' = deleted
  BY DEF SelectChat
<1>2. IsMemory(a) /\ p \in Project /\ IsFile(d) /\ Dense(d) /\ Coherent(d, a, lost)
  BY <1>1, ActorIs
<1>3. m.path = p
  BY <1>2 DEF IsMemory, Memory
<1>4. c \in Ids(a.list)
  BY <1>2 DEF SelectChat, IsMemory, Memory
<1>5. IsWith(m, a, a.list, c, a.dirty, a.structure)
  BY <1>2, <1>4, SelectedIs
<1>6. Leaves(i, p, d, m) \/ Leaves(i, p, e, m)
  BY <1>3 DEF SelectChat
<1> HIDE DEF m, a
<1>7. IsMemory(m) /\ m.list = a.list /\ a.dirty \subseteq m.dirty /\ m.structure = a.structure
  BY <1>5 DEF IsWith
<1> HIDE DEF lost
<1>8. Coherent(d, m, lost)
  <2> HIDE DEF d
  <2>1. Edit(d, a, m, lost)
    BY <1>2, <1>7, RemarkedEdit
  <2> QED BY <1>2, <1>7, <2>1, EditCoherent
<1>9. e.rows = d.rows
  BY <1>2 DEF IsFile, Files
<1> HIDE DEF e
<1>10. Coherent(e, m, lost) /\ Dense(e)
  <2> HIDE DEF d
  <2> QED BY <1>2, <1>8, <1>9 DEF Coherent, Marked, Positioned, Kept, Dense
<1>11. StoredIn(d, d, lost)
  BY <1>2, StoredSame
<1>12. StoredIn(e, d, lost)
  <2> HIDE DEF d
  <2> QED BY <1>9, <1>11 DEF StoredIn
<1> HIDE DEF p
<1> QED BY <1>1, <1>2, <1>3, <1>6, <1>8, <1>10, <1>11, <1>12, LeavesTogether DEF lost

LEMMA DeleteChatsTogether ==
    ASSUME OneProgram, Types, Together, NEW i \in Program, NEW gone \in SUBSET Chat,
           DeleteChats(i, gone)
    PROVE  Together' /\ Stored
<1> DEFINE m == mem[i]
           p == m.path
           d == db[p]
           before == Lost(deleted, p)
           lost == Lost(deleted', p)
<1>1. m.up /\ deleted' = deleted \cup ({p} \X gone)
  BY DEF DeleteChats
<1>2. IsMemory(m) /\ p \in Project /\ IsFile(d) /\ Dense(d) /\ Coherent(d, m, before)
  BY <1>1, ActorIs
<1>3. PICK active, s : DeletesVia(i, gone, active, s)
  BY DeletesAre
<1> DEFINE removed == Removed(m, gone, active)
<1>4. /\ IsWith(removed, m, Without(m.list, gone), active, m.dirty, TRUE)
      /\ s \in Save(d, removed)
      /\ \/ Leaves(i, p, s.d, s.m)
         \/ \E t \in Save(s.d, Anew(s.m)) : Leaves(i, p, t.d, t.m)
  BY <1>3 DEF DeletesVia
<1>5. before \subseteq lost /\ \A c \in gone : c \in lost
  BY <1>1 DEF Lost
<1> HIDE DEF m, p, d, before, lost, removed
<1>6. /\ IsMemory(removed) /\ SameRest(removed, m) /\ removed.list = Without(m.list, gone)
      /\ removed.dirty = m.dirty /\ removed.structure = TRUE
  BY <1>4 DEF IsWith
<1>7. Edit(d, m, removed, lost)
  BY <1>2, <1>5, <1>6, WithoutEdit
<1>8. Coherent(d, removed, lost)
  BY <1>2, <1>5, <1>6, <1>7, EditCoherent
<1>9. Coherent(s.d, s.m, lost) /\ Dense(s.d) /\ StoredIn(s.d, d, lost)
  <2>1. SavedRight(s, d, lost)
    BY <1>2, <1>4, <1>6, <1>8, SavedCoherent
  <2> QED BY <2>1 DEF SavedRight
<1>10. IsFile(s.d) /\ IsMemory(s.m) /\ s.m.path = p
  <2>1. IsFile(s.d) /\ IsMemory(s.m) /\ SameRest(s.m, removed)
    BY <1>2, <1>4, <1>6, SavedType
  <2> QED BY <1>6, <2>1 DEF SameRest, p
<1>11. CASE Leaves(i, p, s.d, s.m)
  BY <1>2, <1>9, <1>10, <1>11, LeavesTogether DEF lost, d
<1>12. ASSUME NEW t \in Save(s.d, Anew(s.m)), Leaves(i, p, t.d, t.m)
       PROVE  Together' /\ Stored
  <2> DEFINE w == Anew(s.m)
  <2>1. IsWith(w, s.m, s.m.list, s.m.active, s.m.dirty \cup Ids(s.m.list), TRUE)
    BY <1>10, AnewIs
  <2>2. t \in Save(s.d, w)
    BY <1>12
  <2> HIDE DEF w
  <2>3. /\ IsMemory(w) /\ w.list = s.m.list /\ s.m.dirty \subseteq w.dirty
        /\ w.structure = TRUE /\ w.path = p
    BY <1>10, <2>1 DEF IsWith, SameRest
  <2>4. Edit(s.d, s.m, w, lost)
    BY <1>10, <2>3, RemarkedEdit
  <2>5. Coherent(s.d, w, lost)
    BY <1>9, <1>10, <2>3, <2>4, EditCoherent
  <2>6. Coherent(t.d, t.m, lost) /\ Dense(t.d) /\ StoredIn(t.d, s.d, lost)
    <3>1. SavedRight(t, s.d, lost)
      BY <1>9, <1>10, <2>2, <2>3, <2>5, SavedCoherent
    <3> QED BY <3>1 DEF SavedRight
  <2>7. IsFile(t.d) /\ t.m.path = p
    <3>1. IsFile(t.d) /\ SameRest(t.m, w)
      BY <1>10, <2>2, <2>3, SavedType
    <3> QED BY <2>3, <3>1 DEF SameRest
  <2>8. StoredIn(t.d, d, lost)
    BY <1>2, <1>9, <1>10, <2>6, <2>7, StoredTwice
  <2> QED BY <1>2, <1>12, <2>6, <2>7, <2>8, LeavesTogether DEF lost, d
<1> QED BY <1>4, <1>11, <1>12

LEMMA CleanUpTogether ==
    ASSUME OneProgram, "read" \notin Faults, Types, Together, NEW i \in Program, CleanUp(i)
    PROVE  Together' /\ Stored
<1> DEFINE a == mem[i]
           p == a.path
           d == db[p]
           lost == Lost(deleted, p)
           m == [a EXCEPT !.cleanUps = @ - 1]
<1>1. a.up /\ a.cleanUps > 0 /\ db' = db /\ deleted' = deleted
  BY DEF CleanUp
<1>2. PICK failed \in Unread(Ids(m.list)) :
         mem' = [mem EXCEPT ![i] = Prune(m, Missing(db[m.path], m.list, failed), TRUE)]
  BY DEF CleanUp
<1>3. failed = {}
  BY <1>2 DEF Unread
<1>4. IsMemory(a) /\ p \in Project /\ IsFile(d) /\ Dense(d) /\ Coherent(d, a, lost)
  BY <1>1, ActorIs
<1>5. /\ IsMemory(m) /\ m.list = a.list /\ a.dirty \subseteq m.dirty /\ m.structure = a.structure
      /\ m.path = p
  <2>1. a \in Memory /\ a.cleanUps - 1 \in Nat
    BY <1>1, <1>4 DEF IsMemory, Memory
  <2>2. m \in Memory
    BY <2>1 DEF Memory
  <2>3. /\ m.list = a.list /\ m.active = a.active /\ m.path = p /\ m.dirty = a.dirty
        /\ m.structure = a.structure
    BY <2>1 DEF Memory
  <2> QED BY <1>4, <2>2, <2>3 DEF IsMemory
<1> DEFINE missing == Missing(d, m.list, {})
           w == Prune(m, missing, TRUE)
<1>6. mem' = [mem EXCEPT ![i] = w]
  BY <1>2, <1>3, <1>5
<1> HIDE DEF m, a, lost
<1>7. Coherent(d, m, lost)
  <2> HIDE DEF d
  <2>1. Edit(d, a, m, lost)
    BY <1>4, <1>5, RemarkedEdit
  <2> QED BY <1>4, <1>5, <2>1, EditCoherent
<1>8. /\ missing \in SUBSET Ids(m.list) /\ TRUE \in BOOLEAN
      /\ \A c \in missing : c \in DOMAIN d.rows => d.rows[c].entries = <<>>
  BY DEF Missing
<1> HIDE DEF missing
<1>9. IsMemory(w) /\ SameRest(w, m) /\ Edit(d, m, w, lost)
  <2> HIDE DEF d
  <2>1. PruneEdits(d, m, missing, TRUE, lost)
    BY <1>5, <1>8, PruneEdit
  <2> QED BY <2>1 DEF PruneEdits
<1> HIDE DEF w
<1>10. Coherent(d, w, lost)
  <2> HIDE DEF d
  <2> QED BY <1>4, <1>5, <1>7, <1>9, EditCoherent
<1>11. w.path = p
  BY <1>5, <1>9 DEF SameRest
<1>12. Leaves(i, p, d, w)
  <2>1. [db EXCEPT ![p] = db[p]] = db
    BY DEF Types, FilesTyped
  <2> QED BY <1>1, <1>6, <2>1 DEF Leaves
<1>13. StoredIn(d, d, lost)
  BY <1>4, StoredSame
<1> HIDE DEF p
<1> QED BY <1>1, <1>4, <1>10, <1>11, <1>12, <1>13, LeavesTogether DEF lost

LEMMA SwitchProjectTogether ==
    ASSUME OneProgram, "read" \notin Faults, Types, Together, NEW i \in Program, NEW p \in Project,
           SwitchProject(i, p)
    PROVE  Together' /\ Stored
<1> DEFINE m == mem[i]
           copy == Synced(db[p], m, Ids(m.list), FALSE)
<1>1. Free # {} /\ deleted' = deleted
  BY DEF SwitchProject
<1>2. IsMemory(m) /\ IsFile(db[p]) /\ Dense(db[p])
  BY MemoryAt, FileAt DEF Together
<1>3. NewConversation.id \notin DOMAIN db[p].rows /\ NewConversation.id \notin Ids(m.list)
  BY <1>1, NewIs
<1>4. CASE \E s \in Opened(db[p], m, p) : Leaves(i, p, s.d, s.m)
  <2>1. PICK s \in Opened(db[p], m, p) : Leaves(i, p, s.d, s.m)
    BY <1>4
  <2> DEFINE d == db[p]
  <2>2. StoredIn(d, db[p], Lost(deleted', p))
    BY StoredSame
  <2>3. IsFile(d) /\ Dense(d) /\ NewConversation.id \notin DOMAIN d.rows /\ d = db[p]
    BY <1>2, <1>3
  <2>4. s \in Opened(d, mem[i], p)
    BY <2>1
  <2> HIDE DEF d
  <2> QED BY <1>1, <2>1, <2>2, <2>3, <2>4, OpensTogether
<1>5. CASE \E read \in Succeeds("read") :
              /\ TakesAlong(m, p, read)
              /\ \E s \in Opened(copy, m, p) : Leaves(i, p, s.d, s.m)
  <2>1. PICK read \in Succeeds("read") :
           /\ TakesAlong(m, p, read)
           /\ \E s \in Opened(copy, m, p) : Leaves(i, p, s.d, s.m)
    BY <1>5
  <2>2. PICK s \in Opened(copy, m, p) : Leaves(i, p, s.d, s.m)
    BY <2>1
  <2>3. DOMAIN db[p].rows = {}
    BY <2>1 DEF Succeeds, TakesAlong
  <2>4. IsSynced(copy, db[p], m, Ids(m.list), FALSE)
    BY <1>2, SyncedIs
  <2>5. s \in Opened(copy, mem[i], p)
    BY <2>2
  <2> HIDE DEF copy, m
  <2>6. /\ IsFile(copy) /\ DOMAIN copy.rows = Ids(m.list)
        /\ \A c \in Ids(m.list) : copy.rows[c] = Written(m, c, Entries(m, c))
    BY <2>4 DEF IsSynced
  <2>7. Dense(copy)
    BY <1>2, <2>6, WrittenCoherent
  <2>8. StoredIn(copy, db[p], Lost(deleted', p))
    BY <2>3 DEF StoredIn
  <2>9. NewConversation.id \notin DOMAIN copy.rows
    BY <1>3, <2>6
  <2> QED BY <1>1, <2>2, <2>3, <2>5, <2>6, <2>7, <2>8, <2>9, OpensTogether
<1>6. CASE UNCHANGED <<db, mem>>
  <2>1. Together'
    BY <1>1, <1>6 DEF Together
  <2> QED BY <1>6, <2>1, StoredSame DEF Stored
<1> QED BY <1>4, <1>5, <1>6, SwitchesVia

LEMMA TogetherStep ==
    ASSUME OneProgram, "read" \notin Faults, Types, Together, [Next]_vars
    PROVE  Together' /\ Stored
<1>1. CASE UNCHANGED vars
  <2>1. db' = db /\ mem' = mem /\ deleted' = deleted
    BY <1>1 DEF vars
  <2>2. Together'
    BY <2>1 DEF Together
  <2> QED BY <2>1, <2>2, StoredSame DEF Stored
<1>2. ASSUME NEW i \in Program, NEW p \in Project, Launch(i, p) \/ SwitchProject(i, p)
      PROVE  Together' /\ Stored
  BY <1>2, LaunchTogether, SwitchProjectTogether
<1>3. ASSUME NEW i \in Program,
             Exit(i) \/ Send(i) \/ Answer(i) \/ Regenerate(i) \/ NewChat(i) \/ CleanUp(i)
      PROVE  Together' /\ Stored
  BY <1>3, ExitTogether, SendTogether, AnswerTogether, RegenerateTogether, NewChatTogether,
     CleanUpTogether
<1>4. ASSUME NEW i \in Program, NEW c \in Chat, SelectChat(i, c)
      PROVE  Together' /\ Stored
  BY <1>4, SelectChatTogether
<1>5. ASSUME NEW i \in Program, NEW gone \in SUBSET Chat, DeleteChats(i, gone)
      PROVE  Together' /\ Stored
  BY <1>5, DeleteChatsTogether
<1> QED BY <1>1, <1>2, <1>3, <1>4, <1>5 DEF Next

LEMMA TogetherInit == Init => Together
<1> SUFFICES ASSUME Init PROVE Together
  OBVIOUS
<1>1. Dense(NoFile)
  <2> DEFINE rows == NoFile.rows
  <2>1. DOMAIN rows = {}
    BY NoFileIs
  <2>2. Cardinality({}) = 0 /\ 1..0 = {}
    BY FS_EmptySet
  <2> HIDE DEF rows
  <2>3. Positions(rows) = {}
    BY <2>1 DEF Positions
  <2> QED BY <2>1, <2>2, <2>3 DEF Dense, rows
<1>2. \A i \in Program : ~mem[i].up
  BY StoppedIs DEF Init
<1> QED BY <1>1, <1>2 DEF Init, Together

LEMMA TogetherMarks == Types /\ Together => UnsavedIsMarked
<1> SUFFICES ASSUME Types, Together PROVE UnsavedIsMarked
  OBVIOUS
<1>1. ASSUME NEW i \in Program, mem[i].up
      PROVE  /\ \A k \in DOMAIN mem[i].list : mem[i].list[k].id \notin mem[i].dirty =>
                   IF mem[i].list[k].id \in DOMAIN db[mem[i].path].rows
                   THEN /\ db[mem[i].path].rows[mem[i].list[k].id].entries = mem[i].list[k].entries
                        /\ db[mem[i].path].rows[mem[i].list[k].id].titled = mem[i].list[k].titled
                   ELSE mem[i].list[k].entries = <<>>
             /\ ~mem[i].structure =>
                   /\ DOMAIN db[mem[i].path].rows \subseteq Ids(mem[i].list)
                   /\ \A c, e \in DOMAIN db[mem[i].path].rows :
                        db[mem[i].path].rows[c].pos < db[mem[i].path].rows[e].pos
                           <=> At(mem[i].list, c) < At(mem[i].list, e)
  <2> DEFINE m == mem[i]
             d == db[m.path]
  <2>1. IsMemory(m) /\ Coherent(d, m, Lost(deleted, m.path))
    BY <1>1, ActorIs
  <2> HIDE DEF m, d
  <2>2. \A k \in DOMAIN m.list :
           /\ m.list[k].id \in Ids(m.list)
           /\ Entries(m, m.list[k].id) = m.list[k].entries
           /\ Titled(m, m.list[k].id) = m.list[k].titled
    BY <2>1, AtIs DEF IsMemory, Entries, Titled
  <2>3. \A k \in DOMAIN m.list : m.list[k].id \notin m.dirty =>
           IF m.list[k].id \in DOMAIN d.rows
           THEN /\ d.rows[m.list[k].id].entries = m.list[k].entries
                /\ d.rows[m.list[k].id].titled = m.list[k].titled
           ELSE m.list[k].entries = <<>>
    BY <2>1, <2>2 DEF Coherent, Marked
  <2>4. ~m.structure =>
           /\ DOMAIN d.rows \subseteq Ids(m.list)
           /\ \A c, e \in DOMAIN d.rows :
                 d.rows[c].pos < d.rows[e].pos <=> At(m.list, c) < At(m.list, e)
    BY <2>1 DEF Coherent, Positioned
  <2> QED BY <2>3, <2>4 DEF m, d
<1> QED BY <1>1 DEF UnsavedIsMarked

\* What the file lacks is marked (history.py): while one program uses the files and
\* can read them, a conversation that is not dirty reads in the file as on the list,
\* and positions and deletions not written yet are marked as structure, in every
\* order of saves that fail, prunings, clean-ups, switches and restarts.  So the
\* next save that succeeds leaves nothing out.
THEOREM MarksAreComplete ==
    ASSUME OneProgram, "read" \notin Faults
    PROVE  Spec => []UnsavedIsMarked
<1>1. Types /\ Together /\ [Next]_vars => Types' /\ Together'
  BY TypesStep, TogetherStep
<1> QED BY <1>1, TypesInit, TogetherInit, TogetherMarks, PTL DEF Spec

\* What was stored stays stored (history_store.py, history_sync.py): no step makes a
\* conversation with entries leave its file, or lose entries or an answer there,
\* unless the user deleted it or asked for another answer, whatever save fails
\* and whenever the program ends.
THEOREM StoredStays ==
    ASSUME OneProgram, "read" \notin Faults
    PROVE  Spec => StoredIsKept
<1>1. Types /\ Together /\ [Next]_vars => Types' /\ Together'
  BY TypesStep, TogetherStep
<1>2. Types /\ Together /\ [Next]_vars =>
         [\A p \in Project : \A c \in DOMAIN db[p].rows :
            \/ <<p, c>> \in deleted'
            \/ LET old == db[p].rows[c].entries IN
               \/ old = <<>>
               \/ /\ c \in DOMAIN db'[p].rows
                  /\ Len(db'[p].rows[c].entries) >= Len(old)
                  /\ \A k \in DOMAIN old :
                        old[k] = "answered" => db'[p].rows[c].entries[k] = "answered"]_vars
  <2> SUFFICES ASSUME Types, Together, [Next]_vars,
                      NEW p \in Project, NEW c \in DOMAIN db[p].rows,
                      <<p, c>> \notin deleted', db[p].rows[c].entries # <<>>
               PROVE  /\ c \in DOMAIN db'[p].rows
                      /\ Extends(db'[p].rows[c].entries, db[p].rows[c].entries)
    BY DEF Extends
  <2>1. StoredIn(db'[p], db[p], Lost(deleted', p))
    BY TogetherStep DEF Stored
  <2> QED BY <2>1 DEF StoredIn, Lost
<1> QED BY <1>1, <1>2, TypesInit, TogetherInit, PTL DEF Spec, StoredIsKept
===============================================================================
