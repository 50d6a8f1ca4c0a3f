---------------------------- MODULE LlmStreamProofs ----------------------------
(* A streamed answer arrives as the model meant it, for any number of calls and *)
(* of fragments per call, however the provider delivers them and wherever the   *)
(* stream breaks.                                                               *)
(*                                                                              *)
(* The accumulator is compared with the answer: it holds the first m calls, each *)
(* with the first `size` fragments of its arguments (Entries), and m and size   *)
(* follow from what the provider has sent (Delivered).                          *)
EXTENDS LlmStream, FiniteSetTheorems, WellFoundedInduction, TLAPS

-------------------------------------------------------------------------------
(* Counting                                                                     *)

LEMMA Remainders ==
    ASSUME NEW x \in 0..(Parts - 1)
    PROVE  x % Parts = x /\ (Parts + x) % Parts = x
BY LlmStreamAssumption

LEMMA Multiples == Parts % Parts = 0 /\ (Parts + Parts) % Parts = 0 /\ 0 % Parts = 0
BY LlmStreamAssumption

LEMMA Minimum ==
    ASSUME NEW S \in SUBSET Nat, S # {}
    PROVE  \E n \in S : \A m \in S : n <= m
<1> DEFINE Less == OpToRel(<, Nat)
<1>1. IsWellFoundedOn(Less, Nat)
  BY NatLessThanWellFounded
<1>2. \A x, y \in Nat : x < y => <<x, y>> \in Less
  BY DEF OpToRel
<1> HIDE DEF Less
<1>3. PICK n \in S : \A m \in S : ~ (<<m, n>> \in Less)
  BY <1>1, WFMin
<1>4. \A m \in S : ~ (m < n)
  BY <1>2, <1>3
<1> QED BY <1>4

\* A set of numbers with 0 and the successor of each of its members below n.
LEMMA CountedUp ==
    ASSUME NEW n \in Nat, NEW S, 0 \in S, \A i \in 0..n : i \in S /\ i < n => i + 1 \in S
    PROVE  0..n \subseteq S
<1> SUFFICES ASSUME NEW k \in 0..n, k \notin S PROVE FALSE
  OBVIOUS
<1> DEFINE B == {i \in 0..n : i \notin S}
<1>1. B \in SUBSET Nat /\ B # {}
  OBVIOUS
<1>2. PICK m \in B : \A i \in B : m <= i
  <2> HIDE DEF B
  <2> QED BY <1>1, Minimum
<1>3. m # 0 /\ m \in 0..n /\ m \notin S
  OBVIOUS
<1>4. m - 1 \in 0..n /\ m - 1 \notin B
  BY <1>2, <1>3
<1> QED BY <1>3, <1>4

\* An entry is chosen for each place in the order of the entries' numbers.
LEMMA NamedAll ==
    ASSUME NEW n \in Nat, NEW entries, DOMAIN entries = 1..n,
           \A k \in 1..n : entries[k].id # 0
    PROVE  Named(entries) = [k \in 1..n |-> entries[k]]
<1> DEFINE named == {k \in DOMAIN entries : entries[k].id # 0}
           Nth(i) == CHOOSE k \in named : Cardinality({j \in named : j < k}) + 1 = i
<1>1. named = 1..n
  OBVIOUS
<1>2. Cardinality(1..n) = n
  <2>1. 1 \in Int /\ n \in Int /\ (IF 1 > n THEN 0 ELSE n - 1 + 1) = n
    OBVIOUS
  <2> QED BY <2>1, FS_Interval
<1>3. ASSUME NEW k \in 1..n PROVE Cardinality({j \in named : j < k}) + 1 = k
  <2> DEFINE below == {j \in named : j < k}
  <2>1. below = 1..(k - 1)
    BY <1>1
  <2>2. 1 \in Int /\ k - 1 \in Int /\ (IF 1 > k - 1 THEN 0 ELSE k - 1 - 1 + 1) = k - 1
    OBVIOUS
  <2> HIDE DEF below
  <2>3. Cardinality(below) = k - 1
    BY <2>1, <2>2, FS_Interval
  <2>4. Cardinality(below) + 1 = k
    BY <2>3
  <2> QED BY <2>4 DEF below
<1>4. ASSUME NEW i \in 1..n PROVE Nth(i) = i
  <2>1. \E k \in named : Cardinality({j \in named : j < k}) + 1 = i
    BY <1>1, <1>3
  <2>2. Nth(i) \in named /\ Cardinality({j \in named : j < Nth(i)}) + 1 = i
    BY <2>1
  <2> HIDE DEF Nth
  <2> QED BY <1>1, <1>3, <2>2
<1>5. Named(entries) = [i \in 1..Cardinality(named) |-> entries[Nth(i)]]
  BY DEF Named
<1> HIDE DEF named, Nth
<1> QED BY <1>1, <1>2, <1>4, <1>5

\* A delta is merged item by item: what is known after each item is what remains.
LEMMA ReceivedIs ==
    ASSUME NEW items, Len(items) \in Nat, NEW v,
           v = [n \in 0..Len(items) |->
                  IF n = 0 THEN buffer ELSE Merged(v[n - 1], items[n])]
    PROVE  Received(items) = v[Len(items)]
<1> DEFINE L == Len(items)
           Rec(f) == f = [n \in 0..L |-> IF n = 0 THEN buffer ELSE Merged(f[n - 1], items[n])]
           r == CHOOSE f : Rec(f)
           S == {n \in 0..L : r[n] = v[n]}
<1>1. Rec(r)
  <2>1. \E f : Rec(f)
    OBVIOUS
  <2> QED BY <2>1
<1>2. Received(items) = r[L]
  BY DEF Received
<1> HIDE DEF r
<1>3. 0 \in S
  BY <1>1
<1>4. ASSUME NEW n \in 0..L, n \in S, n < L PROVE n + 1 \in S
  <2>1. n + 1 \in 0..L /\ n + 1 # 0 /\ (n + 1) - 1 = n
    BY <1>4
  <2>2. r[n + 1] = Merged(r[n], items[n + 1])
    BY <1>1, <2>1
  <2>3. v[n + 1] = Merged(v[n], items[n + 1])
    BY <2>1
  <2> QED BY <1>4, <2>1, <2>2, <2>3
<1> HIDE DEF S, L
<1>5. 0..L \subseteq S
  BY <1>3, <1>4, CountedUp DEF L
<1>6. L \in S
  BY <1>5 DEF L
<1> QED BY <1>2, <1>6 DEF S, L

-------------------------------------------------------------------------------
(* What the accumulator holds                                                   *)

\* The first `size` fragments of the arguments of call c, which may come twice.
TextOf(c, size) ==
    [k \in 1..size |-> [of |-> c, part |-> IF k <= Parts THEN k ELSE k - Parts]]
KeyOf(c) ==
    IF answer.delivery = "function" THEN <<"function", -1>>
    ELSE IF answer.delivery = "reasoning" THEN <<"id", c>>
    ELSE IF answer.delivery \in {"no_ids", "no_ids_in_turn"} THEN <<"number", c>>
    ELSE <<"at", c>>
Filed(c, size) == [key |-> KeyOf(c), id |-> c, text |-> TextOf(c, size)]
Entries(m, size) == [c \in 1..m |-> Filed(c, size)]
KeysApart(n) == \A c, d \in 1..n : KeyOf(c) = KeyOf(d) => c = d

Piece == [of : Int, part : Int]
Key == {"at", "id", "number", "function"} \X Int
Entry == [key : Key, id : 0..MaxCalls, text : Seq(Piece)]
Item == [key : Key, fragment : [id : 0..MaxCalls, text : Seq(Piece)]]
Distinct(b) == \A j, k \in DOMAIN b : b[j].key = b[k].key => j = k

LEMMA TextIs ==
    ASSUME NEW c \in Int, NEW size \in Nat
    PROVE  /\ TextOf(c, size) \in Seq(Piece) /\ Len(TextOf(c, size)) = size
           /\ DOMAIN TextOf(c, size) = 1..size
<1>1. Parts \in Nat \ {0}
  BY LlmStreamAssumption
<1> QED BY <1>1 DEF TextOf, Piece

LEMMA TextGrows ==
    ASSUME NEW c \in Int
    PROVE  /\ Fragment(c, 0).text = TextOf(c, 0)
           /\ \A s \in 1..Parts : TextOf(c, s - 1) \o Fragment(c, s).text = TextOf(c, s)
           /\ WholeCall(c).text = TextOf(c, Parts)
           /\ TextOf(c, Parts) \o WholeCall(c).text = TextOf(c, Parts + Parts)
<1>1. Parts \in Nat \ {0}
  BY LlmStreamAssumption
<1>2. Fragment(c, 0).text = TextOf(c, 0)
  BY DEF Fragment, TextOf
<1>3. ASSUME NEW s \in 1..Parts PROVE TextOf(c, s - 1) \o Fragment(c, s).text = TextOf(c, s)
  <2> DEFINE old == TextOf(c, s - 1)
             piece == [of |-> c, part |-> s]
  <2>1. Fragment(c, s).text = <<piece>> /\ s # 0
    BY <1>1 DEF Fragment
  <2>2. old \in Seq(Piece) /\ Len(old) = s - 1 /\ piece \in Piece
    BY <1>1, TextIs DEF Piece
  <2>3. \A k \in 1..(s - 1) : old[k] = [of |-> c, part |-> k]
    BY <1>1 DEF TextOf
  <2> HIDE DEF old, piece
  <2>4. old \o <<piece>> = [k \in 1..s |-> IF k = s THEN piece ELSE old[k]]
    BY <2>2
  <2>5. TextOf(c, s) = [k \in 1..s |-> [of |-> c, part |-> k]]
    BY <1>1 DEF TextOf
  <2> QED BY <2>1, <2>3, <2>4, <2>5 DEF old, piece
<1>4. WholeCall(c).text = TextOf(c, Parts)
  BY <1>1 DEF WholeCall, TextOf
<1>5. TextOf(c, Parts) \o TextOf(c, Parts) = TextOf(c, Parts + Parts)
  <2> DEFINE t == TextOf(c, Parts)
             u == TextOf(c, Parts + Parts)
  <2>1. t \in Seq(Piece) /\ Len(t) = Parts /\ u \in Seq(Piece) /\ Len(u) = Parts + Parts
    BY <1>1, TextIs
  <2>2. \A k \in 1..Parts : u[k] = t[k] /\ u[Parts + k] = t[k]
    BY <1>1 DEF TextOf
  <2> HIDE DEF t, u
  <2>3. t \o t \in Seq(Piece) /\ Len(t \o t) = Parts + Parts
    BY <1>1, <2>1
  <2>4. ASSUME NEW k \in 1..(Parts + Parts) PROVE (t \o t)[k] = u[k]
    <3>1. CASE k <= Parts
      BY <1>1, <2>1, <2>2, <3>1
    <3>2. CASE ~ (k <= Parts)
      <4>1. k - Parts \in 1..Parts /\ Parts + (k - Parts) = k
        BY <1>1, <3>2
      <4>2. (t \o t)[k] = t[k - Parts]
        BY <1>1, <2>1, <3>2
      <4>3. u[Parts + (k - Parts)] = t[k - Parts]
        BY <2>2, <4>1
      <4> QED BY <4>1, <4>2, <4>3
    <3> QED BY <3>1, <3>2
  <2>5. t \o t = u
    BY <1>1, <2>1, <2>3, <2>4
  <2> QED BY <2>5 DEF t, u
<1> QED BY <1>2, <1>3, <1>4, <1>5

\* What the client makes of these texts.
LEMMA DecodedIs ==
    ASSUME NEW n \in Nat, Calls = 1..n, NEW c \in 1..n, NEW size \in 0..(Parts + Parts)
    PROVE  /\ size = 0 => Decoded(TextOf(c, size)) = {}
           /\ size \in 1..(Parts - 1) => Decoded(TextOf(c, size)) = NotJson
           /\ size = Parts => Decoded(TextOf(c, size)) = Meant(c).keys
           /\ size = Parts + Parts =>
                Decoded(TextOf(c, size)) = IF answer.calls[c] THEN {c} ELSE NotJson
<1> DEFINE text == TextOf(c, size)
           objects == {k \in DOMAIN text : text[k].part = 1}
           whole == /\ Len(text) % Parts = 0
                    /\ \A k \in DOMAIN text :
                          /\ text[k].part = ((k - 1) % Parts) + 1
                          /\ text[k].part > 1 => text[k].of = text[k - 1].of
           keys == {text[k].of : k \in objects} \cap {d \in Calls : answer.calls[d]}
<1>1. Parts \in Nat \ {0}
  BY LlmStreamAssumption
<1>2. Decoded(text) = IF ~whole \/ (Cardinality(objects) > 1 /\ keys = {}) THEN NotJson ELSE keys
  BY DEF Decoded
<1>3. /\ DOMAIN text = 1..size /\ Len(text) = size
      /\ \A k \in 1..size : text[k] = [of |-> c, part |-> IF k <= Parts THEN k ELSE k - Parts]
  BY <1>1, TextIs DEF TextOf
<1>4. \A k \in 1..size : text[k].of = c /\ text[k].part = IF k <= Parts THEN k ELSE k - Parts
  BY <1>3
<1> HIDE DEF text
<1>5. \A k \in 1..size : text[k].part = ((k - 1) % Parts) + 1
  <2> SUFFICES ASSUME NEW k \in 1..size PROVE text[k].part = ((k - 1) % Parts) + 1
    OBVIOUS
  <2>1. CASE k <= Parts
    BY <1>1, <1>4, <2>1, Remainders
  <2>2. CASE k > Parts
    <3>1. k - 1 - Parts \in 0..(Parts - 1) /\ Parts + (k - 1 - Parts) = k - 1
      BY <1>1, <2>2
    <3>2. (k - 1) % Parts = k - 1 - Parts
      BY <3>1, Remainders
    <3> QED BY <1>1, <1>4, <2>2, <3>2
  <2> QED BY <1>1, <2>1, <2>2
<1>6. \A k \in 1..size : text[k].part > 1 => text[k].of = text[k - 1].of
  BY <1>1, <1>4
<1>7. whole <=> size % Parts = 0
  BY <1>3, <1>5, <1>6
<1>8. \A d \in 1..n : d \in {e \in Calls : answer.calls[e]} <=> answer.calls[d]
  OBVIOUS
<1> HIDE DEF whole
<1>9. CASE size = 0
  <2>1. objects = {} /\ keys = {}
    BY <1>3, <1>9
  <2>2. Cardinality(objects) = 0
    BY <2>1, FS_EmptySet
  <2> HIDE DEF objects
  <2>3. whole
    BY <1>7, <1>9, Multiples
  <2> QED BY <1>1, <1>2, <1>9, <2>1, <2>2, <2>3 DEF text
<1>10. CASE size \in 1..(Parts - 1)
  <2>1. size % Parts = size
    BY <1>1, <1>10, Remainders
  <2> QED BY <1>1, <1>2, <1>7, <1>10, <2>1 DEF text
<1>11. CASE size = Parts
  <2>1. objects = {1}
    BY <1>1, <1>3, <1>4, <1>11
  <2>2. Cardinality(objects) = 1
    BY <2>1, FS_Singleton
  <2>3. keys = Meant(c).keys
    BY <1>1, <1>4, <1>8, <1>11, <2>1 DEF Meant
  <2> HIDE DEF objects, keys
  <2>4. whole
    BY <1>7, <1>11, Multiples
  <2> QED BY <1>1, <1>2, <1>11, <2>2, <2>3, <2>4 DEF text
<1>12. CASE size = Parts + Parts
  <2>1. objects = {1, Parts + 1}
    BY <1>1, <1>3, <1>4, <1>12
  <2>2. Cardinality(objects) = 2
    <3>1. IsFiniteSet({1}) /\ Cardinality({1}) = 1
      BY FS_Singleton
    <3>2. Parts + 1 \notin {1}
      BY <1>1
    <3>3. Cardinality({1} \cup {Parts + 1}) = 1 + 1
      BY <3>1, <3>2, FS_AddElement
    <3>4. objects = {1} \cup {Parts + 1}
      BY <2>1
    <3> HIDE DEF objects
    <3> QED BY <3>3, <3>4
  <2>3. keys = IF answer.calls[c] THEN {c} ELSE {}
    BY <1>1, <1>4, <1>8, <1>12, <2>1
  <2> HIDE DEF objects, keys
  <2>4. whole
    BY <1>7, <1>12, Multiples
  <2> QED BY <1>1, <1>2, <1>12, <2>2, <2>3, <2>4 DEF text
<1> QED BY <1>9, <1>10, <1>11, <1>12 DEF text

LEMMA DecodedTyped ==
    ASSUME NEW text PROVE Decoded(text) = NotJson \/ Decoded(text) \subseteq Calls
BY DEF Decoded

-------------------------------------------------------------------------------
(* What the accumulator becomes                                                 *)

LEMMA EntriesTyped ==
    ASSUME NEW m \in 0..MaxCalls, NEW size \in Nat, KeysApart(m)
    PROVE  Entries(m, size) \in Seq(Entry) /\ Distinct(Entries(m, size))
           /\ DOMAIN Entries(m, size) = 1..m /\ Len(Entries(m, size)) = m
<1>1. ASSUME NEW c \in 1..m PROVE Filed(c, size) \in Entry /\ Filed(c, size).key = KeyOf(c)
  <2>1. c \in Int /\ c \in 0..MaxCalls /\ TextOf(c, size) \in Seq(Piece)
    BY LlmStreamAssumption, TextIs
  <2>2. KeyOf(c) \in Key
    BY <2>1 DEF KeyOf, Key
  <2> QED BY <2>1, <2>2 DEF Filed, Entry
<1> HIDE DEF Entry
<1>2. \A c, d \in 1..m : Filed(c, size).key = Filed(d, size).key => c = d
  BY <1>1 DEF KeysApart
<1>3. m \in Nat
  BY LlmStreamAssumption
<1> QED BY <1>1, <1>2, <1>3 DEF Entries, Distinct

\* A call that is new opens an entry behind the others.
LEMMA MergeOpens ==
    ASSUME NEW m \in Nat, m + 1 \in 1..MaxCalls, NEW size \in Nat, KeysApart(m + 1), NEW item,
           item = [key |-> KeyOf(m + 1), fragment |-> [id |-> m + 1, text |-> TextOf(m + 1, size)]]
    PROVE  Merged(Entries(m, size), item) = Entries(m + 1, size)
<1> DEFINE old == Entries(m, size)
           last == Filed(m + 1, size)
<1>1. KeysApart(m) /\ m \in 0..MaxCalls
  BY LlmStreamAssumption DEF KeysApart
<1>2. old \in Seq(Entry) /\ DOMAIN old = 1..m /\ Len(old) = m /\ last \in Entry
  <2>1. Entries(m + 1, size) \in Seq(Entry) /\ m + 1 \in DOMAIN Entries(m + 1, size)
    BY <1>1, EntriesTyped
  <2>2. Entries(m + 1, size)[m + 1] = last
    BY DEF Entries
  <2>3. last \in Entry
    <3> HIDE DEF last, Entry
    <3> QED BY <2>1, <2>2
  <2> QED BY <1>1, <2>3, EntriesTyped
<1>3. \A c \in 1..m : old[c] = Filed(c, size) /\ old[c].key = KeyOf(c)
  BY DEF Entries, Filed
<1>4. \A c \in 1..m : old[c].key # item.key
  BY <1>3 DEF KeysApart
<1>5. Merged(old, item) = Append(old, last)
  BY <1>2, <1>4 DEF Merged, Filed
<1> HIDE DEF old, last, Entry
<1>6. Append(old, last) = Entries(m + 1, size)
  <2> DEFINE all == Append(old, last)
             new == Entries(m + 1, size)
  <2>1. all \in Seq(Entry) /\ Len(all) = m + 1 /\ all[m + 1] = last /\ \A c \in 1..m : all[c] = old[c]
    BY <1>2
  <2>2. new \in Seq(Entry) /\ Len(new) = m + 1
    BY <1>1, EntriesTyped
  <2>3. new[m + 1] = last /\ \A c \in 1..m : new[c] = old[c]
    BY <1>3 DEF Entries, last
  <2> HIDE DEF all, new
  <2>4. \A c \in 1..(m + 1) : all[c] = new[c]
    <3> SUFFICES ASSUME NEW c \in 1..(m + 1) PROVE all[c] = new[c]
      OBVIOUS
    <3>1. CASE c = m + 1
      BY <2>1, <2>3, <3>1
    <3>2. CASE c # m + 1
      <4>1. c \in 1..m
        BY <3>2
      <4> QED BY <2>1, <2>3, <4>1
    <3> QED BY <3>1, <3>2
  <2>5. all = new
    BY <2>1, <2>2, <2>4
  <2> QED BY <2>5 DEF all, new
<1> QED BY <1>5, <1>6 DEF old

\* A fragment of a call that has come before joins the call's entry.
LEMMA MergeJoins ==
    ASSUME NEW n \in Nat, NEW c \in 1..n, NEW size, NEW size2, KeysApart(n), NEW item,
           item.key = KeyOf(c), Joined(Filed(c, size), item.fragment) = Filed(c, size2)
    PROVE  Merged([d \in 1..n |-> Filed(d, IF d <= c - 1 THEN size2 ELSE size)], item)
           = [d \in 1..n |-> Filed(d, IF d <= c THEN size2 ELSE size)]
<1> DEFINE old == [d \in 1..n |-> Filed(d, IF d <= c - 1 THEN size2 ELSE size)]
<1>1. \A d \in 1..n : old[d].key = KeyOf(d)
  BY DEF Filed
<1>2. old[c] = Filed(c, size) /\ old[c].key = item.key
  BY <1>1
<1>3. \A d \in 1..n : old[d].key = item.key <=> d = c
  BY <1>1 DEF KeysApart
<1>4. Merged(old, item) = [d \in 1..n |-> IF old[d].key = item.key
                                         THEN Joined(old[d], item.fragment) ELSE old[d]]
  BY <1>2 DEF Merged
<1>5. ASSUME NEW d \in 1..n
      PROVE  (IF old[d].key = item.key THEN Joined(old[d], item.fragment) ELSE old[d])
             = Filed(d, IF d <= c THEN size2 ELSE size)
  <2>1. CASE d = c
    BY <1>2, <2>1
  <2>2. CASE d # c
    <3>1. d <= c - 1 <=> d <= c
      BY <2>2
    <3> QED BY <1>3, <2>2, <3>1
  <2> QED BY <2>1, <2>2
<1> HIDE DEF old
<1> QED BY <1>4, <1>5 DEF old

\* A delta with every call of the answer, when none has come before.
LEMMA Opening ==
    ASSUME NEW n \in 0..MaxCalls, NEW size \in Nat, KeysApart(n), buffer = <<>>, NEW items,
           items = [c \in 1..n |-> [key |-> KeyOf(c),
                                    fragment |-> [id |-> c, text |-> TextOf(c, size)]]]
    PROVE  Received(items) = Entries(n, size)
<1>1. n \in Nat /\ Len(items) = n
  BY LlmStreamAssumption
<1> DEFINE v == [i \in 0..n |-> Entries(i, size)]
<1>2. Entries(0, size) = buffer
  BY DEF Entries
<1>3. ASSUME NEW i \in 0..n, i # 0 PROVE Merged(Entries(i - 1, size), items[i]) = Entries(i, size)
  <2>1. i - 1 \in Nat /\ (i - 1) + 1 = i /\ i \in 1..MaxCalls /\ i \in 1..n
    BY <1>3, LlmStreamAssumption
  <2>2. KeysApart(i)
    BY <2>1 DEF KeysApart
  <2>3. items[i] = [key |-> KeyOf(i), fragment |-> [id |-> i, text |-> TextOf(i, size)]]
    BY <2>1
  <2> QED BY <2>1, <2>2, <2>3, MergeOpens
<1>4. \A i \in 0..n : i # 0 => i - 1 \in 0..n /\ v[i - 1] = Entries(i - 1, size)
  BY <1>1
<1>5. v = [i \in 0..n |-> IF i = 0 THEN buffer ELSE Merged(v[i - 1], items[i])]
  <2>1. \A i \in 0..n : v[i] = IF i = 0 THEN buffer ELSE Merged(v[i - 1], items[i])
    BY <1>2, <1>3, <1>4
  <2>2. v = [i \in 0..n |-> v[i]]
    OBVIOUS
  <2> HIDE DEF v
  <2> QED BY <2>1, <2>2
<1>6. v[n] = Entries(n, size)
  BY <1>1
<1> HIDE DEF v
<1>7. Received(items) = v[n]
  BY <1>1, <1>5, ReceivedIs
<1> QED BY <1>6, <1>7

\* A delta with every call of the answer, after one that had every call as well.
LEMMA Continuing ==
    ASSUME NEW n \in 0..MaxCalls, NEW size, NEW size2, KeysApart(n), buffer = Entries(n, size),
           NEW items, DOMAIN items = 1..n, Len(items) = n,
           \A c \in 1..n : /\ items[c].key = KeyOf(c)
                           /\ Joined(Filed(c, size), items[c].fragment) = Filed(c, size2)
    PROVE  Received(items) = Entries(n, size2)
<1>1. n \in Nat
  BY LlmStreamAssumption
<1> DEFINE w(i) == [d \in 1..n |-> Filed(d, IF d <= i THEN size2 ELSE size)]
           v == [i \in 0..n |-> w(i)]
<1>2. w(0) = buffer /\ w(n) = Entries(n, size2)
  BY DEF Entries
<1>3. ASSUME NEW i \in 0..n, i # 0 PROVE Merged(w(i - 1), items[i]) = w(i)
  <2>1. i \in 1..n
    BY <1>3
  <2>2. items[i].key = KeyOf(i) /\ Joined(Filed(i, size), items[i].fragment) = Filed(i, size2)
    BY <2>1
  <2> QED BY <1>1, <2>1, <2>2, MergeJoins
<1> HIDE DEF w
<1>4. \A i \in 0..n : i # 0 => i - 1 \in 0..n /\ v[i - 1] = w(i - 1)
  BY <1>1
<1>5. v = [i \in 0..n |-> IF i = 0 THEN buffer ELSE Merged(v[i - 1], items[i])]
  <2>1. \A i \in 0..n : v[i] = IF i = 0 THEN buffer ELSE Merged(v[i - 1], items[i])
    BY <1>2, <1>3, <1>4
  <2>2. v = [i \in 0..n |-> v[i]]
    OBVIOUS
  <2> HIDE DEF v
  <2> QED BY <2>1, <2>2
<1>6. v[n] = Entries(n, size2)
  BY <1>1, <1>2
<1> HIDE DEF v
<1>7. Received(items) = v[n]
  BY <1>1, <1>5, ReceivedIs
<1> QED BY <1>6, <1>7

LEMMA ReceivedOne ==
    ASSUME NEW item PROVE Received(<<item>>) = Merged(buffer, item)
<1> DEFINE items == <<item>>
           v == [i \in 0..1 |-> IF i = 0 THEN buffer ELSE Merged(buffer, item)]
<1>1. Len(items) = 1 /\ items[1] = item
  OBVIOUS
<1>2. v = [i \in 0..1 |-> IF i = 0 THEN buffer ELSE Merged(v[i - 1], items[i])]
  <2>1. ASSUME NEW i \in 0..1, i # 0 PROVE i = 1 /\ v[i - 1] = buffer /\ items[i] = item
    BY <1>1, <2>1
  <2>2. \A i \in 0..1 : v[i] = IF i = 0 THEN buffer ELSE Merged(v[i - 1], items[i])
    BY <2>1
  <2>3. v = [i \in 0..1 |-> v[i]]
    OBVIOUS
  <2> HIDE DEF v, items
  <2> QED BY <2>2, <2>3
<1>3. v[1] = Merged(buffer, item)
  OBVIOUS
<1> HIDE DEF v, items
<1>4. Received(items) = v[1]
  BY <1>1, <1>2, ReceivedIs
<1> QED BY <1>3, <1>4 DEF items

\* Whatever is merged, there is one entry per key.
LEMMA MergedTyped ==
    ASSUME NEW b \in Seq(Entry), Distinct(b), NEW item \in Item
    PROVE  Merged(b, item) \in Seq(Entry) /\ Distinct(Merged(b, item))
<1> DEFINE new == [key |-> item.key, id |-> item.fragment.id, text |-> item.fragment.text]
<1>1. /\ item.key \in Key /\ item.fragment.id \in 0..MaxCalls
      /\ item.fragment.text \in Seq(Piece)
  BY DEF Item
<1>2. CASE \A k \in DOMAIN b : b[k].key # item.key
  <2>1. new \in Entry /\ new.key = item.key
    BY <1>1 DEF Entry
  <2>2. Merged(b, item) = Append(b, new)
    BY <1>2 DEF Merged
  <2> HIDE DEF new, Entry
  <2>3. Append(b, new) \in Seq(Entry) /\ DOMAIN Append(b, new) = 1..(Len(b) + 1)
    BY <2>1
  <2>4. \A k \in 1..(Len(b) + 1) : IF k = Len(b) + 1 THEN Append(b, new)[k] = new
                                   ELSE k \in DOMAIN b /\ Append(b, new)[k] = b[k]
    BY <2>1
  <2>5. Distinct(Append(b, new))
    BY <1>2, <2>1, <2>3, <2>4 DEF Distinct
  <2> QED BY <2>2, <2>3, <2>5
<1>3. CASE \E k \in DOMAIN b : b[k].key = item.key
  <2>1. Merged(b, item) = [k \in DOMAIN b |-> IF b[k].key = item.key
                                             THEN Joined(b[k], item.fragment) ELSE b[k]]
    BY <1>3 DEF Merged
  <2>2. ASSUME NEW e \in Entry
        PROVE  Joined(e, item.fragment) \in Entry /\ Joined(e, item.fragment).key = e.key
    <3>1. e.key \in Key /\ e.id \in 0..MaxCalls /\ e.text \in Seq(Piece)
      BY DEF Entry
    <3>2. e.text \o item.fragment.text \in Seq(Piece)
      BY <1>1, <3>1
    <3> QED BY <1>1, <3>1, <3>2 DEF Joined, Entry
  <2> DEFINE m == Merged(b, item)
  <2> HIDE DEF Entry
  <2>3. DOMAIN m = DOMAIN b /\ \A k \in DOMAIN b : m[k] \in Entry /\ m[k].key = b[k].key
    BY <2>1, <2>2
  <2>4. m \in Seq(Entry)
    <3>1. m = [k \in 1..Len(b) |-> m[k]] /\ Len(b) \in Nat /\ DOMAIN b = 1..Len(b)
      BY <2>1
    <3> HIDE DEF m
    <3>2. m \in [1..Len(b) -> Entry]
      BY <2>3, <3>1
    <3> QED BY <3>1, <3>2
  <2> HIDE DEF m
  <2>5. Distinct(m)
    BY <2>3 DEF Distinct
  <2> QED BY <2>4, <2>5 DEF m
<1> QED BY <1>2, <1>3

-------------------------------------------------------------------------------
(* The inductive invariant                                                      *)

\* The deltas of calls that run together get one key.
Plain == ~RunTogether

Types ==
    /\ pc \in {"idle", "streaming", "parsing", "answer", "invalid", "cancelled"}
    /\ answer \in Answers \cup {Silent} /\ (pc # "idle" => answer \in Answers)
    /\ answer.delivery = "function" => Len(answer.calls) <= 1
    /\ answer.repeats => answer.delivery = "together"
    /\ sent \in [Calls -> 0..(Parts + 1)]
    /\ said \in 0..TextPieces /\ (said > 0 => answer.text)
    /\ closed \in BOOLEAN /\ (closed => answer.delivery = "message" \/ answer.repeats)
    /\ pc = "idle" => buffer = <<>> /\ said = 0 /\ ~closed
    /\ \A k \in DOMAIN response.calls : response.calls[k].keys \subseteq 1..MaxCalls

\* How much of the answer the accumulator holds, from what the provider has sent.
Delivered(m, size) ==
    /\ answer.delivery \in {"reasoning", "no_ids", "no_ids_in_turn"} =>
         size = Parts /\ \A c \in Calls : sent[c] = IF c <= m THEN Parts + 1 ELSE 0
    /\ answer.delivery = "no_ids" => m \in {0, Len(answer.calls)}
    /\ answer.delivery = "message" =>
         size = Parts /\ m = IF closed THEN Len(answer.calls) ELSE 0
    /\ answer.delivery \in {"together", "in_turn", "function"} =>
         IF closed
         THEN m = Len(answer.calls) /\ size = Parts + Parts
         ELSE \/ m = 0 /\ \A c \in Calls : sent[c] = 0
              \/ m = Len(answer.calls) /\ size <= Parts /\ \A c \in Calls : sent[c] = size + 1

Filing ==
    /\ buffer \in Seq(Entry) /\ Distinct(buffer)
    /\ Plain => \E m \in 0..Len(answer.calls), size \in 0..(Parts + Parts) :
                   buffer = Entries(m, size) /\ Delivered(m, size)

\* A stream that has not broken ends with the last of the answer.
Ready == pc = "parsing" /\ ~broken => Complete

StreamInv == Types /\ Filing /\ Ready /\ WholeAnswerArrives /\ TruncatedCallsAreWhole

-------------------------------------------------------------------------------
(* What the invariant says of an answer                                         *)

LEMMA CallsAre ==
    ASSUME Types
    PROVE  \E n \in 0..MaxCalls : /\ Calls = 1..n /\ Len(answer.calls) = n
                                  /\ answer.calls \in [1..n -> BOOLEAN]
<1>1. CASE answer \in Answers
  <2>1. answer.calls \in UNION {[1..n -> BOOLEAN] : n \in 0..MaxCalls}
    BY <1>1 DEF Answers
  <2>2. PICK n \in 0..MaxCalls : answer.calls \in [1..n -> BOOLEAN]
    BY <2>1
  <2> QED BY <2>2, LlmStreamAssumption DEF Calls
<1>2. CASE answer = Silent
  <2>1. answer.calls = <<>>
    BY <1>2 DEF Silent
  <2>2. DOMAIN answer.calls = 1..0 /\ Len(answer.calls) = 0 /\ answer.calls \in [1..0 -> BOOLEAN]
    BY <2>1
  <2>3. 0 \in 0..MaxCalls
    BY LlmStreamAssumption
  <2> QED BY <2>2, <2>3 DEF Calls
<1> QED BY <1>1, <1>2 DEF Types

LEMMA KeysAreApart ==
    ASSUME Types, Plain, NEW m \in 0..Len(answer.calls)
    PROVE  KeysApart(m)
<1>1. PICK n \in 0..MaxCalls : Len(answer.calls) = n
  BY CallsAre
<1>2. n \in Nat /\ m \in Nat /\ m <= n
  BY <1>1, LlmStreamAssumption
<1>3. SUFFICES ASSUME NEW c \in 1..m, NEW d \in 1..m, KeyOf(c) = KeyOf(d) PROVE c = d
  BY DEF KeysApart
<1>4. CASE answer.delivery = "function"
  BY <1>1, <1>2, <1>4 DEF Types
<1>5. CASE answer.delivery # "function"
  BY <1>3, <1>5 DEF KeyOf
<1> QED BY <1>4, <1>5

LEMMA SameAnswer ==
    ASSUME answer' = answer
    PROVE  /\ \A m, size : Entries(m, size)' = Entries(m, size)
           /\ Plain' = Plain /\ Calls' = Calls
BY DEF Entries, Filed, KeyOf, TextOf, Plain, RunTogether, Calls

LEMMA FilingKept ==
    ASSUME Filing, UNCHANGED <<answer, buffer, sent, closed>>
    PROVE  Filing'
<1>1. \A m, size : Delivered(m, size)' = Delivered(m, size)
  BY DEF Delivered, Calls
<1>2. \A m, size : Entries(m, size)' = Entries(m, size)
  BY SameAnswer
<1> QED BY <1>1, <1>2 DEF Filing, Plain, RunTogether, Distinct

\* The accumulator of a plain answer is described by its entries.
LEMMA FilingGrows ==
    ASSUME Types, Plain, answer' = answer,
           NEW m \in 0..Len(answer.calls), NEW size \in 0..(Parts + Parts),
           buffer' = Entries(m, size), Delivered(m, size)'
    PROVE  Filing'
<1>1. m \in 0..MaxCalls /\ size \in Nat /\ KeysApart(m)
  <2>1. PICK n \in 0..MaxCalls : Len(answer.calls) = n
    BY CallsAre
  <2> QED BY <2>1, KeysAreApart, LlmStreamAssumption
<1>2. buffer' \in Seq(Entry) /\ Distinct(buffer')
  BY <1>1, EntriesTyped
<1>3. buffer' = Entries(m, size)'
  BY SameAnswer
<1> QED BY <1>2, <1>3 DEF Filing, Distinct

\* The fragments of all calls come together: each entry grows by its fragment.
LEMMA FragmentsArrive ==
    ASSUME Types, Filing, Plain, ~closed, answer.delivery \in {"together", "in_turn", "function"},
           NEW n \in 1..MaxCalls, Calls = 1..n, Len(answer.calls) = n,
           NEW k \in 0..Parts, \A c \in Calls : sent[c] = k, NEW items,
           items = [c \in 1..n |-> [key |-> KeyOf(c), fragment |-> Fragment(c, k)]]
    PROVE  Received(items) = Entries(n, k)
<1>1. Parts \in Nat \ {0} /\ MaxCalls \in Nat /\ n \in Nat /\ n \in 0..MaxCalls /\ 1 \in Calls
  BY LlmStreamAssumption
<1>2. KeysApart(n)
  BY <1>1, KeysAreApart
<1>3. PICK m \in 0..n, size \in 0..(Parts + Parts) : buffer = Entries(m, size) /\ Delivered(m, size)
  BY DEF Filing
<1>4. \/ m = 0 /\ k = 0
      \/ m = n /\ k = size + 1
  BY <1>1, <1>3 DEF Delivered
<1>5. CASE k = 0
  <2>1. buffer = <<>>
    BY <1>1, <1>3, <1>4, <1>5 DEF Entries
  <2>2. \A c \in 1..n : Fragment(c, k) = [id |-> c, text |-> TextOf(c, 0)]
    BY <1>5 DEF Fragment, TextOf
  <2>3. items = [c \in 1..n |-> [key |-> KeyOf(c), fragment |-> [id |-> c, text |-> TextOf(c, 0)]]]
    BY <2>2
  <2> QED BY <1>1, <1>2, <1>5, <2>1, <2>3, Opening
<1>6. CASE k # 0
  <2>1. buffer = Entries(n, k - 1) /\ k \in 1..Parts
    BY <1>1, <1>3, <1>4, <1>6
  <2>2. ASSUME NEW c \in 1..n
        PROVE  /\ items[c].key = KeyOf(c)
               /\ Joined(Filed(c, k - 1), items[c].fragment) = Filed(c, k)
    <3>1. TextOf(c, k - 1) \o Fragment(c, k).text = TextOf(c, k)
      <4>1. c \in Int
        BY <1>1
      <4> QED BY <2>1, <4>1, TextGrows
    <3>2. Fragment(c, k).id = 0
      BY <1>6 DEF Fragment
    <3>3. Joined(Filed(c, k - 1), Fragment(c, k)) = Filed(c, k)
      BY <3>1, <3>2 DEF Joined, Filed
    <3> QED BY <3>3
  <2>3. DOMAIN items = 1..n /\ Len(items) = n
    BY <1>1
  <2> QED BY <1>1, <1>2, <2>1, <2>2, <2>3, Continuing
<1> QED BY <1>5, <1>6

LEMMA SentAlike ==
    ASSUME Types, Filing, Plain, ~closed, answer.delivery \in {"together", "in_turn", "function"},
           NEW d \in Missing
    PROVE  \E n \in 1..MaxCalls, k \in 0..Parts :
              Calls = 1..n /\ Len(answer.calls) = n /\ \A c \in Calls : sent[c] = k
<1>1. PICK n \in 0..MaxCalls : Calls = 1..n /\ Len(answer.calls) = n
  BY CallsAre
<1>2. Parts \in Nat \ {0} /\ MaxCalls \in Nat /\ n \in 1..MaxCalls /\ d \in Calls /\ sent[d] <= Parts
  BY <1>1, LlmStreamAssumption DEF Missing
<1>3. PICK m \in 0..n, size \in 0..(Parts + Parts) : buffer = Entries(m, size) /\ Delivered(m, size)
  BY <1>1 DEF Filing
<1>4. \/ \A c \in Calls : sent[c] = 0
      \/ size + 1 <= Parts /\ \A c \in Calls : sent[c] = size + 1
  BY <1>1, <1>2, <1>3 DEF Delivered
<1>5. CASE \A c \in Calls : sent[c] = 0
  BY <1>1, <1>2, <1>5
<1>6. CASE size + 1 <= Parts /\ \A c \in Calls : sent[c] = size + 1
  <2>1. size + 1 \in 0..Parts
    BY <1>2, <1>6
  <2> QED BY <1>1, <1>2, <1>6, <2>1
<1> QED BY <1>4, <1>5, <1>6

-------------------------------------------------------------------------------
(* The deltas                                                                   *)

LEMMA FragmentIsItem ==
    ASSUME Types, NEW c \in Calls, NEW k \in 0..Parts
    PROVE  /\ At(1, Fragment(c, k)) \in Item
           /\ Fragment(c, k).id \in 0..MaxCalls /\ Fragment(c, k).text \in Seq(Piece)
<1>1. c \in Int /\ c \in 0..MaxCalls /\ 0 \in 0..MaxCalls /\ k \in Int
  BY CallsAre, LlmStreamAssumption
<1>2. Fragment(c, k).id \in 0..MaxCalls /\ Fragment(c, k).text \in Seq(Piece)
  <2>1. CASE k = 0
    BY <1>1, <2>1 DEF Fragment
  <2>2. CASE k # 0
    <3>1. [of |-> c, part |-> k] \in Piece
      BY <1>1 DEF Piece
    <3>2. Fragment(c, k) = [id |-> 0, text |-> <<[of |-> c, part |-> k]>>]
      BY <2>2 DEF Fragment
    <3> HIDE DEF Piece
    <3>3. \A p \in Piece : <<p>> \in Seq(Piece)
      OBVIOUS
    <3> QED BY <1>1, <3>1, <3>2, <3>3
  <2> QED BY <2>1, <2>2
<1>3. Fragment(c, k) = [id |-> Fragment(c, k).id, text |-> Fragment(c, k).text]
  BY DEF Fragment
<1>4. <<"at", 1>> \in Key
  BY DEF Key
<1> HIDE DEF Key
<1>5. ASSUME NEW f, f = [id |-> f.id, text |-> f.text], f.id \in 0..MaxCalls, f.text \in Seq(Piece)
      PROVE  At(1, f) \in Item
  BY <1>4, <1>5 DEF At, Item
<1> QED BY <1>2, <1>3, <1>5

LEMMA TogetherFiled ==
    ASSUME Types, Filing, CallsTogether
    PROVE  Filing'
<1> USE DEF CallsTogether, Receiving, Receive
<1>1. Plain /\ ~closed /\ answer.delivery = "together" /\ UNCHANGED <<answer, closed>>
  BY DEF Plain, RunTogether
<1>2. PICK d \in Missing : TRUE
  OBVIOUS
<1>3. PICK n \in 1..MaxCalls, k \in 0..Parts :
         Calls = 1..n /\ Len(answer.calls) = n /\ \A c \in Calls : sent[c] = k
  BY <1>1, <1>2, SentAlike
<1> DEFINE items == [c \in Calls |-> At(c, Fragment(c, sent[c]))]
<1>4. items = [c \in 1..n |-> [key |-> KeyOf(c), fragment |-> Fragment(c, k)]]
  BY <1>1, <1>3 DEF At, KeyOf
<1>5. buffer' = Entries(n, k)
  <2>1. buffer' = Received(items)
    OBVIOUS
  <2> HIDE DEF items
  <2> QED BY <1>1, <1>3, <1>4, <2>1, FragmentsArrive
<1>6. n \in 0..Len(answer.calls) /\ k \in 0..(Parts + Parts) /\ k <= Parts
  BY <1>3, LlmStreamAssumption
<1>7. sent' = [c \in Calls |-> sent[c] + 1]
  BY DEF Sent
<1>8. Delivered(n, k)'
  <2>1. Calls' = Calls /\ \A c \in Calls : sent'[c] = k + 1
    BY <1>1, <1>3, <1>7, SameAnswer
  <2> QED BY <1>1, <1>3, <1>6, <2>1 DEF Delivered
<1> QED BY <1>1, <1>5, <1>6, <1>8, FilingGrows

\* One call: its fragments are the only ones.
LEMMA AloneFiled ==
    ASSUME Types, Filing, Plain, ~closed, answer.delivery \in {"in_turn", "function"},
           UNCHANGED <<answer, closed>>, NEW d \in Missing, Sent({d}), NEW item,
           item = [key |-> KeyOf(1), fragment |-> Fragment(d, sent[d])], Receive(<<item>>)
    PROVE  Filing'
<1>1. PICK n \in 1..MaxCalls, k \in 0..Parts :
         Calls = 1..n /\ Len(answer.calls) = n /\ \A c \in Calls : sent[c] = k
  BY SentAlike
<1>2. n = 1 /\ d = 1
  BY <1>1, LlmStreamAssumption DEF Types, Plain, RunTogether, Missing
<1> DEFINE items == <<item>>
<1>3. items = [c \in 1..1 |-> [key |-> KeyOf(c), fragment |-> Fragment(c, k)]]
  BY <1>1, <1>2
<1>4. buffer' = Entries(1, k)
  <2>1. buffer' = Received(items)
    BY DEF Receive
  <2> HIDE DEF items
  <2> QED BY <1>1, <1>2, <1>3, <2>1, FragmentsArrive
<1>5. 1 \in 0..Len(answer.calls) /\ k \in 0..(Parts + Parts) /\ k <= Parts
  BY <1>1, <1>2, LlmStreamAssumption
<1>6. sent' = [c \in 1..1 |-> sent[c] + 1]
  BY <1>1, <1>2 DEF Sent
<1>7. Delivered(1, k)'
  <2>1. Calls' = Calls /\ \A c \in Calls : sent'[c] = k + 1
    BY <1>1, <1>2, <1>6, SameAnswer
  <2> QED BY <1>1, <1>2, <1>5, <2>1 DEF Delivered
<1> QED BY <1>4, <1>5, <1>7, FilingGrows

LEMMA InTurnFiled ==
    ASSUME Types, Filing, CallInTurn
    PROVE  Filing'
<1> USE DEF CallInTurn, Receiving
<1>1. PICK d \in Missing : Receive(<<At(1, Fragment(d, sent[d]))>>) /\ Sent({d})
  OBVIOUS
<1>2. ~closed /\ answer.delivery = "in_turn" /\ UNCHANGED <<answer, closed>>
  OBVIOUS
<1> DEFINE item == At(1, Fragment(d, sent[d]))
<1>3. CASE Plain
  <2>1. item = [key |-> KeyOf(1), fragment |-> Fragment(d, sent[d])]
    BY <1>2 DEF At, KeyOf
  <2> HIDE DEF item
  <2> QED BY <1>1, <1>2, <1>3, <2>1, AloneFiled DEF item
<1>4. CASE ~Plain
  <2>1. d \in Calls /\ sent[d] \in 0..Parts
    BY LlmStreamAssumption DEF Missing, Types
  <2>2. item \in Item
    BY <2>1, FragmentIsItem
  <2>3. buffer' = Merged(buffer, item)
    BY <1>1, ReceivedOne DEF Receive
  <2> HIDE DEF item
  <2>4. buffer' \in Seq(Entry) /\ Distinct(buffer')
    BY <2>2, <2>3, MergedTyped DEF Filing
  <2>5. ~Plain'
    BY <1>2, <1>4 DEF Plain, RunTogether
  <2> QED BY <2>4, <2>5 DEF Filing, Distinct
<1> QED BY <1>3, <1>4

LEMMA FunctionFiled ==
    ASSUME Types, Filing, FunctionCall
    PROVE  Filing'
<1> USE DEF FunctionCall, Receiving
<1>1. PICK d \in Missing : Receive(<<Function(Fragment(d, sent[d]))>>) /\ Sent({d})
  OBVIOUS
<1>2. ~closed /\ answer.delivery = "function" /\ Plain /\ UNCHANGED <<answer, closed>>
  BY DEF Plain, RunTogether
<1> DEFINE item == Function(Fragment(d, sent[d]))
<1>3. item = [key |-> KeyOf(1), fragment |-> Fragment(d, sent[d])]
  BY <1>2 DEF Function, KeyOf
<1> HIDE DEF item
<1> QED BY <1>1, <1>2, <1>3, AloneFiled DEF item

\* Calls in the reasoning come whole, one after the other.
LEMMA NextWhole ==
    ASSUME Types, Filing, Plain, ~closed, answer.delivery \in {"reasoning", "no_ids_in_turn"},
           UNCHANGED <<answer, closed>>, NEW d \in Missing, \A c \in Missing : d <= c,
           sent' = [sent EXCEPT ![d] = Parts + 1], NEW item,
           item = [key |-> KeyOf(d), fragment |-> WholeCall(d)], Receive(<<item>>)
    PROVE  Filing'
<1>3. PICK n \in 0..MaxCalls : Calls = 1..n /\ Len(answer.calls) = n
  BY CallsAre
<1>4. PICK m \in 0..n, size \in 0..(Parts + Parts) : buffer = Entries(m, size) /\ Delivered(m, size)
  BY <1>3 DEF Filing
<1>5. Parts \in Nat \ {0} /\ MaxCalls \in Nat
  BY LlmStreamAssumption
<1>6. size = Parts /\ \A c \in Calls : sent[c] = IF c <= m THEN Parts + 1 ELSE 0
  BY <1>4 DEF Delivered
<1>7. d = m + 1 /\ m + 1 \in Calls /\ m \in Nat
  <2>1. d \in 1..n /\ m < d
    BY <1>3, <1>5, <1>6 DEF Missing
  <2>2. m + 1 \in 1..n /\ m + 1 \in Missing
    BY <1>3, <1>5, <1>6, <2>1 DEF Missing
  <2> QED BY <1>3, <2>1, <2>2
<1>8. item = [key |-> KeyOf(m + 1), fragment |-> [id |-> m + 1, text |-> TextOf(m + 1, Parts)]]
  <2>1. WholeCall(d).text = TextOf(d, Parts)
    <3>1. d \in Int
      BY <1>3, <1>7
    <3> QED BY <3>1, TextGrows
  <2>2. WholeCall(d) = [id |-> d, text |-> WholeCall(d).text]
    BY DEF WholeCall
  <2> QED BY <1>7, <2>1, <2>2
<1>9. KeysApart(m + 1)
  BY <1>3, <1>7, KeysAreApart
<1>10. buffer' = Entries(m + 1, Parts)
  <2>1. buffer' = Merged(buffer, item)
    BY ReceivedOne DEF Receive
  <2>2. m + 1 \in 1..MaxCalls
    BY <1>3, <1>5, <1>7
  <2> QED BY <1>4, <1>5, <1>6, <1>7, <1>8, <1>9, <2>1, <2>2, MergeOpens
<1>11. Delivered(m + 1, Parts)'
  <2>1. Calls' = Calls
    BY SameAnswer
  <2>2. \A c \in Calls : sent'[c] = IF c <= m + 1 THEN Parts + 1 ELSE 0
    BY <1>3, <1>6, <1>7 DEF Types
  <2> QED BY <2>1, <2>2 DEF Delivered
<1>12. m + 1 \in 0..Len(answer.calls) /\ Parts \in 0..(Parts + Parts)
  BY <1>3, <1>5, <1>7
<1> QED BY <1>10, <1>11, <1>12, FilingGrows

LEMMA ReasoningFiled ==
    ASSUME Types, Filing, CallInReasoning
    PROVE  Filing'
<1> USE DEF CallInReasoning, Receiving
<1>1. PICK d \in Missing : /\ \A c \in Missing : d <= c
                           /\ Receive(<<ById(WholeCall(d))>>)
                           /\ sent' = [sent EXCEPT ![d] = Parts + 1]
  OBVIOUS
<1>2. ~closed /\ answer.delivery = "reasoning" /\ Plain /\ UNCHANGED <<answer, closed>>
  BY DEF Plain, RunTogether
<1>3. ById(WholeCall(d)) = [key |-> KeyOf(d), fragment |-> WholeCall(d)]
  BY <1>2 DEF ById, KeyOf, WholeCall
<1> HIDE DEF CallInReasoning
<1> QED BY <1>1, <1>2, <1>3, NextWhole

\* Without ids all but a single call run together.
LEMMA WithoutIdFiled ==
    ASSUME Types, Filing, WholeCallWithoutId
    PROVE  Filing'
<1> USE DEF WholeCallWithoutId, Receiving
<1>1. PICK d \in Missing : /\ \A c \in Missing : d <= c
                           /\ Receive(<<ByNumber(1, WholeCall(d))>>)
                           /\ sent' = [sent EXCEPT ![d] = Parts + 1]
  OBVIOUS
<1>2. ~closed /\ answer.delivery = "no_ids_in_turn" /\ UNCHANGED <<answer, closed>>
  OBVIOUS
<1>3. PICK n \in 0..MaxCalls : Calls = 1..n /\ Len(answer.calls) = n
  BY CallsAre
<1>4. d \in 1..n /\ d \in Int /\ d \in 0..MaxCalls
  BY <1>3, LlmStreamAssumption DEF Missing
<1> DEFINE item == ByNumber(1, WholeCall(d))
<1> HIDE DEF WholeCallWithoutId
<1>5. CASE Plain
  <2>1. d = 1
    BY <1>2, <1>3, <1>4, <1>5, LlmStreamAssumption DEF Plain, RunTogether
  <2>2. item = [key |-> KeyOf(d), fragment |-> WholeCall(d)]
    BY <1>2, <2>1 DEF ByNumber, KeyOf
  <2> HIDE DEF item
  <2> QED BY <1>1, <1>2, <1>5, <2>2, NextWhole DEF item
<1>6. CASE ~Plain
  <2>1. WholeCall(d) \in [id : 0..MaxCalls, text : Seq(Piece)]
    <3>1. WholeCall(d).text \in Seq(Piece) /\ WholeCall(d).id = d
      <4>1. WholeCall(d).text = TextOf(d, Parts) /\ Parts \in Nat
        BY <1>4, TextGrows, LlmStreamAssumption
      <4> QED BY <1>4, <4>1, TextIs DEF WholeCall
    <3>2. WholeCall(d) = [id |-> WholeCall(d).id, text |-> WholeCall(d).text]
      BY DEF WholeCall
    <3> QED BY <1>4, <3>1, <3>2
  <2>2. item \in Item
    BY <2>1 DEF ByNumber, Item, Key
  <2>3. buffer' = Merged(buffer, item)
    BY <1>1, ReceivedOne DEF Receive
  <2> HIDE DEF item
  <2>4. buffer' \in Seq(Entry) /\ Distinct(buffer')
    BY <2>2, <2>3, MergedTyped DEF Filing
  <2>5. ~Plain'
    BY <1>2, <1>6 DEF Plain, RunTogether
  <2> QED BY <2>4, <2>5 DEF Filing, Distinct
<1> QED BY <1>5, <1>6

\* Whole calls with the keys of their places.
LEMMA WholeItems ==
    ASSUME Types, NEW n \in 0..MaxCalls, Calls = 1..n, answer.delivery = "no_ids"
    PROVE  [c \in Calls |-> ByNumber(c, WholeCall(c))]
           = [c \in 1..n |-> [key |-> KeyOf(c), fragment |-> [id |-> c, text |-> TextOf(c, Parts)]]]
<1> SUFFICES ASSUME NEW c \in 1..n
             PROVE  ByNumber(c, WholeCall(c))
                    = [key |-> KeyOf(c), fragment |-> [id |-> c, text |-> TextOf(c, Parts)]]
  OBVIOUS
<1>1. WholeCall(c).text = TextOf(c, Parts)
  <2>1. c \in Int
    BY LlmStreamAssumption
  <2> QED BY <2>1, TextGrows
<1>2. WholeCall(c) = [id |-> c, text |-> WholeCall(c).text]
  BY DEF WholeCall
<1>3. KeyOf(c) = <<"number", c>>
  BY DEF KeyOf
<1> QED BY <1>1, <1>2, <1>3 DEF ByNumber

\* Calls without ids in one delta have the numbers of their places.
LEMMA WithoutIdsFiled ==
    ASSUME Types, Filing, WholeCallsWithoutIds
    PROVE  Filing'
<1> USE DEF WholeCallsWithoutIds, Receiving
<1>1. Plain /\ ~closed /\ answer.delivery = "no_ids" /\ UNCHANGED <<answer, closed>>
  BY DEF Plain, RunTogether
<1>2. PICK n \in 0..MaxCalls : Calls = 1..n /\ Len(answer.calls) = n
  BY CallsAre
<1>3. Parts \in Nat \ {0} /\ MaxCalls \in Nat /\ n \in Nat /\ KeysApart(n)
  BY <1>1, <1>2, KeysAreApart, LlmStreamAssumption
<1>4. PICK m \in 0..n, size \in 0..(Parts + Parts) : buffer = Entries(m, size) /\ Delivered(m, size)
  BY <1>1, <1>2 DEF Filing
<1>5. CASE m = 0
  <2>1. buffer = <<>>
    BY <1>4, <1>5 DEF Entries
  <2> DEFINE items == [c \in Calls |-> ByNumber(c, WholeCall(c))]
  <2>2. items = [c \in 1..n |-> [key |-> KeyOf(c), fragment |-> [id |-> c, text |-> TextOf(c, Parts)]]]
    BY <1>1, <1>2, WholeItems
  <2>3. buffer' = Received(items)
    BY DEF Receive
  <2> HIDE DEF items
  <2>4. buffer' = Entries(n, Parts)
    BY <1>3, <2>1, <2>2, <2>3, Opening
  <2>5. Delivered(n, Parts)'
    <3>1. Calls' = Calls /\ \A c \in Calls : sent'[c] = Parts + 1 /\ c <= n
      BY <1>1, <1>2, SameAnswer
    <3>2. n = Len(answer.calls)' /\ answer'.delivery = "no_ids" /\ ~closed'
      BY <1>1, <1>2
    <3> HIDE DEF WholeCallsWithoutIds
    <3> QED BY <3>1, <3>2 DEF Delivered
  <2>6. n \in 0..Len(answer.calls) /\ Parts \in 0..(Parts + Parts)
    BY <1>2, <1>3
  <2> QED BY <1>1, <2>4, <2>5, <2>6, FilingGrows
<1>6. CASE m # 0
  <2>1. m = n /\ \A c \in Calls : c <= n /\ sent[c] = Parts + 1
    BY <1>1, <1>2, <1>3, <1>4, <1>6 DEF Delivered
  <2> QED BY <1>3, <2>1 DEF Missing
<1> QED BY <1>5, <1>6

\* The closing message carries every call, for the first or for the second time.
LEMMA ClosingFiled ==
    ASSUME Types, Filing, ClosingMessage
    PROVE  Filing'
<1> USE DEF ClosingMessage, Receiving
<1>1. Plain /\ ~closed /\ closed' /\ UNCHANGED answer /\ answer.delivery \in {"message", "together"}
  BY DEF Plain, RunTogether, Types
<1>2. PICK n \in 0..MaxCalls : Calls = 1..n /\ Len(answer.calls) = n
  BY CallsAre
<1>3. PICK m \in 0..n, size \in 0..(Parts + Parts) : buffer = Entries(m, size) /\ Delivered(m, size)
  BY <1>1, <1>2 DEF Filing
<1>4. Parts \in Nat \ {0} /\ MaxCalls \in Nat /\ n \in Nat /\ KeysApart(n)
  BY <1>1, <1>2, KeysAreApart, LlmStreamAssumption
<1> DEFINE items == [c \in Calls |-> At(c, WholeCall(c))]
<1>5. \A c \in 1..n : At(c, WholeCall(c)) = [key |-> KeyOf(c),
                                            fragment |-> [id |-> c, text |-> TextOf(c, Parts)]]
  <2> SUFFICES ASSUME NEW c \in 1..n
               PROVE  At(c, WholeCall(c)) = [key |-> KeyOf(c),
                                             fragment |-> [id |-> c, text |-> TextOf(c, Parts)]]
    OBVIOUS
  <2>1. WholeCall(c).text = TextOf(c, Parts)
    <3>1. c \in Int
      BY <1>4
    <3> QED BY <3>1, TextGrows
  <2>2. WholeCall(c) = [id |-> c, text |-> WholeCall(c).text]
    BY DEF WholeCall
  <2>3. KeyOf(c) = <<"at", c>>
    BY <1>1 DEF KeyOf
  <2> QED BY <2>1, <2>2, <2>3 DEF At
<1>6. items = [c \in 1..n |-> [key |-> KeyOf(c), fragment |-> [id |-> c, text |-> TextOf(c, Parts)]]]
  BY <1>2, <1>5
<1>7. buffer' = Received(items) /\ sent' = [c \in Calls |-> sent[c]]
  BY DEF Receive, Sent
<1> HIDE DEF items
<1>8. CASE answer.delivery = "message"
  <2>1. buffer = <<>>
    BY <1>1, <1>3, <1>8 DEF Delivered, Entries
  <2>2. buffer' = Entries(n, Parts)
    BY <1>4, <1>6, <1>7, <2>1, Opening
  <2>3. Delivered(n, Parts)'
    BY <1>1, <1>2, <1>8 DEF Delivered
  <2>4. n \in 0..Len(answer.calls) /\ Parts \in 0..(Parts + Parts)
    BY <1>2, <1>4
  <2> QED BY <1>1, <2>2, <2>3, <2>4, FilingGrows
<1>9. CASE answer.delivery = "together"
  <2>1. Missing = {}
    BY <1>9
  <2>2. buffer = Entries(n, Parts)
    <3>1. CASE n = 0
      BY <1>3, <3>1 DEF Entries
    <3>2. CASE n # 0
      <4>1. 1 \in Calls /\ sent[1] \in 0..(Parts + 1) /\ ~ (sent[1] <= Parts)
        BY <1>2, <1>4, <2>1, <3>2 DEF Missing, Types
      <4>2. sent[1] = Parts + 1
        BY <1>4, <4>1
      <4>3. m = n /\ size = Parts
        BY <1>1, <1>2, <1>3, <1>4, <1>9, <4>1, <4>2 DEF Delivered
      <4> QED BY <1>3, <4>3
    <3> QED BY <3>1, <3>2
  <2>3. ASSUME NEW c \in 1..n
        PROVE  /\ items[c].key = KeyOf(c)
               /\ Joined(Filed(c, Parts), items[c].fragment) = Filed(c, Parts + Parts)
    <3>1. c \in Int /\ c # 0
      BY <1>4
    <3>2. TextOf(c, Parts) \o TextOf(c, Parts) = TextOf(c, Parts + Parts)
      BY <3>1, TextGrows
    <3> QED BY <1>6, <3>1, <3>2 DEF Joined, Filed
  <2>4. DOMAIN items = 1..n /\ Len(items) = n
    BY <1>4, <1>6
  <2>5. buffer' = Entries(n, Parts + Parts)
    BY <1>4, <1>7, <2>2, <2>3, <2>4, Continuing
  <2>6. Delivered(n, Parts + Parts)'
    BY <1>1, <1>2, <1>9 DEF Delivered
  <2>7. n \in 0..Len(answer.calls) /\ Parts + Parts \in 0..(Parts + Parts)
    BY <1>2, <1>4
  <2> QED BY <1>1, <2>5, <2>6, <2>7, FilingGrows
<1> QED BY <1>1, <1>8, <1>9

-------------------------------------------------------------------------------
(* The answer of the client                                                     *)

\* What an unbroken plain answer has brought when the stream ends.
LEMMA AllArrived ==
    ASSUME Types, Filing, Plain, Complete, pc # "idle"
    PROVE  \E size \in 0..(Parts + Parts) :
             /\ buffer = Entries(Len(answer.calls), size)
             /\ answer.calls # <<>> => size = Parts \/ (size = Parts + Parts /\ answer.repeats)
<1>1. PICK n \in 0..MaxCalls : Calls = 1..n /\ Len(answer.calls) = n
  BY CallsAre
<1>2. Parts \in Nat \ {0} /\ MaxCalls \in Nat /\ n \in Nat
  BY LlmStreamAssumption
<1>3. PICK m \in 0..n, size \in 0..(Parts + Parts) : buffer = Entries(m, size) /\ Delivered(m, size)
  BY <1>1 DEF Filing
<1>4. answer.delivery \in {"together", "in_turn", "function", "reasoning", "no_ids",
                          "no_ids_in_turn", "message"}
  BY LlmStreamAssumption DEF Types, Answers
<1>5. CASE n = 0
  <2>1. answer.calls = <<>>
    <3>1. DOMAIN answer.calls = 1..0 /\ answer.calls \in [1..0 -> BOOLEAN]
      BY <1>1, <1>5, CallsAre DEF Calls
    <3> QED BY <3>1
  <2> QED BY <1>1, <1>3, <1>5, <2>1
<1>6. CASE n # 0
  <2>1. 1 \in Calls /\ n \in Calls /\ \A c \in Calls : sent[c] \in 0..(Parts + 1)
    BY <1>1, <1>2, <1>6 DEF Types
  <2>2. CASE answer.delivery = "message"
    BY <1>1, <1>3, <2>2 DEF Complete, Delivered
  <2>3. CASE answer.repeats
    BY <1>1, <1>3, <2>3 DEF Complete, Delivered, Types
  <2>4. CASE answer.delivery \in {"reasoning", "no_ids", "no_ids_in_turn"}
    <3>1. Missing = {}
      BY <2>4 DEF Complete, Types
    <3>2. ~ (sent[n] <= Parts)
      BY <2>1, <3>1 DEF Missing
    <3>3. m = n /\ size = Parts
      BY <1>2, <1>3, <2>1, <2>4, <3>2 DEF Delivered
    <3> QED BY <1>1, <1>3, <3>3
  <2>5. CASE answer.delivery \in {"together", "in_turn", "function"} /\ ~answer.repeats
    <3>1. Missing = {} /\ ~closed
      BY <2>5 DEF Complete, Types
    <3>2. ~ (sent[1] <= Parts)
      BY <2>1, <3>1 DEF Missing
    <3>3. sent[1] # 0 /\ sent[1] = Parts + 1
      BY <1>2, <2>1, <3>2
    <3>4. m = n /\ size = Parts
      BY <1>1, <1>2, <1>3, <2>1, <2>5, <3>1, <3>3 DEF Delivered
    <3> QED BY <1>1, <1>3, <3>4
  <2> QED BY <1>4, <2>2, <2>3, <2>4, <2>5
<1> QED BY <1>5, <1>6

\* The calls the client reads from the entries.
LEMMA ReadBack ==
    ASSUME Types, Plain, NEW m \in 0..Len(answer.calls), NEW size \in 0..(Parts + Parts),
           buffer = Entries(m, size)
    PROVE  Named(buffer) = [k \in 1..m |-> Filed(k, size)]
<1>1. PICK n \in 0..MaxCalls : Len(answer.calls) = n
  BY CallsAre
<1>2. m \in Nat
  BY <1>1, LlmStreamAssumption
<1>3. DOMAIN buffer = 1..m /\ \A k \in 1..m : buffer[k] = Filed(k, size) /\ buffer[k].id # 0
  BY <1>2 DEF Entries, Filed
<1>4. Named(buffer) = [k \in 1..m |-> buffer[k]]
  BY <1>2, <1>3, NamedAll
<1> QED BY <1>3, <1>4

\* The answer of the client, in the terms of Parse.
NamedCalls == LET named == Named(buffer)
              IN  [k \in DOMAIN named |-> [id |-> named[k].id, keys |-> Decoded(named[k].text)]]
TextRead == IF said = TextPieces THEN "all"
            ELSE IF said > 0 THEN "part"
            ELSE IF thought THEN "reasoning" ELSE "none"
Valid == /\ \A k \in DOMAIN NamedCalls : NamedCalls[k].keys # NotJson
         /\ NamedCalls # <<>> \/ TextRead # "none"

LEMMA Parsed ==
    ASSUME Parse
    PROVE  /\ pc = "parsing" /\ UNCHANGED <<answer, sent, said, thought, closed, buffer, broken>>
           /\ Valid => pc' = "answer" /\ response' = [calls |-> NamedCalls, text |-> TextRead]
           /\ ~Valid => pc' = "invalid" /\ response' = response
BY DEF Parse, NamedCalls, TextRead, Valid

LEMMA ReadCalls ==
    ASSUME Types, Plain, NEW m \in 0..Len(answer.calls), NEW size \in 0..(Parts + Parts),
           buffer = Entries(m, size)
    PROVE  NamedCalls = [k \in 1..m |-> [id |-> k, keys |-> Decoded(TextOf(k, size))]]
<1>1. Named(buffer) = [k \in 1..m |-> Filed(k, size)]
  BY ReadBack
<1> QED BY <1>1 DEF NamedCalls, Filed

LEMMA ParsedWhole ==
    ASSUME Types, Filing, Ready, Parse
    PROVE  WholeAnswerArrives'
<1>1. /\ pc = "parsing" /\ UNCHANGED <<answer, sent, said, thought, closed, buffer, broken>>
      /\ Valid => pc' = "answer" /\ response' = [calls |-> NamedCalls, text |-> TextRead]
      /\ ~Valid => pc' = "invalid" /\ response' = response
  BY Parsed
<1>2. SUFFICES ASSUME ~broken, Plain
               PROVE  /\ Valid => /\ NamedCalls = [c \in Calls |-> Meant(c)]
                                  /\ TextRead = "all" <=> answer.text
                      /\ ~Valid => \/ ~answer.text /\ ~answer.thought /\ answer.calls = <<>>
                                   \/ answer.repeats /\ \E c \in Calls : ~answer.calls[c]
  <2>1. \A c : Meant(c)' = Meant(c)
    BY <1>1 DEF Meant
  <2>2. Calls' = Calls /\ answer' = answer /\ broken' = broken
    BY <1>1, SameAnswer
  <2>3. CASE Valid
    <3>1. pc' = "answer" /\ response'.calls = NamedCalls /\ response'.text = TextRead
      BY <1>1, <2>3
    <3> QED BY <1>2, <2>1, <2>2, <2>3, <3>1 DEF WholeAnswerArrives, Plain, RunTogether
  <2>4. CASE ~Valid
    <3>1. pc' = "invalid"
      BY <1>1, <2>4
    <3> QED BY <1>2, <2>1, <2>2, <2>4, <3>1 DEF WholeAnswerArrives, Plain, RunTogether
  <2> QED BY <2>3, <2>4
<1>3. Complete
  BY <1>1, <1>2 DEF Ready
<1>4. PICK size \in 0..(Parts + Parts) :
         /\ buffer = Entries(Len(answer.calls), size)
         /\ answer.calls # <<>> => size = Parts \/ (size = Parts + Parts /\ answer.repeats)
  BY <1>1, <1>2, <1>3, AllArrived
<1>5. PICK n \in 0..MaxCalls : Calls = 1..n /\ Len(answer.calls) = n
                               /\ answer.calls \in [1..n -> BOOLEAN]
  BY CallsAre
<1>6. n \in Nat /\ n \in 0..n /\ Parts \in Nat \ {0}
  BY <1>5, LlmStreamAssumption
<1>7. NamedCalls = [k \in 1..n |-> [id |-> k, keys |-> Decoded(TextOf(k, size))]]
  BY <1>2, <1>4, <1>5, <1>6, ReadCalls
<1>8. TextRead = "all" <=> answer.text
  BY <1>3 DEF TextRead, Complete, Types, TextPieces
<1>9. TextRead = "none" => ~answer.text /\ ~answer.thought
  BY <1>3 DEF TextRead, Complete, TextPieces
<1>10. n = 0 <=> answer.calls = <<>>
  BY <1>5, <1>6
<1>11. NamedCalls = <<>> => n = 0
  BY <1>6, <1>7
<1>12. \A c \in 1..n : {c} # NotJson /\ {} # NotJson
  BY DEF NotJson
<1>13. CASE n = 0
  <2>1. NamedCalls = [c \in Calls |-> Meant(c)] /\ \A k \in DOMAIN NamedCalls : NamedCalls[k].keys # NotJson
    BY <1>5, <1>7, <1>13
  <2> QED BY <1>8, <1>9, <1>10, <1>13, <2>1 DEF Valid
<1>14. CASE n # 0 /\ size = Parts
  <2>1. \A c \in 1..n : Decoded(TextOf(c, size)) = Meant(c).keys /\ Meant(c).keys # NotJson
    BY <1>5, <1>6, <1>12, <1>14, DecodedIs DEF Meant
  <2>2. \A c \in 1..n : [id |-> c, keys |-> Decoded(TextOf(c, size))] = Meant(c)
    BY <2>1 DEF Meant
  <2>3. NamedCalls = [c \in Calls |-> Meant(c)]
    BY <1>5, <1>7, <2>2
  <2>4. \A k \in DOMAIN NamedCalls : NamedCalls[k].keys # NotJson
    BY <1>7, <2>1
  <2> QED BY <1>8, <1>11, <1>14, <2>3, <2>4 DEF Valid
<1>15. CASE n # 0 /\ size = Parts + Parts /\ answer.repeats
  <2>1. \A c \in 1..n : Decoded(TextOf(c, size)) = IF answer.calls[c] THEN {c} ELSE NotJson
    BY <1>5, <1>6, <1>15, DecodedIs
  <2>2. CASE \E c \in Calls : ~answer.calls[c]
    <3>1. PICK c \in 1..n : ~answer.calls[c]
      BY <1>5, <2>2
    <3>2. c \in DOMAIN NamedCalls /\ NamedCalls[c].keys = NotJson
      BY <1>7, <2>1, <3>1
    <3> QED BY <1>15, <2>2, <3>2 DEF Valid
  <2>3. CASE \A c \in Calls : answer.calls[c]
    <3>1. \A c \in 1..n : [id |-> c, keys |-> Decoded(TextOf(c, size))] = Meant(c)
      BY <1>5, <2>1, <2>3 DEF Meant
    <3>2. NamedCalls = [c \in Calls |-> Meant(c)]
      BY <1>5, <1>7, <3>1
    <3>3. \A k \in DOMAIN NamedCalls : NamedCalls[k].keys # NotJson
      BY <1>5, <1>7, <1>12, <2>1, <2>3
    <3> QED BY <1>8, <1>11, <1>15, <3>2, <3>3 DEF Valid
  <2> QED BY <2>2, <2>3
<1> QED BY <1>4, <1>10, <1>13, <1>14, <1>15

LEMMA ParsedTruncated ==
    ASSUME Types, Filing, Parse
    PROVE  TruncatedCallsAreWhole'
<1>1. /\ pc = "parsing" /\ UNCHANGED <<answer, sent, said, thought, closed, buffer, broken>>
      /\ Valid => pc' = "answer" /\ response' = [calls |-> NamedCalls, text |-> TextRead]
      /\ ~Valid => pc' = "invalid" /\ response' = response
  BY Parsed
<1>2. \A c : Meant(c)' = Meant(c)
  BY <1>1 DEF Meant
<1>3. SUFFICES ASSUME Plain, Valid, NEW k \in DOMAIN NamedCalls
               PROVE  NamedCalls[k].id = k /\ NamedCalls[k].keys \in {Meant(k).keys, {}}
  <2>1. CASE Valid
    <3>1. response'.calls = NamedCalls
      BY <1>1, <2>1
    <3> QED BY <1>1, <1>2, <1>3, <2>1, <3>1 DEF TruncatedCallsAreWhole, Plain, RunTogether
  <2>2. CASE ~Valid
    BY <1>1, <2>2 DEF TruncatedCallsAreWhole
  <2> QED BY <2>1, <2>2
<1>4. PICK n \in 0..MaxCalls : Calls = 1..n /\ Len(answer.calls) = n
                               /\ answer.calls \in [1..n -> BOOLEAN]
  BY CallsAre
<1>5. n \in Nat /\ Parts \in Nat \ {0}
  BY LlmStreamAssumption
<1>6. PICK m \in 0..n, size \in 0..(Parts + Parts) : buffer = Entries(m, size) /\ Delivered(m, size)
  BY <1>3, <1>4 DEF Filing
<1>7. NamedCalls = [c \in 1..m |-> [id |-> c, keys |-> Decoded(TextOf(c, size))]]
  BY <1>3, <1>4, <1>6, ReadCalls
<1>8. k \in 1..n /\ 1 <= m /\ NamedCalls[k].id = k /\ NamedCalls[k].keys = Decoded(TextOf(k, size))
  BY <1>3, <1>5, <1>7
<1>9. Decoded(TextOf(k, size)) # NotJson
  BY <1>3, <1>8 DEF Valid
<1>10. size <= Parts \/ size = Parts + Parts
  <2>1. answer.delivery \in {"together", "in_turn", "function", "reasoning", "no_ids",
                          "no_ids_in_turn", "message"}
    BY <1>1, LlmStreamAssumption DEF Types, Answers
  <2> QED BY <1>5, <1>6, <1>8, <2>1 DEF Delivered
<1>11. \/ size = 0
       \/ size \in 1..(Parts - 1)
       \/ size = Parts
       \/ size = Parts + Parts
  BY <1>5, <1>10
<1>12. Decoded(TextOf(k, size)) \in {Meant(k).keys, {}}
  BY <1>4, <1>5, <1>8, <1>9, <1>11, DecodedIs DEF Meant
<1> QED BY <1>8, <1>12

-------------------------------------------------------------------------------
(* The invariant and the theorems                                               *)

LEMMA TypesInit == Init => Types
<1> SUFFICES ASSUME Init PROVE Types
  OBVIOUS
<1> USE DEF Init
<1>1. answer = Silent /\ Silent.calls = <<>> /\ Silent.repeats = FALSE /\ Silent.delivery = "none"
  BY DEF Silent
<1>2. Calls = {} /\ Len(answer.calls) = 0
  BY <1>1 DEF Calls
<1>3. sent \in [Calls -> 0..(Parts + 1)]
  BY <1>2
<1>4. DOMAIN response.calls = {}
  BY DEF NoResponse
<1>5. said \in 0..TextPieces /\ ~(said > 0)
  BY DEF TextPieces
<1> QED BY <1>1, <1>2, <1>3, <1>4, <1>5 DEF Types

LEMMA FilingInit == Init => Filing
<1> SUFFICES ASSUME Init PROVE Filing
  OBVIOUS
<1>1. answer = Silent /\ Len(answer.calls) = 0 /\ answer.delivery = "none" /\ buffer = <<>>
  BY DEF Init, Silent
<1>2. Entries(0, 0) = <<>> /\ Delivered(0, 0)
  BY <1>1 DEF Entries, Delivered
<1>3. 0 \in 0..0 /\ 0 \in 0..(Parts + Parts)
  BY LlmStreamAssumption
<1>4. buffer \in Seq(Entry) /\ Distinct(buffer)
  BY <1>1 DEF Distinct
<1> QED BY <1>1, <1>2, <1>3, <1>4 DEF Filing

LEMMA InvInit == Init => StreamInv
<1>1. Init => Ready /\ WholeAnswerArrives /\ TruncatedCallsAreWhole
  BY DEF Init, Ready, WholeAnswerArrives, TruncatedCallsAreWhole
<1> QED BY <1>1, TypesInit, FilingInit DEF StreamInv

\* Until the client has answered there is nothing to say about its answer.
LEMMA Unanswered ==
    ASSUME pc' \notin {"answer", "invalid"}
    PROVE  WholeAnswerArrives' /\ TruncatedCallsAreWhole'
BY DEF WholeAnswerArrives, TruncatedCallsAreWhole

LEMMA AskKeeps ==
    ASSUME Types, Ask
    PROVE  Types' /\ Filing'
<1> USE DEF Ask
<1>1. PICK a \in Answers : /\ a.delivery = "function" => Len(a.calls) <= 1
                           /\ a.repeats => a.delivery = "together"
                           /\ answer' = a /\ sent' = [c \in DOMAIN a.calls |-> 0]
  OBVIOUS
<1>2. buffer' = <<>> /\ said' = 0 /\ ~closed' /\ pc' = "streaming" /\ response' = response
  BY DEF Types
<1>3. Calls' = DOMAIN a.calls /\ \A c \in Calls' : sent'[c] = 0
  BY <1>1 DEF Calls
<1>4. 0 \in 0..(Parts + 1) /\ 0 \in 0..(Parts + Parts) /\ Parts \in 0..(Parts + Parts)
  BY LlmStreamAssumption
<1>5. Types'
  <2>1. sent' \in [Calls' -> 0..(Parts + 1)]
    BY <1>1, <1>3, <1>4
  <2>2. said' \in 0..TextPieces /\ ~(said' > 0)
    BY <1>2 DEF TextPieces
  <2> QED BY <1>1, <1>2, <2>1, <2>2 DEF Types
<1>6. PICK n \in 0..MaxCalls : a.calls \in [1..n -> BOOLEAN]
  BY DEF Answers
<1>7. 0 \in 0..Len(a.calls)
  BY <1>6, LlmStreamAssumption
<1>8. Delivered(0, Parts)'
  <2>1. \A c \in DOMAIN a.calls : ~ (c <= 0)
    BY <1>6
  <2> QED BY <1>1, <1>2, <1>3, <2>1 DEF Delivered
<1>9. Entries(0, Parts)' = <<>>
  BY DEF Entries
<1>10. Filing'
  <2>1. buffer' \in Seq(Entry) /\ Distinct(buffer')
    BY <1>2 DEF Distinct
  <2> QED BY <1>1, <1>2, <1>4, <1>7, <1>8, <1>9, <2>1 DEF Filing, Distinct
<1> QED BY <1>5, <1>10

\* The deltas leave the text of the answer alone and send what is missing.
LEMMA TypesSent ==
    ASSUME Types, pc # "idle", UNCHANGED <<pc, answer, said, closed, response>>,
           sent' \in [Calls -> 0..(Parts + 1)]
    PROVE  Types'
<1>1. Calls' = Calls
  BY SameAnswer
<1> QED BY <1>1 DEF Types

LEMMA SentMissing ==
    ASSUME Types, NEW cs \in SUBSET Missing, Sent(cs)
    PROVE  sent' \in [Calls -> 0..(Parts + 1)]
BY LlmStreamAssumption DEF Types, Missing, Sent

LEMMA DeltaKeeps ==
    ASSUME Types, Filing,
           \/ CallsTogether \/ CallInTurn \/ FunctionCall \/ CallInReasoning
           \/ WholeCallsWithoutIds \/ WholeCallWithoutId \/ ClosingMessage
    PROVE  Types' /\ Filing'
<1>1. CASE CallsTogether
  <2>1. /\ pc # "idle" /\ UNCHANGED <<pc, answer, said, closed, response>> /\ ~closed
        /\ Sent(Calls) /\ Plain /\ answer.delivery = "together"
    BY <1>1 DEF CallsTogether, Receiving, Plain, RunTogether
  <2>2. PICK d \in Missing : TRUE
    BY <1>1 DEF CallsTogether
  <2>3. PICK n \in 1..MaxCalls, k \in 0..Parts : \A c \in Calls : sent[c] = k
    BY <2>1, <2>2, SentAlike
  <2>4. Calls \subseteq Missing
    BY <2>3, LlmStreamAssumption DEF Missing
  <2> QED BY <1>1, <2>1, <2>4, TypesSent, SentMissing, TogetherFiled
<1>2. CASE CallInTurn
  <2>1. pc # "idle" /\ UNCHANGED <<pc, answer, said, closed, response>>
    BY <1>2 DEF CallInTurn, Receiving
  <2>2. PICK d \in Missing : Sent({d})
    BY <1>2 DEF CallInTurn
  <2>3. {d} \in SUBSET Missing
    BY <2>2
  <2> QED BY <1>2, <2>1, <2>2, <2>3, TypesSent, SentMissing, InTurnFiled
<1>3. CASE FunctionCall
  <2>1. pc # "idle" /\ UNCHANGED <<pc, answer, said, closed, response>>
    BY <1>3 DEF FunctionCall, Receiving
  <2>2. PICK d \in Missing : Sent({d})
    BY <1>3 DEF FunctionCall
  <2>3. {d} \in SUBSET Missing
    BY <2>2
  <2> QED BY <1>3, <2>1, <2>2, <2>3, TypesSent, SentMissing, FunctionFiled
<1>4. CASE CallInReasoning
  <2>1. pc # "idle" /\ UNCHANGED <<pc, answer, said, closed, response>>
    BY <1>4 DEF CallInReasoning, Receiving
  <2>2. PICK d \in Missing : sent' = [sent EXCEPT ![d] = Parts + 1]
    BY <1>4 DEF CallInReasoning
  <2>3. sent' \in [Calls -> 0..(Parts + 1)]
    <3>1. sent \in [Calls -> 0..(Parts + 1)] /\ Parts + 1 \in 0..(Parts + 1)
      BY LlmStreamAssumption DEF Types
    <3> QED BY <2>2, <3>1
  <2> QED BY <1>4, <2>1, <2>3, TypesSent, ReasoningFiled
<1>5. CASE ClosingMessage
  <2> USE DEF ClosingMessage, Receiving
  <2>1. Calls' = Calls /\ pc = "streaming"
    BY <1>5, SameAnswer
  <2>2. sent' \in [Calls' -> 0..(Parts + 1)]
    BY <1>5, <2>1 DEF Sent, Types
  <2>3. said' \in 0..TextPieces /\ (said' > 0 => answer.text)
    BY <1>5 DEF Types, TextPieces
  <2>4. Types'
    BY <1>5, <2>1, <2>2, <2>3 DEF Types
  <2> QED BY <1>5, <2>4, ClosingFiled
<1>6. CASE WholeCallWithoutId
  <2>1. pc # "idle" /\ UNCHANGED <<pc, answer, said, closed, response>>
    BY <1>6 DEF WholeCallWithoutId, Receiving
  <2>2. PICK d \in Missing : sent' = [sent EXCEPT ![d] = Parts + 1]
    BY <1>6 DEF WholeCallWithoutId
  <2>3. sent' \in [Calls -> 0..(Parts + 1)]
    <3>1. sent \in [Calls -> 0..(Parts + 1)] /\ Parts + 1 \in 0..(Parts + 1)
      BY LlmStreamAssumption DEF Types
    <3> QED BY <2>2, <3>1
  <2> QED BY <1>6, <2>1, <2>3, TypesSent, WithoutIdFiled
<1>7. CASE WholeCallsWithoutIds
  <2>1. /\ pc # "idle" /\ UNCHANGED <<pc, answer, said, closed, response>>
        /\ sent' = [c \in Calls |-> Parts + 1]
    BY <1>7 DEF WholeCallsWithoutIds, Receiving
  <2>2. sent' \in [Calls -> 0..(Parts + 1)]
    BY <2>1, LlmStreamAssumption
  <2> QED BY <1>7, <2>1, <2>2, TypesSent, WithoutIdsFiled
<1> QED BY <1>1, <1>2, <1>3, <1>4, <1>5, <1>6, <1>7

LEMMA QuietKeeps ==
    ASSUME Types, Filing, Stop \/ NoticeStop \/ Content \/ Reasoning \/ StreamEnds \/ StreamBreaks
    PROVE  Types' /\ Filing'
<1> USE DEF Stop, NoticeStop, Content, Reasoning, StreamEnds, StreamBreaks, Receiving
<1>1. /\ UNCHANGED <<answer, buffer, sent, closed, response>>
      /\ pc \in {"streaming", "parsing"} /\ pc' \in {"streaming", "parsing", "cancelled"}
      /\ said' = said \/ (said' = said + 1 /\ said < TextPieces /\ answer.text)
  OBVIOUS
<1>2. Calls' = Calls
  BY <1>1, SameAnswer
<1>3. said' \in 0..TextPieces /\ (said' > 0 => answer.text)
  BY <1>1 DEF Types, TextPieces
<1>4. Types'
  BY <1>1, <1>2, <1>3 DEF Types
<1> QED BY <1>1, <1>4, FilingKept

LEMMA ParseKeeps ==
    ASSUME Types, Filing, Parse
    PROVE  Types' /\ Filing'
<1>1. /\ pc = "parsing" /\ UNCHANGED <<answer, sent, said, thought, closed, buffer, broken>>
      /\ Valid => pc' = "answer" /\ response' = [calls |-> NamedCalls, text |-> TextRead]
      /\ ~Valid => pc' = "invalid" /\ response' = response
  BY Parsed
<1>2. Calls' = Calls
  BY <1>1, SameAnswer
<1>3. \A k \in DOMAIN response'.calls : response'.calls[k].keys \subseteq 1..MaxCalls
  <2>1. CASE ~Valid
    BY <1>1, <2>1 DEF Types
  <2>2. CASE Valid
    <3>1. response'.calls = NamedCalls
      BY <1>1, <2>2
    <3>2. SUFFICES ASSUME NEW k \in DOMAIN NamedCalls PROVE NamedCalls[k].keys \subseteq 1..MaxCalls
      BY <3>1
    <3>3. NamedCalls[k].keys # NotJson
      BY <2>2 DEF Valid
    <3>4. NamedCalls[k].keys = Decoded(Named(buffer)[k].text)
      BY DEF NamedCalls
    <3>5. NamedCalls[k].keys \subseteq Calls
      BY <3>3, <3>4, DecodedTyped
    <3>6. Calls \subseteq 1..MaxCalls
      BY CallsAre, LlmStreamAssumption
    <3> QED BY <3>5, <3>6
  <2> QED BY <2>1, <2>2
<1>4. pc' \in {"answer", "invalid"}
  BY <1>1
<1>5. Types'
  BY <1>1, <1>2, <1>3, <1>4 DEF Types
<1> QED BY <1>1, <1>5, FilingKept

LEMMA InvNext == StreamInv /\ [Next]_vars => StreamInv'
<1> SUFFICES ASSUME StreamInv, [Next]_vars PROVE StreamInv'
  OBVIOUS
<1>1. Types /\ Filing /\ Ready /\ WholeAnswerArrives /\ TruncatedCallsAreWhole
  BY DEF StreamInv
<1>2. CASE Ask
  <2>1. pc' = "streaming"
    BY <1>2 DEF Ask
  <2>2. Ready'
    BY <2>1 DEF Ready
  <2> QED BY <1>1, <1>2, <2>1, <2>2, AskKeeps, Unanswered DEF StreamInv
<1>3. CASE \/ CallsTogether \/ CallInTurn \/ FunctionCall \/ CallInReasoning
           \/ WholeCallsWithoutIds \/ WholeCallWithoutId \/ ClosingMessage
  <2>1. pc' = "streaming"
    BY <1>3 DEF CallsTogether, CallInTurn, FunctionCall, CallInReasoning, WholeCallsWithoutIds,
                WholeCallWithoutId, ClosingMessage, Receiving
  <2>2. Ready'
    BY <2>1 DEF Ready
  <2> QED BY <1>1, <1>3, <2>1, <2>2, DeltaKeeps, Unanswered DEF StreamInv
<1>4. CASE Stop \/ NoticeStop \/ Content \/ Reasoning \/ StreamEnds \/ StreamBreaks
  <2> USE DEF Stop, NoticeStop, Content, Reasoning, StreamEnds, StreamBreaks, Receiving
  <2>1. pc' \notin {"answer", "invalid"}
    BY <1>4
  <2>2. Ready'
    <3> SUFFICES ASSUME pc' = "parsing", ~broken' PROVE Complete'
      BY DEF Ready
    <3>1. Complete /\ UNCHANGED <<answer, sent, said, thought, closed>>
      BY <1>1, <1>4 DEF Ready
    <3>2. Missing' = Missing
      BY <3>1, SameAnswer DEF Missing
    <3> QED BY <3>1, <3>2 DEF Complete
  <2>3. Types' /\ Filing'
    BY <1>1, <1>4, QuietKeeps
  <2> QED BY <2>1, <2>2, <2>3, Unanswered DEF StreamInv
<1>5. CASE Parse
  <2>1. pc' \in {"answer", "invalid"}
    BY <1>5, Parsed
  <2>2. Ready'
    BY <2>1 DEF Ready
  <2> QED BY <1>1, <1>5, <2>2, ParseKeeps, ParsedWhole, ParsedTruncated DEF StreamInv
<1>6. CASE UNCHANGED vars
  <2> USE <1>6 DEF vars
  <2>1. Types'
    BY <1>1 DEF Types, Calls
  <2>2. Filing'
    BY <1>1, FilingKept
  <2>3. Ready'
    BY <1>1 DEF Ready, Complete, Missing, Calls
  <2>4. WholeAnswerArrives' /\ TruncatedCallsAreWhole'
    BY <1>1 DEF WholeAnswerArrives, TruncatedCallsAreWhole, RunTogether, Meant, Calls
  <2> QED BY <2>1, <2>2, <2>3, <2>4 DEF StreamInv
<1> QED BY <1>2, <1>3, <1>4, <1>5, <1>6 DEF Next

LEMMA Invariance == Spec => []StreamInv
<1> QED BY InvInit, InvNext, PTL DEF Spec

\* The accumulator keeps one entry per key, its ids are those of calls, and the
\* client's answer has no keys but those the model gave (_append_stream_tool_call,
\* _recover_tool_arguments).
THEOREM TypeCorrect == Spec => []TypeOK
<1>1. StreamInv => TypeOK
  <2> SUFFICES ASSUME StreamInv PROVE TypeOK
    OBVIOUS
  <2>1. Types /\ buffer \in Seq(Entry) /\ Distinct(buffer)
    BY DEF StreamInv, Filing
  <2>2. \A k \in DOMAIN buffer : buffer[k].id \in 0..MaxCalls
    <3>1. \A e \in Entry : e.id \in 0..MaxCalls
      BY DEF Entry
    <3> HIDE DEF Entry
    <3> QED BY <2>1, <3>1
  <2> QED BY <2>1, <2>2 DEF Types, Distinct, TypeOK
<1> QED BY <1>1, Invariance, PTL

\* An answer that arrived whole reaches the agent whole, for any number of calls,
\* of fragments per call and every way of delivering them that tells them apart
\* (not for RunTogether: deltas of one call each, all at one position or all
\* without an id; response_parser.py:359, :921).
THEOREM WholeAnswersArrive == Spec => []WholeAnswerArrives
<1>1. StreamInv => WholeAnswerArrives
  BY DEF StreamInv
<1> QED BY <1>1, Invariance, PTL

\* Wherever a stream breaks, no kept call has a part of its arguments, for the
\* same answers.
THEOREM TruncatedCallsStayWhole == Spec => []TruncatedCallsAreWhole
<1>1. StreamInv => TruncatedCallsAreWhole
  BY DEF StreamInv
<1> QED BY <1>1, Invariance, PTL
===============================================================================
