------------------------ MODULE RequirementStoreProofs ------------------------
(* Type correctness of the requirement directory and of the calls under way,   *)
(* that no requirement is overwritten while one service writes and one deletes, *)
(* that links tell the truth where the agent works alone, that a new statement *)
(* raises the revision where one service stores and deletes and nothing stores *)
(* under an open window but the window, and that links resolve and revisions   *)
(* count where the user works alone, for every number of documents, items and  *)
(* calls.                                                                      *)
EXTENDS RequirementStore, FiniteSetTheorems, TLAPS

-------------------------------------------------------------------------------
(* Types                                                                       *)

LinkMaps == UNION {[T -> Link] : T \in SUBSET Rid}
Item == [uid : Int, text : Text, rev : Nat, links : LinkMaps]
Held == Seq([rid : Rid, item : Item])

Effects ==
    [op : {"save"}, rid : Rid, item : Item] \cup [op : {"bump"}, prefix : Prefix]
    \cup [op : {"unlink"}, rid : Rid] \cup [op : {"deleteItem"}, rid : Rid, must : BOOLEAN]
    \cup [op : {"sweep"}, rid : Rid, todo : SUBSET Prefix, ids : SUBSET Rid]
    \cup [op : {"writeDocument"}, prefix : Prefix, doc : Document]
    \cup [op : {"dropDocument"}, prefix : Prefix] \cup [op : {"removeTree"}, prefix : Prefix]
    \cup [op : {"refresh"}] \cup [op : {"closeEditor"}, editor : Editors]

\* The effects that change which documents a service has loaded.  No bump comes
\* after one: the document a call has still to bump is in the cache.
Loaders == {"refresh", "removeTree", "dropDocument"}
Bumpable(D, q) ==
    \A j \in DOMAIN q : q[j].op = "bump" =>
        q[j].prefix \in DOMAIN D /\ \A i \in DOMAIN q : i < j => q[i].op \notin Loaders
Underway(q, D) ==
    q \in Seq(Effects) /\ (q # <<>> => IsDocuments(D) /\ Bumpable(D, q))

FilesOK == /\ IsDocuments(docs)
           /\ DOMAIN items \subseteq Rid /\ \A r \in DOMAIN items : items[r] \in Item
ServicesOK == /\ cache = [s \in Services |-> cache[s]]
              /\ \A s \in Services : cache[s] = NotLoaded \/ IsDocuments(cache[s])
              /\ call = [s \in Services |-> call[s]]
              /\ \A s \in Services : Underway(call[s], cache[s])
CountersOK == calls \in 0..MaxCalls /\ changed \in [Prefix -> Nat]
Types == FilesOK /\ ServicesOK /\ CountersOK /\ editor \in [Editors -> Held]

\* An item that was read to be written back is one the sweep has come to.
Sweeping(q) == q # <<>> /\ q[1].op = "sweep"
SweptOK ==
    /\ swept \in [Services -> Held]
    /\ \A s \in Services : swept[s] # <<>> =>
          Sweeping(call[s]) /\ swept[s][1].rid \in call[s][1].ids

\* Every non-empty set of numbers has a smallest element.
LEMMA Minimum ==
    ASSUME NEW S \in SUBSET Nat, S # {}
    PROVE  \E n \in S : \A m \in S : n <= m
<1> DEFINE Less == OpToRel(<, Nat)
<1>1. IsWellFoundedOn(Less, Nat)
  BY NatLessThanWellFounded
<1>2. \A x, y \in Nat : x < y => <<x, y>> \in Less
  BY DEF OpToRel
<1> HIDE DEF Less
<1>3. PICK n \in S : \A m \in S : ~ (<<m, n>> \in Less)
  BY <1>1, WFMin
<1>4. \A m \in S : ~ (m < n)
  BY <1>2, <1>3
<1> QED BY <1>4

LEMMA ItemIs == \A i : IsItem(i) <=> i \in Item
BY DEF IsItem, Item, LinkMaps

LEMMA LinksIs ==
    ASSUME NEW f
    PROVE  f \in LinkMaps <=> f \in [DOMAIN f -> Link] /\ DOMAIN f \subseteq Rid
BY DEF LinkMaps

LEMMA RestrictIs ==
    ASSUME NEW f, NEW S
    PROVE  /\ DOMAIN Restrict(f, S) = S
           /\ \A x \in S : Restrict(f, S)[x] = f[x]
BY DEF Restrict

LEMMA LinksWithout ==
    ASSUME NEW f \in LinkMaps, NEW t
    PROVE  Without(f, t) \in LinkMaps
BY LinksIs, RestrictIs DEF Without, Restrict

LEMMA LinksWith ==
    ASSUME NEW f \in LinkMaps, NEW t \in Rid, NEW l \in Link
    PROVE  With(f, t, l) \in LinkMaps
<1> DEFINE g == With(f, t, l)
<1>1. f \in [DOMAIN f -> Link] /\ DOMAIN f \subseteq Rid
  BY LinksIs
<1>2. g \in [DOMAIN f \cup {t} -> Link] /\ DOMAIN g = DOMAIN f \cup {t}
  BY <1>1 DEF With
<1> HIDE DEF g
<1> QED BY <1>1, <1>2, LinksIs DEF g

LEMMA NewLinkType == NewLink \in Link
BY DEF NewLink, Link, None

LEMMA LinksToType ==
    ASSUME NEW T, T \subseteq Rid
    PROVE  LinksTo(T) \in LinkMaps
BY NewLinkType DEF LinksTo, LinkMaps

LEMMA NoLinks == <<>> \in LinkMaps
<1>1. <<>> = [x \in {} |-> NewLink]
  OBVIOUS
<1> QED BY <1>1, NewLinkType DEF LinkMaps

\* Preparing links for storage.
LEMMA PrepareLinksType ==
    ASSUME NEW D, NEW links \in LinkMaps, \A r \in DOMAIN items : items[r] \in Item
    PROVE  PrepareLinks(D, links) \in LinkMaps
<1> DEFINE g == PrepareLinks(D, links)
<1>1. links \in [DOMAIN links -> Link] /\ DOMAIN links \subseteq Rid
  BY LinksIs
<1>2. ASSUME NEW t \in DOMAIN links PROVE g[t] \in Link
  <2>1. links[t] \in Link
    BY <1>1
  <2>2. [links[t] EXCEPT !.suspect = TRUE] \in Link
    BY <2>1 DEF Link
  <2>3. [links[t] EXCEPT !.suspect = (links[t].rev # items[t].rev)] \in Link
    BY <2>1 DEF Link
  <2>4. t \in DOMAIN items =>
           [rev |-> items[t].rev, suspect |-> FALSE, seen |-> Seen(items[t])] \in Link
    BY DEF Seen, Item, Link
  <2> QED BY <2>2, <2>3, <2>4 DEF PrepareLinks
<1>3. g = [t \in DOMAIN links |-> g[t]]
  BY DEF PrepareLinks
<1> HIDE DEF g
<1>4. g \in [DOMAIN links -> Link] /\ DOMAIN g = DOMAIN links
  BY <1>2, <1>3
<1> QED BY <1>1, <1>4, LinksIs DEF g

\* A later version of an item: a new statement comes with a higher revision.
Follows(item, old) ==
    item.rev >= old.rev /\ (item.rev = old.rev => item.text = old.text)

\* What the calls make of an item.
LEMMA ItemLinks ==
    ASSUME NEW item \in Item, NEW links \in LinkMaps
    PROVE  [item EXCEPT !.links = links] \in Item
BY DEF Item

LEMMA CopyType ==
    ASSUME NEW item \in Item, NEW uid \in Int, NEW rev \in Nat, NEW links \in LinkMaps
    PROVE  /\ [item EXCEPT !.uid = uid, !.rev = rev] \in Item
           /\ [item EXCEPT !.uid = uid, !.rev = rev, !.links = links] \in Item
BY DEF Item

LEMMA LoadedType ==
    ASSUME NEW D, NEW rid \in DOMAIN items, \A r \in DOMAIN items : items[r] \in Item
    PROVE  /\ Loaded(D, rid) \in Item
           /\ Loaded(D, rid).uid = items[rid].uid /\ Loaded(D, rid).text = items[rid].text
           /\ Loaded(D, rid).rev = items[rid].rev
<1> DEFINE links == PrepareLinks(D, items[rid].links)
<1>1. items[rid] \in Item /\ items[rid].links \in LinkMaps
  BY DEF Item
<1>2. links \in LinkMaps
  BY <1>1, PrepareLinksType
<1>3. Loaded(D, rid) = [items[rid] EXCEPT !.links = links]
  BY DEF Loaded
<1> HIDE DEF links
<1> QED BY <1>1, <1>2, <1>3 DEF Item

LEMMA StoredType ==
    ASSUME NEW D, NEW rid \in Rid, NEW item \in Item, DOMAIN items \subseteq Rid,
           \A r \in DOMAIN items : items[r] \in Item
    PROVE  /\ DOMAIN Stored(D, rid, item) = DOMAIN items \cup {rid}
           /\ DOMAIN Stored(D, rid, item) \subseteq Rid
           /\ \A r \in DOMAIN Stored(D, rid, item) : Stored(D, rid, item)[r] \in Item
           /\ \A r \in DOMAIN items : r # rid => Stored(D, rid, item)[r] = items[r]
           /\ Stored(D, rid, item)[rid].uid = item.uid
           /\ Stored(D, rid, item)[rid].text = item.text
           /\ Stored(D, rid, item)[rid].rev = item.rev
           /\ Stored(D, rid, item)[rid].links = PrepareLinks(D, item.links)
<1> DEFINE links == PrepareLinks(D, item.links)
           new == [item EXCEPT !.links = links]
<1>1. links \in LinkMaps
  <2>1. item.links \in LinkMaps
    BY DEF Item
  <2> QED BY <2>1, PrepareLinksType
<1>2. Stored(D, rid, item) = [r \in DOMAIN items \cup {rid} |->
                                IF r = rid THEN new ELSE items[r]]
  BY DEF Stored
<1> HIDE DEF links
<1>3. /\ new \in Item /\ new.uid = item.uid /\ new.text = item.text /\ new.rev = item.rev
      /\ new.links = links
  BY <1>1 DEF Item
<1> HIDE DEF new
<1> QED BY <1>2, <1>3 DEF links

LEMMA WithStatementType ==
    ASSUME NEW item \in Item, NEW text \in Text
    PROVE  /\ WithStatement(item, text) \in Item /\ WithStatement(item, text).uid = item.uid
           /\ Follows(WithStatement(item, text), item)
<1> DEFINE raise == IF text # item.text THEN 1 ELSE 0
<1>1. raise \in {0, 1} /\ (raise = 0 => text = item.text)
  OBVIOUS
<1>2. WithStatement(item, text) = [item EXCEPT !.text = text, !.rev = item.rev + raise]
  BY DEF WithStatement, Item
<1> HIDE DEF raise
<1>3. item.rev + raise \in Nat
  BY <1>1 DEF Item
<1>4. /\ WithStatement(item, text) \in Item /\ WithStatement(item, text).uid = item.uid
      /\ WithStatement(item, text).text = text
      /\ WithStatement(item, text).rev = item.rev + raise
  BY <1>2, <1>3 DEF Item
<1>5. item.rev \in Nat
  BY DEF Item
<1> QED BY <1>1, <1>4, <1>5 DEF Follows

LEMMA PayloadType ==
    ASSUME NEW rid, NEW held \in Item, NEW text \in Text
    PROVE  /\ PayloadToSave(rid, held, text) \in Item
           /\ PayloadToSave(rid, held, text).uid = held.uid
<1> DEFINE raise == /\ rid \in DOMAIN items /\ held.rev = items[rid].rev
                    /\ text # items[rid].text
           more == IF raise THEN 1 ELSE 0
<1>1. more \in {0, 1}
  OBVIOUS
<1>2. PayloadToSave(rid, held, text) = [held EXCEPT !.text = text, !.rev = held.rev + more]
  BY DEF PayloadToSave, Item
<1> HIDE DEF more
<1>3. held.rev + more \in Nat
  BY <1>1 DEF Item
<1> QED BY <1>2, <1>3 DEF Item

\* An item number is a positive one, and no item of the document has it.
LEMMA NextItemIdType ==
    ASSUME DOMAIN items \subseteq Rid, NEW p \in Prefix
    PROVE  /\ NextItemId(p) \in Nat \ {0}
           /\ <<p, NextItemId(p)>> \notin DOMAIN items
           /\ NextItemId(p) <= MaxId => <<p, NextItemId(p)>> \in Rid
<1> DEFINE S == {r[2] : r \in RidsOf(p)} \cup {0}
<1>1. \A r \in DOMAIN items : r[1] \in Prefix /\ r[2] \in 1 .. MaxId
  BY DEF Rid
<1>2. S \subseteq 0 .. MaxId /\ 0 \in S /\ MaxId \in Nat
  BY <1>1, StoreAssumption DEF RidsOf
<1>3. \A r \in RidsOf(p) : r[2] \in S
  OBVIOUS
<1> HIDE DEF S
<1>4. \E m \in S : \A y \in S : m >= y
  <2> DEFINE Bounds == {b \in Nat : \A y \in S : y <= b}
  <2>1. MaxId \in Bounds
    BY <1>2
  <2>2. PICK m \in Bounds : \A k \in Bounds : m <= k
    <3>1. Bounds \in SUBSET Nat /\ Bounds # {}
      BY <2>1
    <3> QED BY <3>1, Minimum
  <2>3. m \in S
    <3> SUFFICES ASSUME m \notin S PROVE FALSE
      OBVIOUS
    <3>1. m \in Nat /\ m >= 0 /\ m # 0
      BY <1>2
    <3>2. \A y \in S : y \in Nat /\ y <= m /\ y # m
      BY <1>2
    <3>3. m - 1 \in Bounds
      BY <3>1, <3>2
    <3> QED BY <2>2, <3>1, <3>3
  <2> QED BY <1>2, <2>3
<1>5. Max(S) \in S /\ \A y \in S : Max(S) >= y
  BY <1>4 DEF Max
<1>6. PICK m \in Nat : m = Max(S)
  <2>1. \A y \in S : y \in Nat
    BY <1>2
  <2> QED BY <1>5, <2>1, Zenon
<1>7. NextItemId(p) = m + 1 /\ NextItemId(p) \in Nat \ {0}
  <2>1. NextItemId(p) = Max(S) + 1
    BY DEF NextItemId, S
  <2> QED BY <1>6, <2>1
<1>8. <<p, NextItemId(p)>> \notin DOMAIN items
  <2> SUFFICES ASSUME <<p, NextItemId(p)>> \in DOMAIN items PROVE FALSE
    OBVIOUS
  <2>1. <<p, NextItemId(p)>> \in RidsOf(p)
    BY DEF RidsOf
  <2>2. NextItemId(p) \in S
    BY <1>3, <2>1
  <2>3. m >= m + 1
    BY <1>5, <1>6, <1>7, <2>2
  <2> QED BY <2>3
<1>9. NextItemId(p) <= MaxId => <<p, NextItemId(p)>> \in Rid
  BY <1>2, <1>7 DEF Rid
<1> QED BY <1>7, <1>8, <1>9

\* The referrers of an item can be listed.
LEMMA ListOf ==
    ASSUME NEW S, S \subseteq Rid
    PROVE  LET f == CHOOSE f \in [1 .. Cardinality(S) -> S] : IsInjective(f)
           IN  Cardinality(S) \in Nat /\ f \in [1 .. Cardinality(S) -> S] /\ IsInjective(f)
<1>1. IsFiniteSet(S)
  <2>1. IsFiniteSet(1 .. MaxId)
    BY FS_Interval, StoreAssumption
  <2>2. IsFiniteSet(Prefix \X (1 .. MaxId))
    BY <2>1, FS_Product, StoreAssumption
  <2> QED BY <2>2, FS_Subset DEF Rid
<1>2. Cardinality(S) \in Nat /\ ExistsBijection(1 .. Cardinality(S), S)
  BY <1>1, FS_CardinalityType
<1>3. \E f \in [1 .. Cardinality(S) -> S] : IsInjective(f)
  BY <1>2 DEF ExistsBijection, Bijection, Injection
<1> QED BY <1>2, <1>3

-------------------------------------------------------------------------------
(* Plans: the effects of a call, and what is left of them                      *)

LEMMA EffectIs ==
    \A e \in Effects :
        /\ e.op = "save" => e.rid \in Rid /\ e.item \in Item
        /\ e.op = "bump" => e.prefix \in Prefix
        /\ e.op = "unlink" => e.rid \in Rid
        /\ e.op = "deleteItem" => e.rid \in Rid
        /\ e.op = "sweep" => e.rid \in Rid /\ e.todo \subseteq Prefix /\ e.ids \subseteq Rid
        /\ e.op = "writeDocument" => e.prefix \in Prefix /\ e.doc \in Document
        /\ e.op = "dropDocument" => e.prefix \in Prefix
        /\ e.op = "removeTree" => e.prefix \in Prefix
        /\ e.op = "closeEditor" => e.editor \in Editors
BY DEF Effects

\* One effect as a plan.
LEMMA OneEffect ==
    ASSUME NEW e \in Effects
    PROVE  /\ <<e>> \in Seq(Effects) /\ Len(<<e>>) = 1 /\ DOMAIN <<e>> = {1}
           /\ <<e>>[1] = e
OBVIOUS

LEMMA SaveIs ==
    ASSUME NEW rid \in Rid, NEW item \in Item
    PROVE  /\ Save(rid, item) \in Seq(Effects)
           /\ DOMAIN Save(rid, item) = {1} /\ Len(Save(rid, item)) = 1
           /\ Save(rid, item)[1].op = "save" /\ Save(rid, item)[1].rid = rid
           /\ Save(rid, item)[1].item = item
<1> DEFINE e == [op |-> "save", rid |-> rid, item |-> item]
<1>1. e \in Effects /\ e.op = "save" /\ e.rid = rid /\ e.item = item
  BY DEF Effects
<1>2. Save(rid, item) = <<e>>
  BY DEF Save
<1> HIDE DEF e
<1> QED BY <1>1, <1>2, OneEffect

\* What is left of a plan q once its first effect is replaced by more.
LEMMA LeftOver ==
    ASSUME NEW q \in Seq(Effects), q # <<>>, NEW more \in Seq(Effects)
    PROVE  /\ more \o Tail(q) \in Seq(Effects)
           /\ q[1] \in Effects /\ 1 \in DOMAIN q
           /\ \A i \in DOMAIN (more \o Tail(q)) :
                 \/ i \in DOMAIN more /\ (more \o Tail(q))[i] = more[i]
                 \/ /\ i \notin DOMAIN more /\ i - Len(more) + 1 \in DOMAIN q
                    /\ i - Len(more) + 1 > 1
                    /\ (more \o Tail(q))[i] = q[i - Len(more) + 1]
<1>1. Tail(q) \in Seq(Effects) /\ Len(Tail(q)) = Len(q) - 1 /\ Len(q) \in Nat \ {0}
  OBVIOUS
<1>2. \A i \in 1 .. Len(Tail(q)) : Tail(q)[i] = q[i + 1]
  OBVIOUS
<1>3. DOMAIN q = 1 .. Len(q) /\ DOMAIN more = 1 .. Len(more) /\ Len(more) \in Nat
  OBVIOUS
<1>4. q[1] \in Effects /\ 1 \in DOMAIN q
  BY <1>1, <1>3
<1> DEFINE c == more \o Tail(q)
<1>5. c \in Seq(Effects) /\ Len(c) = Len(more) + Len(Tail(q)) /\ DOMAIN c = 1 .. Len(c)
  BY <1>1
<1>6. \A i \in 1 .. Len(c) : c[i] = IF i <= Len(more) THEN more[i] ELSE Tail(q)[i - Len(more)]
  BY <1>1
<1> HIDE DEF c
<1>7. \A i \in 1 .. Len(c) : ~ (i <= Len(more)) => c[i] = Tail(q)[i - Len(more)]
  BY <1>6
<1>8. DOMAIN c \subseteq Nat
  BY <1>5
<1>9. ASSUME NEW i \in DOMAIN c
      PROVE  \/ i \in DOMAIN more /\ c[i] = more[i]
             \/ /\ i \notin DOMAIN more /\ i - Len(more) + 1 \in DOMAIN q
                /\ i - Len(more) + 1 > 1 /\ c[i] = q[i - Len(more) + 1]
  <2>1. CASE i <= Len(more)
    BY <2>1, <1>3, <1>5, <1>6
  <2>2. CASE i > Len(more)
    <3>1. i - Len(more) \in 1 .. Len(Tail(q))
      BY <2>2, <1>1, <1>3, <1>5
    <3>2. c[i] = q[i - Len(more) + 1]
      <4>1. c[i] = Tail(q)[i - Len(more)]
        <5>1. i \in 1 .. Len(c) /\ ~ (i <= Len(more))
          BY <2>2, <1>3, <1>5, <1>8
        <5> QED BY <5>1, <1>7
      <4>2. PICK k \in 1 .. Len(Tail(q)) : k = i - Len(more)
        BY <3>1
      <4>3. c[i] = q[k + 1]
        BY <4>1, <4>2, <1>2
      <4> QED BY <4>2, <4>3
    <3>3. i - Len(more) + 1 \in DOMAIN q /\ i - Len(more) + 1 > 1 /\ i \notin DOMAIN more
      BY <2>2, <3>1, <1>1, <1>3, <1>5
    <3> QED BY <3>2, <3>3
  <2> QED BY <2>1, <2>2, <1>3, <1>5
<1> QED BY <1>4, <1>5, <1>9 DEF c

LEMMA Onward ==
    ASSUME NEW D, NEW q \in Seq(Effects), q # <<>>, Bumpable(D, q),
           NEW more \in Seq(Effects),
           \A i \in DOMAIN more : /\ more[i].op # "bump"
                                  /\ more[i].op \in Loaders => q[1].op \in Loaders,
           NEW E, DOMAIN E = DOMAIN D \/ q[1].op \in Loaders
    PROVE  Bumpable(E, more \o Tail(q))
<1> DEFINE c == more \o Tail(q)
           n == Len(more)
<1>1. 1 \in DOMAIN q /\ n \in Nat /\ DOMAIN more = 1 .. n
  BY LeftOver
<1>2. \A i \in DOMAIN c :
         \/ i \in DOMAIN more /\ c[i] = more[i]
         \/ /\ i \notin DOMAIN more /\ i - n + 1 \in DOMAIN q /\ i - n + 1 > 1
            /\ c[i] = q[i - n + 1]
  BY LeftOver
<1>3. DOMAIN q \subseteq Nat /\ DOMAIN c \subseteq Nat
  <2>1. c \in Seq(Effects)
    BY LeftOver
  <2> HIDE DEF c
  <2> QED BY <2>1
<1> HIDE DEF c, n
<1>4. ASSUME NEW j \in DOMAIN c, c[j].op = "bump"
      PROVE  c[j].prefix \in DOMAIN E /\ \A i \in DOMAIN c : i < j => c[i].op \notin Loaders
  <2>1. /\ j \notin DOMAIN more /\ j - n + 1 \in DOMAIN q /\ j - n + 1 > 1
        /\ c[j] = q[j - n + 1]
    BY <1>2, <1>4
  <2>2. q[1].op \notin Loaders
    BY <1>1, <1>4, <2>1 DEF Bumpable
  <2>3. c[j].prefix \in DOMAIN E
    BY <1>4, <2>1, <2>2 DEF Bumpable
  <2>4. ASSUME NEW i \in DOMAIN c, i < j PROVE c[i].op \notin Loaders
    <3>1. CASE i \in DOMAIN more /\ c[i] = more[i]
      BY <3>1, <2>2
    <3>2. CASE i - n + 1 \in DOMAIN q /\ c[i] = q[i - n + 1]
      <4>1. i - n + 1 < j - n + 1
        BY <1>1, <1>3, <2>4
      <4> QED BY <3>2, <4>1, <1>4, <2>1 DEF Bumpable
    <3> QED BY <1>2, <3>1, <3>2
  <2> QED BY <2>3, <2>4
<1> QED BY <1>4 DEF Bumpable, c

\* Two plans one after the other.
LEMMA Joined ==
    ASSUME NEW a \in Seq(Effects), NEW b \in Seq(Effects)
    PROVE  /\ a \o b \in Seq(Effects) /\ Len(a \o b) = Len(a) + Len(b)
           /\ Len(a) \in Nat /\ Len(b) \in Nat
           /\ DOMAIN a = 1 .. Len(a) /\ DOMAIN b = 1 .. Len(b)
           /\ \A i \in DOMAIN (a \o b) :
                 \/ i \in DOMAIN a /\ (a \o b)[i] = a[i]
                 \/ /\ i \notin DOMAIN a /\ i - Len(a) \in DOMAIN b
                    /\ (a \o b)[i] = b[i - Len(a)]
<1> DEFINE c == a \o b
<1>1. c \in Seq(Effects) /\ Len(c) = Len(a) + Len(b) /\ DOMAIN c = 1 .. Len(c)
  OBVIOUS
<1>2. \A i \in 1 .. Len(c) : c[i] = IF i <= Len(a) THEN a[i] ELSE b[i - Len(a)]
  OBVIOUS
<1>3. /\ DOMAIN a = 1 .. Len(a) /\ Len(a) \in Nat
      /\ DOMAIN b = 1 .. Len(b) /\ Len(b) \in Nat
  OBVIOUS
<1> HIDE DEF c
<1>4. ASSUME NEW i \in DOMAIN c
      PROVE  \/ i \in DOMAIN a /\ c[i] = a[i]
             \/ i \notin DOMAIN a /\ i - Len(a) \in DOMAIN b /\ c[i] = b[i - Len(a)]
  <2>1. CASE i <= Len(a)
    BY <2>1, <1>1, <1>2, <1>3
  <2>2. CASE i > Len(a)
    BY <2>2, <1>1, <1>2, <1>3
  <2> QED BY <2>1, <2>2, <1>1, <1>3
<1> QED BY <1>1, <1>3, <1>4 DEF c

\* A plan that bumps documents of D only and loads none.
SteadyPlan(D, q) ==
    /\ q \in Seq(Effects)
    /\ \A i \in DOMAIN q : /\ q[i].op = "bump" => q[i].prefix \in DOMAIN D
                           /\ q[i].op \notin Loaders

LEMMA SteadyBumps == \A D, q : SteadyPlan(D, q) => q \in Seq(Effects) /\ Bumpable(D, q)
BY DEF SteadyPlan, Bumpable

LEMMA SteadyJoined ==
    ASSUME NEW D, NEW a, NEW b, SteadyPlan(D, a), SteadyPlan(D, b)
    PROVE  SteadyPlan(D, a \o b)
<1>1. a \in Seq(Effects) /\ b \in Seq(Effects)
  BY DEF SteadyPlan
<1> DEFINE c == a \o b
           n == Len(a)
<1>2. /\ c \in Seq(Effects)
      /\ \A i \in DOMAIN c :
            \/ i \in DOMAIN a /\ c[i] = a[i]
            \/ i - n \in DOMAIN b /\ c[i] = b[i - n]
  BY <1>1, Joined
<1> HIDE DEF c, n
<1>3. SteadyPlan(D, c)
  BY <1>2 DEF SteadyPlan
<1> QED BY <1>3 DEF c

LEMMA SteadyOne ==
    ASSUME NEW D, NEW e \in Effects, e.op = "bump" => e.prefix \in DOMAIN D,
           e.op \notin Loaders
    PROVE  SteadyPlan(D, <<e>>)
<1> DEFINE q == <<e>>
<1>1. q \in Seq(Effects) /\ DOMAIN q = {1} /\ q[1] = e
  BY OneEffect
<1> HIDE DEF q
<1>2. SteadyPlan(D, q)
  BY <1>1 DEF SteadyPlan
<1> QED BY <1>2 DEF q

LEMMA SteadySave ==
    ASSUME NEW D, NEW rid \in Rid, NEW item \in Item
    PROVE  SteadyPlan(D, Save(rid, item))
<1> DEFINE e == [op |-> "save", rid |-> rid, item |-> item]
<1>1. e \in Effects /\ e.op = "save"
  BY DEF Effects
<1> HIDE DEF e
<1>2. SteadyPlan(D, <<e>>)
  BY <1>1, SteadyOne DEF Loaders
<1> QED BY <1>2 DEF Save, e

LEMMA SteadyBump ==
    ASSUME NEW D, NEW p \in Prefix, p \in DOMAIN D
    PROVE  SteadyPlan(D, Bump(p))
<1> DEFINE e == [op |-> "bump", prefix |-> p]
<1>1. e \in Effects /\ e.op = "bump" /\ e.prefix = p
  BY DEF Effects
<1> HIDE DEF e
<1>2. SteadyPlan(D, <<e>>)
  BY <1>1, SteadyOne DEF Loaders
<1> QED BY <1>2 DEF Bump, e

LEMMA SteadyBumpIf ==
    ASSUME NEW D, NEW p \in Prefix, p \in DOMAIN D, NEW cond
    PROVE  SteadyPlan(D, BumpIf(cond, p))
<1>1. SteadyPlan(D, <<>>)
  <2>1. <<>> \in Seq(Effects) /\ DOMAIN <<>> = {}
    OBVIOUS
  <2> QED BY <2>1 DEF SteadyPlan
<1> QED BY <1>1, SteadyBump DEF BumpIf

LEMMA SteadyUnlink ==
    ASSUME NEW D, NEW rid \in Rid
    PROVE  SteadyPlan(D, Unlink(rid))
<1> DEFINE e == [op |-> "unlink", rid |-> rid]
<1>1. e \in Effects /\ e.op = "unlink"
  BY DEF Effects
<1> HIDE DEF e
<1>2. SteadyPlan(D, <<e>>)
  BY <1>1, SteadyOne DEF Loaders
<1> QED BY <1>2 DEF Unlink, e

LEMMA SteadyDelete ==
    ASSUME NEW D, NEW rid \in Rid, NEW must \in BOOLEAN
    PROVE  SteadyPlan(D, DeleteItem(rid, must))
<1> DEFINE e == [op |-> "deleteItem", rid |-> rid, must |-> must]
<1>1. e \in Effects /\ e.op = "deleteItem"
  BY DEF Effects
<1> HIDE DEF e
<1>2. SteadyPlan(D, <<e>>)
  BY <1>1, SteadyOne DEF Loaders
<1> QED BY <1>2 DEF DeleteItem, e

LEMMA SteadySweep ==
    ASSUME NEW D, NEW rid \in Rid, NEW todo \in SUBSET Prefix, NEW ids \in SUBSET Rid
    PROVE  SteadyPlan(D, Sweep(rid, todo, ids))
<1> DEFINE e == [op |-> "sweep", rid |-> rid, todo |-> todo, ids |-> ids]
<1>1. e \in Effects /\ e.op = "sweep"
  BY DEF Effects
<1> HIDE DEF e
<1>2. SteadyPlan(D, <<e>>)
  BY <1>1, SteadyOne DEF Loaders
<1> QED BY <1>2 DEF Sweep, e

LEMMA SteadyWrite ==
    ASSUME NEW D, NEW p \in Prefix, NEW d \in Document
    PROVE  SteadyPlan(D, WriteDocument(p, d))
<1> DEFINE e == [op |-> "writeDocument", prefix |-> p, doc |-> d]
<1>1. e \in Effects /\ e.op = "writeDocument"
  BY DEF Effects
<1> HIDE DEF e
<1>2. SteadyPlan(D, <<e>>)
  BY <1>1, SteadyOne DEF Loaders
<1> QED BY <1>2 DEF WriteDocument, e

LEMMA SteadyClose ==
    ASSUME NEW D, NEW w \in Editors
    PROVE  SteadyPlan(D, CloseEditor(w))
<1> DEFINE e == [op |-> "closeEditor", editor |-> w]
<1>1. e \in Effects /\ e.op = "closeEditor"
  BY DEF Effects
<1> HIDE DEF e
<1>2. SteadyPlan(D, <<e>>)
  BY <1>1, SteadyOne DEF Loaders
<1> QED BY <1>2 DEF CloseEditor, e

\* A plan may end by reading the documents again.
LEMMA ThenRefresh ==
    ASSUME NEW D, NEW a, SteadyPlan(D, a)
    PROVE  a \o Refresh \in Seq(Effects) /\ Bumpable(D, a \o Refresh)
<1> DEFINE e == [op |-> "refresh"]
           b == <<e>>
           c == a \o b
           n == Len(a)
<1>1. a \in Seq(Effects) /\ b \in Seq(Effects) /\ DOMAIN b = {1} /\ b[1].op = "refresh"
  <2>1. e \in Effects /\ e.op = "refresh"
    BY DEF Effects
  <2> HIDE DEF e
  <2> QED BY <2>1, OneEffect DEF SteadyPlan
<1>2. b = Refresh
  BY DEF Refresh
<1> HIDE DEF b
<1>3. /\ c \in Seq(Effects) /\ DOMAIN a = 1 .. n /\ n \in Nat
      /\ \A i \in DOMAIN c :
            \/ i \in DOMAIN a /\ c[i] = a[i]
            \/ i \notin DOMAIN a /\ i - n \in DOMAIN b /\ c[i] = b[i - n]
  BY <1>1, Joined
<1> HIDE DEF c, n
<1>4. DOMAIN c \subseteq Nat
  BY <1>3
<1>5. ASSUME NEW j \in DOMAIN c, c[j].op = "bump"
      PROVE  c[j].prefix \in DOMAIN D /\ \A i \in DOMAIN c : i < j => c[i].op \notin Loaders
  <2>1. j \in DOMAIN a /\ c[j] = a[j]
    BY <1>1, <1>3, <1>5
  <2>2. \A i \in DOMAIN c : i < j => i \in DOMAIN a /\ c[i] = a[i]
    BY <1>1, <1>3, <1>4, <2>1
  <2> QED BY <1>5, <2>1, <2>2 DEF SteadyPlan
<1>6. Bumpable(D, c)
  BY <1>5 DEF Bumpable
<1> QED BY <1>2, <1>3, <1>6 DEF c

-------------------------------------------------------------------------------
(* Starting a call keeps the types                                             *)

LEMMA Documents ==
    ASSUME FilesOK, ServicesOK, NEW s \in Services
    PROVE  /\ IsDocuments(EnsureDocuments(s))
           /\ \A p : IsDocuments(DocumentsWith(s, p))
BY DEF FilesOK, ServicesOK, EnsureDocuments, DocumentsWith

LEMMA BeginTypes ==
    ASSUME Types, NEW s \in Services, NEW op, NEW D, NEW plan,
           Begin(op, s, D, plan), IsDocuments(D), plan \in Seq(Effects), Bumpable(D, plan),
           editor' \in [Editors -> Held]
    PROVE  Types'
<1> USE DEF Types
<1>1. FilesOK'
  BY DEF Begin, FilesOK, IsDocuments
<1>2. CountersOK'
  BY StoreAssumption DEF Begin, CountersOK
<1>3. ServicesOK'
  <2>1. cache' = [cache EXCEPT ![s] = D] /\ call' = [call EXCEPT ![s] = plan]
    BY DEF Begin
  <2>2. /\ cache' = [z \in Services |-> cache'[z]] /\ cache'[s] = D
        /\ \A z \in Services : z # s => cache'[z] = cache[z]
    BY <2>1 DEF ServicesOK
  <2>3. /\ call' = [z \in Services |-> call'[z]] /\ call'[s] = plan
        /\ \A z \in Services : z # s => call'[z] = call[z]
    BY <2>1 DEF ServicesOK
  <2>4. Underway(call'[s], cache'[s])
    BY <2>2, <2>3 DEF Underway
  <2>5. \A z \in Services : Underway(call'[z], cache'[z])
    BY <2>2, <2>3, <2>4 DEF ServicesOK
  <2>6. \A z \in Services : cache'[z] = NotLoaded \/ IsDocuments(cache'[z])
    BY <2>2 DEF ServicesOK
  <2> QED BY <2>2, <2>3, <2>5, <2>6 DEF ServicesOK
<1> QED BY <1>1, <1>2, <1>3

\* A steady plan, or one that only reads the documents again after it.
LEMMA BeginSteady ==
    ASSUME Types, NEW s \in Services, NEW op, NEW D, NEW plan,
           Begin(op, s, D, plan), IsDocuments(D), SteadyPlan(D, plan),
           editor' \in [Editors -> Held]
    PROVE  Types'
BY BeginTypes, SteadyBumps

LEMMA BeginRefresh ==
    ASSUME Types, NEW s \in Services, NEW op, NEW D, NEW plan,
           Begin(op, s, D, plan \o Refresh), IsDocuments(D), SteadyPlan(D, plan),
           editor' \in [Editors -> Held]
    PROVE  Types'
<1>1. plan \o Refresh \in Seq(Effects) /\ Bumpable(D, plan \o Refresh)
  BY ThenRefresh
<1> DEFINE c == plan \o Refresh
<1>2. Begin(op, s, D, c) /\ c \in Seq(Effects) /\ Bumpable(D, c)
  BY <1>1
<1> HIDE DEF c
<1> QED BY <1>2, BeginTypes

LEMMA SteadyCreate ==
    ASSUME NEW D, NEW rid \in Rid, rid[1] \in DOMAIN D, NEW item \in Item
    PROVE  SteadyPlan(D, CreatePlan(rid, item))
<1>1. rid[1] \in Prefix
  BY DEF Rid
<1>2. SteadyPlan(D, Save(rid, item)) /\ SteadyPlan(D, Bump(rid[1]))
  BY <1>1, SteadySave, SteadyBump
<1> QED BY <1>2, SteadyJoined DEF CreatePlan

LEMMA ToolCreateIs ==
    ASSUME Types, ToolCreate
    PROVE  LET D == EnsureDocuments("mcp") IN
           \E rid \in Rid, item \in Item :
              /\ IsDocuments(D) /\ rid[1] \in DOMAIN D /\ rid \notin DOMAIN items
              /\ item.rev = 1
              /\ Begin("tool_create", "mcp", D, CreatePlan(rid, item)) /\ UNCHANGED editor
<1> DEFINE D == EnsureDocuments("mcp")
<1>1. IsDocuments(D) /\ "mcp" \in Services
  BY Documents DEF Types, Services
<1>2. PICK p \in DOMAIN D, text \in Text, T \in {{}} \cup {{t} : t \in Rid} :
        /\ NextItemId(p) <= MaxId
        /\ Begin("tool_create", "mcp", D,
                 CreatePlan(<<p, NextItemId(p)>>,
                            [uid |-> calls, text |-> text, rev |-> 1,
                             links |-> PrepareLinks(D, LinksTo(T))]))
        /\ UNCHANGED editor
  BY DEF ToolCreate
<1> DEFINE rid == <<p, NextItemId(p)>>
           links == PrepareLinks(D, LinksTo(T))
           item == [uid |-> calls, text |-> text, rev |-> 1, links |-> links]
<1>3. rid \in Rid /\ rid[1] \in DOMAIN D /\ rid \notin DOMAIN items
  <2>1. p \in Prefix
    BY <1>1 DEF IsDocuments
  <2> QED BY <1>2, <2>1, NextItemIdType DEF Types, FilesOK
<1>4. links \in LinkMaps
  <2>1. T \subseteq Rid
    OBVIOUS
  <2>2. LinksTo(T) \in LinkMaps
    BY <2>1, LinksToType
  <2> QED BY <2>2, PrepareLinksType DEF Types, FilesOK
<1> HIDE DEF links
<1>5. item \in Item /\ item.rev = 1
  BY <1>4 DEF Item, Types, CountersOK
<1>6. Begin("tool_create", "mcp", D, CreatePlan(rid, item)) /\ UNCHANGED editor
  BY <1>2 DEF links
<1> HIDE DEF rid, item
<1> QED BY <1>1, <1>3, <1>5, <1>6

LEMMA ToolCreateTypes == Types /\ ToolCreate => Types'
<1> SUFFICES ASSUME Types, ToolCreate PROVE Types'
  OBVIOUS
<1> DEFINE D == EnsureDocuments("mcp")
<1>1. IsDocuments(D) /\ "mcp" \in Services
  BY Documents DEF Types, Services
<1>2. PICK rid \in Rid, item \in Item :
         /\ rid[1] \in DOMAIN D
         /\ Begin("tool_create", "mcp", D, CreatePlan(rid, item)) /\ UNCHANGED editor
  BY ToolCreateIs
<1> HIDE DEF D
<1>3. SteadyPlan(D, CreatePlan(rid, item)) /\ editor' \in [Editors -> Held]
  BY <1>2, SteadyCreate DEF Types
<1> QED BY <1>1, <1>2, <1>3, BeginSteady

LEMMA ToolUpdateFieldIs ==
    ASSUME Types, ToolUpdateField
    PROVE  LET D == EnsureDocuments("mcp") IN
           \E cond \in BOOLEAN, rid \in Rid, item \in Item :
              /\ IsDocuments(D) /\ rid[1] \in DOMAIN D
              /\ rid \in DOMAIN items /\ items[rid].uid = item.uid
              /\ Follows(item, items[rid])
              /\ Begin("tool_update", "mcp", D, Save(rid, item) \o BumpIf(cond, rid[1]))
              /\ UNCHANGED editor
<1> DEFINE D == EnsureDocuments("mcp")
<1>1. IsDocuments(D) /\ "mcp" \in Services
  BY Documents DEF Types, Services
<1>2. PICK rid \in DOMAIN items, text \in Text :
        /\ Resolves(D, rid)
        /\ Begin("tool_update", "mcp", D,
                 Save(rid, WithStatement(Loaded(D, rid), text))
                 \o BumpIf(text # items[rid].text, rid[1]))
        /\ UNCHANGED editor
  BY DEF ToolUpdateField
<1> DEFINE item == WithStatement(Loaded(D, rid), text)
           cond == text # items[rid].text
<1>3. rid \in Rid /\ rid[1] \in DOMAIN D
  BY <1>2 DEF Types, FilesOK, Resolves
<1>4. item \in Item /\ items[rid].uid = item.uid /\ Follows(item, items[rid])
  BY LoadedType, WithStatementType DEF Types, FilesOK, Follows
<1>5. /\ Begin("tool_update", "mcp", D, Save(rid, item) \o BumpIf(cond, rid[1]))
      /\ cond \in BOOLEAN
  BY <1>2
<1> HIDE DEF item, cond
<1> QED BY <1>1, <1>2, <1>3, <1>4, <1>5

LEMMA ToolUpdateFieldTypes == Types /\ ToolUpdateField => Types'
<1> SUFFICES ASSUME Types, ToolUpdateField PROVE Types'
  OBVIOUS
<1> DEFINE D == EnsureDocuments("mcp")
<1>1. IsDocuments(D) /\ "mcp" \in Services
  BY Documents DEF Types, Services
<1>2. PICK cond \in BOOLEAN, rid \in Rid, item \in Item :
         /\ rid[1] \in DOMAIN D
         /\ Begin("tool_update", "mcp", D, Save(rid, item) \o BumpIf(cond, rid[1]))
         /\ UNCHANGED editor
  BY ToolUpdateFieldIs
<1> HIDE DEF D
<1>3. SteadyPlan(D, Save(rid, item)) /\ SteadyPlan(D, BumpIf(cond, rid[1]))
  BY <1>2, SteadySave, SteadyBumpIf DEF Rid
<1>4. SteadyPlan(D, Save(rid, item) \o BumpIf(cond, rid[1])) /\ editor' \in [Editors -> Held]
  BY <1>2, <1>3, SteadyJoined DEF Types
<1> QED BY <1>1, <1>2, <1>4, BeginSteady

\* The calls that store an item over its new links only.
LEMMA ToolSetLinksIs ==
    ASSUME Types, ToolSetLinks
    PROVE  LET D == EnsureDocuments("mcp") IN
           \E rid \in Rid, item \in Item :
              /\ IsDocuments(D) /\ rid \in DOMAIN items /\ items[rid].uid = item.uid
              /\ Follows(item, items[rid])
              /\ Begin("tool_set_links", "mcp", D, Save(rid, item)) /\ UNCHANGED editor
<1> DEFINE D == EnsureDocuments("mcp")
<1>1. IsDocuments(D) /\ "mcp" \in Services
  BY Documents DEF Types, Services
<1>2. PICK rid \in DOMAIN items, T \in {{}} \cup {{t} : t \in Rid} :
        /\ Begin("tool_set_links", "mcp", D,
                 Save(rid, [items[rid] EXCEPT !.links = PrepareLinks(D, LinksTo(T))]))
        /\ UNCHANGED editor
  BY DEF ToolSetLinks
<1> DEFINE item == [items[rid] EXCEPT !.links = PrepareLinks(D, LinksTo(T))]
<1>3. rid \in Rid /\ item \in Item /\ items[rid].uid = item.uid /\ Follows(item, items[rid])
  <2>1. T \subseteq Rid
    OBVIOUS
  <2>2. PrepareLinks(D, LinksTo(T)) \in LinkMaps
    BY <2>1, LinksToType, PrepareLinksType DEF Types, FilesOK
  <2>3. items[rid] \in Item /\ rid \in Rid
    BY DEF Types, FilesOK
  <2> QED BY <2>2, <2>3, ItemLinks DEF Item, Follows
<1>4. Begin("tool_set_links", "mcp", D, Save(rid, item))
  BY <1>2
<1> HIDE DEF item
<1> QED BY <1>1, <1>2, <1>3, <1>4

LEMMA ToolSetLinksTypes == Types /\ ToolSetLinks => Types'
<1> SUFFICES ASSUME Types, ToolSetLinks PROVE Types'
  OBVIOUS
<1> DEFINE D == EnsureDocuments("mcp")
<1>1. IsDocuments(D) /\ "mcp" \in Services
  BY Documents DEF Types, Services
<1>2. PICK rid \in Rid, item \in Item :
         /\ Begin("tool_set_links", "mcp", D, Save(rid, item)) /\ UNCHANGED editor
  BY ToolSetLinksIs
<1> HIDE DEF D
<1>3. SteadyPlan(D, Save(rid, item)) /\ editor' \in [Editors -> Held]
  BY <1>2, SteadySave DEF Types
<1> QED BY <1>1, <1>2, <1>3, BeginSteady

LEMMA ToolLinkIs ==
    ASSUME Types, ToolLink
    PROVE  LET D == EnsureDocuments("mcp") IN
           \E rid \in Rid, item \in Item :
              /\ IsDocuments(D) /\ rid \in DOMAIN items /\ items[rid].uid = item.uid
              /\ Follows(item, items[rid])
              /\ Begin("tool_link", "mcp", D, Save(rid, item)) /\ UNCHANGED editor
<1> DEFINE D == EnsureDocuments("mcp")
<1>1. IsDocuments(D) /\ "mcp" \in Services
  BY Documents DEF Types, Services
<1>2. PICK source \in DOMAIN items, derived \in DOMAIN items :
        LET link == [rev |-> items[source].rev, suspect |-> FALSE,
                     seen |-> Seen(items[source])]
        IN /\ Begin("tool_link", "mcp", D,
                    Save(derived, [items[derived] EXCEPT
                                      !.links = PrepareLinks(D, With(@, source, link))]))
           /\ UNCHANGED editor
  BY DEF ToolLink
<1> DEFINE link == [rev |-> items[source].rev, suspect |-> FALSE,
                    seen |-> Seen(items[source])]
           links == PrepareLinks(D, With(items[derived].links, source, link))
           item == [items[derived] EXCEPT !.links = links]
<1>3. /\ items[source] \in Item /\ items[derived] \in Item
      /\ source \in Rid /\ derived \in Rid
  BY DEF Types, FilesOK
<1>4. link \in Link /\ items[derived].links \in LinkMaps
  BY <1>3 DEF Link, Item, Seen
<1> HIDE DEF link
<1>5. links \in LinkMaps
  BY <1>3, <1>4, LinksWith, PrepareLinksType DEF Types, FilesOK
<1>6. Begin("tool_link", "mcp", D, Save(derived, item))
  BY <1>2 DEF link
<1> HIDE DEF links
<1>7. item \in Item /\ items[derived].uid = item.uid /\ Follows(item, items[derived])
  BY <1>3, <1>5, ItemLinks DEF Item, Follows
<1> HIDE DEF item
<1> QED BY <1>1, <1>2, <1>3, <1>6, <1>7

LEMMA ToolLinkTypes == Types /\ ToolLink => Types'
<1> SUFFICES ASSUME Types, ToolLink PROVE Types'
  OBVIOUS
<1> DEFINE D == EnsureDocuments("mcp")
<1>1. IsDocuments(D) /\ "mcp" \in Services
  BY Documents DEF Types, Services
<1>2. PICK rid \in Rid, item \in Item :
         /\ Begin("tool_link", "mcp", D, Save(rid, item)) /\ UNCHANGED editor
  BY ToolLinkIs
<1> HIDE DEF D
<1>3. SteadyPlan(D, Save(rid, item)) /\ editor' \in [Editors -> Held]
  BY <1>2, SteadySave DEF Types
<1> QED BY <1>1, <1>2, <1>3, BeginSteady

LEMMA DeleteRequirementTypes ==
    \A op, s : s \in Services /\ Types /\ DeleteRequirement(op, s) => Types'
<1> SUFFICES ASSUME NEW op, NEW s \in Services, Types, DeleteRequirement(op, s)
             PROVE  Types'
  OBVIOUS
<1> DEFINE D == EnsureDocuments(s)
<1>1. IsDocuments(D)
  BY Documents DEF Types
<1>2. PICK rid \in DOMAIN items :
        Resolves(D, rid) /\ Begin(op, s, D, DeletePlan(rid)) /\ UNCHANGED editor
  BY DEF DeleteRequirement
<1> HIDE DEF D
<1>3. rid \in Rid /\ rid[1] \in DOMAIN D /\ rid[1] \in Prefix
  BY <1>1, <1>2 DEF Types, FilesOK, Resolves, IsDocuments
<1>4. SteadyPlan(D, DeletePlan(rid))
  <2>1. SteadyPlan(D, DeleteItem(rid, TRUE)) /\ SteadyPlan(D, Bump(rid[1]))
    BY <1>3, SteadyDelete, SteadyBump
  <2> QED BY <2>1, SteadyJoined DEF DeletePlan
<1>5. editor' \in [Editors -> Held]
  BY <1>2 DEF Types
<1> QED BY <1>1, <1>2, <1>4, <1>5, BeginSteady

LEMMA ToolListDocumentTypes == Types /\ ToolListDocument => Types'
<1> SUFFICES ASSUME Types, ToolListDocument PROVE Types'
  OBVIOUS
<1>1. /\ cache' = [cache EXCEPT !["mcp"] = docs] /\ call["mcp"] = <<>>
      /\ UNCHANGED <<docs, items, call, editor, calls, alive, changed>>
  BY DEF ToolListDocument
<1>2. FilesOK' /\ CountersOK' /\ editor' \in [Editors -> Held]
  BY <1>1 DEF Types, FilesOK, IsDocuments, CountersOK
<1>3. ServicesOK'
  <2>1. /\ cache' = [z \in Services |-> cache'[z]] /\ cache'["mcp"] = docs
        /\ \A z \in Services : z # "mcp" => cache'[z] = cache[z]
    BY <1>1 DEF Types, ServicesOK, Services
  <2>2. \A z \in Services : Underway(call'[z], cache'[z])
    BY <1>1, <2>1 DEF Types, ServicesOK, Underway
  <2> QED BY <1>1, <2>1, <2>2 DEF Types, ServicesOK, FilesOK
<1> QED BY <1>2, <1>3 DEF Types

\* A function over the first numbers is a sequence.
LEMMA Listed ==
    ASSUME NEW n \in Nat, NEW f, f = [i \in 1 .. n |-> f[i]],
           \A i \in 1 .. n : f[i] \in Effects
    PROVE  f \in Seq(Effects) /\ Len(f) = n /\ DOMAIN f = 1 .. n
<1>1. f \in [1 .. n -> Effects]
  OBVIOUS
<1> QED BY <1>1

LEMMA FirstOf ==
    ASSUME NEW S, NEW q \in Seq(S), q # <<>>
    PROVE  q[1] \in S
OBVIOUS

LEMMA OpenEditorTypes == \A e : e \in Editors /\ Types /\ OpenEditor(e) => Types'
<1> SUFFICES ASSUME NEW e \in Editors, Types, OpenEditor(e) PROVE Types'
  OBVIOUS
<1> DEFINE D == EnsureDocuments("gui")
<1>1. IsDocuments(D) /\ "gui" \in Services
  BY Documents DEF Types, Services
<1>2. PICK rid \in DOMAIN items :
        /\ call["gui"] = <<>>
        /\ editor' = [editor EXCEPT ![e] = <<[rid |-> rid, item |-> Loaded(D, rid)]>>]
        /\ cache' = [cache EXCEPT !["gui"] = D]
        /\ UNCHANGED <<docs, items, call, calls, alive, changed>>
  BY DEF OpenEditor
<1> HIDE DEF D
<1>3. FilesOK' /\ CountersOK'
  BY <1>2 DEF Types, FilesOK, IsDocuments, CountersOK
<1>4. editor' \in [Editors -> Held]
  <2>1. rid \in Rid /\ Loaded(D, rid) \in Item
    BY LoadedType DEF Types, FilesOK
  <2>2. [rid |-> rid, item |-> Loaded(D, rid)] \in [rid : Rid, item : Item]
    BY <2>1
  <2>3. <<[rid |-> rid, item |-> Loaded(D, rid)]>> \in Held
    BY <2>2 DEF Held
  <2> QED BY <1>2, <2>3 DEF Types
<1>5. ServicesOK'
  <2>1. /\ cache' = [z \in Services |-> cache'[z]] /\ cache'["gui"] = D
        /\ \A z \in Services : z # "gui" => cache'[z] = cache[z]
    BY <1>1, <1>2 DEF Types, ServicesOK
  <2>2. \A z \in Services : Underway(call'[z], cache'[z])
    BY <1>2, <2>1 DEF Types, ServicesOK, Underway
  <2> QED BY <1>1, <1>2, <2>1, <2>2 DEF Types, ServicesOK
<1> QED BY <1>3, <1>4, <1>5 DEF Types

LEMMA NewRequirementTypes == \A e : e \in Editors /\ Types /\ NewRequirement(e) => Types'
<1> SUFFICES ASSUME NEW e \in Editors, Types, NewRequirement(e) PROVE Types'
  OBVIOUS
<1> DEFINE D == EnsureDocuments("gui")
<1>1. IsDocuments(D) /\ "gui" \in Services
  BY Documents DEF Types, Services
<1>2. PICK p \in DOMAIN D, text \in Text :
        /\ NextItemId(p) <= MaxId
        /\ Begin("new", "gui", D, <<>>)
        /\ editor' = [editor EXCEPT ![e] =
               <<[rid |-> <<p, NextItemId(p)>>,
                  item |-> [uid |-> calls, text |-> text, rev |-> 1, links |-> <<>>]]>>]
  BY DEF NewRequirement
<1> HIDE DEF D
<1> DEFINE h == [rid |-> <<p, NextItemId(p)>>,
                 item |-> [uid |-> calls, text |-> text, rev |-> 1, links |-> <<>>]]
<1>3. h \in [rid : Rid, item : Item]
  <2>1. p \in Prefix
    BY <1>1 DEF IsDocuments
  <2>2. <<p, NextItemId(p)>> \in Rid
    BY <1>2, <2>1, NextItemIdType DEF Types, FilesOK
  <2>3. [uid |-> calls, text |-> text, rev |-> 1, links |-> <<>>] \in Item
    BY NoLinks DEF Item, Types, CountersOK
  <2> QED BY <2>2, <2>3
<1>4. editor' = [editor EXCEPT ![e] = <<h>>]
  BY <1>2
<1> HIDE DEF h
<1>5. <<h>> \in Held
  BY <1>3 DEF Held
<1>6. editor' \in [Editors -> Held]
  BY <1>4, <1>5 DEF Types
<1>7. SteadyPlan(D, <<>>)
  <2>1. <<>> \in Seq(Effects) /\ DOMAIN <<>> = {}
    OBVIOUS
  <2> QED BY <2>1 DEF SteadyPlan
<1> QED BY <1>1, <1>2, <1>6, <1>7, BeginSteady

LEMMA SaveEditorTypes == \A e : e \in Editors /\ Types /\ SaveEditor(e) => Types'
<1> SUFFICES ASSUME NEW e \in Editors, Types, SaveEditor(e) PROVE Types'
  OBVIOUS
<1> DEFINE rid == editor[e][1].rid
           D == DocumentsWith("gui", rid[1])
<1>1. IsDocuments(D) /\ "gui" \in Services
  BY Documents DEF Types, Services
<1>2. PICK text \in Text :
        /\ rid[1] \in DOMAIN D
        /\ Begin("edit", "gui", D,
                 Save(rid, PayloadToSave(rid, editor[e][1].item, text))
                 \o BumpIf(BumpsDocument(rid, text), rid[1]) \o CloseEditor(e))
  BY DEF SaveEditor
<1>3. editor[e] # <<>> /\ UNCHANGED editor
  BY DEF SaveEditor
<1> DEFINE item == PayloadToSave(rid, editor[e][1].item, text)
           cond == BumpsDocument(rid, text)
<1>4. editor[e][1] \in [rid : Rid, item : Item]
  <2>1. editor[e] \in Seq([rid : Rid, item : Item])
    BY DEF Types, Held
  <2> QED BY <2>1, <1>3, FirstOf
<1>5. rid \in Rid /\ item \in Item
  BY <1>4, PayloadType
<1>6. Begin("edit", "gui", D, Save(rid, item) \o BumpIf(cond, rid[1]) \o CloseEditor(e))
  BY <1>2
<1> HIDE DEF D, item, cond
<1>7. rid[1] \in DOMAIN D /\ rid[1] \in Prefix
  BY <1>2, <1>5 DEF Rid
<1> HIDE DEF rid
<1>8. /\ SteadyPlan(D, Save(rid, item)) /\ SteadyPlan(D, BumpIf(cond, rid[1]))
      /\ SteadyPlan(D, CloseEditor(e))
  BY <1>5, <1>7, SteadySave, SteadyBumpIf, SteadyClose
<1>9. SteadyPlan(D, Save(rid, item) \o BumpIf(cond, rid[1]) \o CloseEditor(e))
  BY <1>8, SteadyJoined
<1>10. editor' \in [Editors -> Held]
  BY <1>3 DEF Types
<1> QED BY <1>1, <1>6, <1>9, <1>10, BeginSteady

LEMMA CloneRequirementIs ==
    ASSUME Types, CloneRequirement
    PROVE  LET D == EnsureDocuments("gui") IN
           \E copy \in Rid, item \in Item :
              /\ IsDocuments(D) /\ copy[1] \in DOMAIN D /\ copy \notin DOMAIN items
              /\ item.rev = 1
              /\ Begin("clone", "gui", D, CreatePlan(copy, item)) /\ UNCHANGED editor
<1> DEFINE D == EnsureDocuments("gui")
<1>1. IsDocuments(D) /\ "gui" \in Services
  BY Documents DEF Types, Services
<1>2. PICK rid \in DOMAIN items, derive \in BOOLEAN :
        LET source == Loaded(D, rid)
            up == [rev |-> source.rev, suspect |-> FALSE, seen |-> Seen(source)]
            copy == <<rid[1], NextItemId(rid[1])>>
        IN
        /\ Resolves(D, rid)
        /\ copy[2] <= MaxId
        /\ Begin("clone", "gui", D,
                 CreatePlan(copy, [source EXCEPT
                                      !.uid = calls, !.rev = 1,
                                      !.links = IF derive THEN With(@, rid, up) ELSE @]))
        /\ UNCHANGED editor
  BY DEF CloneRequirement
<1> DEFINE source == Loaded(D, rid)
           up == [rev |-> source.rev, suspect |-> FALSE, seen |-> Seen(source)]
           copy == <<rid[1], NextItemId(rid[1])>>
           links == IF derive THEN With(source.links, rid, up) ELSE source.links
           item == [source EXCEPT !.uid = calls, !.rev = 1, !.links = links]
<1>3. rid \in Rid /\ rid[1] \in DOMAIN D /\ rid[1] \in Prefix
  BY <1>1, <1>2 DEF Types, FilesOK, Resolves, IsDocuments
<1>4. source \in Item
  BY LoadedType DEF Types, FilesOK
<1>5. copy \in Rid /\ copy[1] = rid[1] /\ copy \notin DOMAIN items
  BY <1>2, <1>3, NextItemIdType DEF Types, FilesOK
<1>6. Begin("clone", "gui", D, CreatePlan(copy, item)) /\ UNCHANGED editor
  BY <1>2
<1> HIDE DEF source, copy
<1>7. up \in Link /\ source.links \in LinkMaps
  BY <1>4 DEF Link, Item, Seen
<1> HIDE DEF up
<1>8. links \in LinkMaps
  BY <1>3, <1>7, LinksWith
<1> HIDE DEF links
<1>9. item \in Item /\ item.rev = 1
  <2>1. calls \in Int
    BY DEF Types, CountersOK
  <2> QED BY <1>4, <1>8, <2>1, CopyType DEF Item
<1> HIDE DEF item
<1> QED BY <1>1, <1>3, <1>5, <1>6, <1>9

LEMMA CloneRequirementTypes == Types /\ CloneRequirement => Types'
<1> SUFFICES ASSUME Types, CloneRequirement PROVE Types'
  OBVIOUS
<1> DEFINE D == EnsureDocuments("gui")
<1>1. IsDocuments(D) /\ "gui" \in Services
  BY Documents DEF Types, Services
<1>2. PICK copy \in Rid, item \in Item :
         /\ copy[1] \in DOMAIN D
         /\ Begin("clone", "gui", D, CreatePlan(copy, item)) /\ UNCHANGED editor
  BY CloneRequirementIs
<1> HIDE DEF D
<1>3. SteadyPlan(D, CreatePlan(copy, item)) /\ editor' \in [Editors -> Held]
  BY <1>2, SteadyCreate DEF Types
<1> QED BY <1>1, <1>2, <1>3, BeginSteady

LEMMA CopyRequirementIs ==
    ASSUME Types, CopyRequirement
    PROVE  LET D == EnsureDocuments("gui") IN
           \E copy \in Rid, item \in Item :
              /\ IsDocuments(D) /\ copy[1] \in DOMAIN D /\ copy \notin DOMAIN items
              /\ item.rev = 1 \/ \E r \in DOMAIN items : item.rev = items[r].rev
              /\ Begin("copy", "gui", D, CreatePlan(copy, item) \o Refresh)
              /\ UNCHANGED editor
<1> DEFINE D == EnsureDocuments("gui")
<1>1. IsDocuments(D) /\ "gui" \in Services
  BY Documents DEF Types, Services
<1>2. PICK rid \in DOMAIN items, p \in DOMAIN D, reset \in BOOLEAN :
        /\ NextItemId(p) <= MaxId
        /\ Begin("copy", "gui", D,
                 CreatePlan(<<p, NextItemId(p)>>,
                            [Loaded(D, rid) EXCEPT !.uid = calls,
                                                   !.rev = IF reset THEN 1 ELSE @])
                 \o Refresh)
        /\ UNCHANGED editor
  BY DEF CopyRequirement
<1> DEFINE source == Loaded(D, rid)
           copy == <<p, NextItemId(p)>>
           rev == IF reset THEN 1 ELSE source.rev
           item == [source EXCEPT !.uid = calls, !.rev = rev]
<1>3. source \in Item /\ source.rev = items[rid].rev
  BY LoadedType DEF Types, FilesOK
<1>4. copy \in Rid /\ copy[1] \in DOMAIN D /\ copy \notin DOMAIN items
  <2>1. p \in Prefix
    BY <1>1 DEF IsDocuments
  <2> QED BY <1>2, <2>1, NextItemIdType DEF Types, FilesOK
<1>5. Begin("copy", "gui", D, CreatePlan(copy, item) \o Refresh) /\ UNCHANGED editor
  BY <1>2
<1> HIDE DEF source, copy
<1>6. rev \in Nat /\ (rev = 1 \/ rev = items[rid].rev)
  BY <1>3 DEF Item
<1> HIDE DEF rev
<1>7. item \in Item /\ item.rev = rev
  <2>1. calls \in Int
    BY DEF Types, CountersOK
  <2> QED BY <1>3, <1>6, <2>1, CopyType, NoLinks DEF Item
<1> HIDE DEF item
<1> QED BY <1>1, <1>4, <1>5, <1>6, <1>7

LEMMA CopyRequirementTypes == Types /\ CopyRequirement => Types'
<1> SUFFICES ASSUME Types, CopyRequirement PROVE Types'
  OBVIOUS
<1> DEFINE D == EnsureDocuments("gui")
<1>1. IsDocuments(D) /\ "gui" \in Services
  BY Documents DEF Types, Services
<1>2. PICK copy \in Rid, item \in Item :
         /\ copy[1] \in DOMAIN D
         /\ Begin("copy", "gui", D, CreatePlan(copy, item) \o Refresh) /\ UNCHANGED editor
  BY CopyRequirementIs
<1> HIDE DEF D
<1>3. SteadyPlan(D, CreatePlan(copy, item)) /\ editor' \in [Editors -> Held]
  BY <1>2, SteadyCreate DEF Types
<1> QED BY <1>1, <1>2, <1>3, BeginRefresh

LEMMA CreateDocumentTypes == Types /\ CreateDocument => Types'
<1> SUFFICES ASSUME Types, CreateDocument PROVE Types'
  OBVIOUS
<1> DEFINE D == EnsureDocuments("gui")
<1>1. IsDocuments(D) /\ "gui" \in Services
  BY Documents DEF Types, Services
<1>2. PICK p \in Prefix \ DOMAIN D, parent \in DOMAIN D \cup {NoDoc} :
        /\ Begin("create_document", "gui", D,
                 WriteDocument(p, [parent |-> parent, rev |-> 1]) \o Refresh)
        /\ UNCHANGED editor
  BY DEF CreateDocument
<1> HIDE DEF D
<1>3. [parent |-> parent, rev |-> 1] \in Document
  BY <1>1 DEF Document, IsDocuments
<1>4. SteadyPlan(D, WriteDocument(p, [parent |-> parent, rev |-> 1]))
  BY <1>3, SteadyWrite
<1>5. editor' \in [Editors -> Held]
  BY <1>2 DEF Types
<1> QED BY <1>1, <1>2, <1>4, <1>5, BeginRefresh

LEMMA ReparentDocumentTypes == Types /\ ReparentDocument => Types'
<1> SUFFICES ASSUME Types, ReparentDocument PROVE Types'
  OBVIOUS
<1> DEFINE D == EnsureDocuments("gui")
<1>1. IsDocuments(D) /\ "gui" \in Services
  BY Documents DEF Types, Services
<1>2. PICK p \in DOMAIN D, parent \in DOMAIN D \cup {NoDoc} :
        LET moved == [D[p] EXCEPT !.parent = parent]
        IN /\ Begin("reparent", "gui", [D EXCEPT ![p] = moved],
                    WriteDocument(p, moved) \o Refresh)
           /\ UNCHANGED editor
  BY DEF ReparentDocument
<1> HIDE DEF D
<1> DEFINE moved == [D[p] EXCEPT !.parent = parent]
           E == [D EXCEPT ![p] = moved]
<1>3. moved \in Document /\ p \in Prefix
  BY <1>1 DEF Document, IsDocuments
<1>4. Begin("reparent", "gui", E, WriteDocument(p, moved) \o Refresh) /\ UNCHANGED editor
  BY <1>2
<1> HIDE DEF moved
<1>5. IsDocuments(E)
  BY <1>1, <1>3 DEF IsDocuments
<1> HIDE DEF E
<1>6. SteadyPlan(E, WriteDocument(p, moved))
  BY <1>3, SteadyWrite
<1>7. editor' \in [Editors -> Held]
  BY <1>4 DEF Types
<1> QED BY <1>1, <1>4, <1>5, <1>6, <1>7, BeginRefresh

\* Deleting a document: nothing to bump, before or after its directory is gone.
LEMMA BumpFree ==
    ASSUME NEW D, NEW q, \A i \in DOMAIN q : q[i].op # "bump"
    PROVE  Bumpable(D, q)
BY DEF Bumpable

LEMMA BumpFreeJoined ==
    ASSUME NEW a \in Seq(Effects), NEW b \in Seq(Effects),
           \A i \in DOMAIN a : a[i].op # "bump", \A i \in DOMAIN b : b[i].op # "bump"
    PROVE  a \o b \in Seq(Effects) /\ \A i \in DOMAIN (a \o b) : (a \o b)[i].op # "bump"
<1> DEFINE c == a \o b
           n == Len(a)
<1>1. /\ c \in Seq(Effects)
      /\ \A i \in DOMAIN c :
            \/ i \in DOMAIN a /\ c[i] = a[i]
            \/ i - n \in DOMAIN b /\ c[i] = b[i - n]
  BY Joined
<1> HIDE DEF c, n
<1>2. c \in Seq(Effects) /\ \A i \in DOMAIN c : c[i].op # "bump"
  BY <1>1
<1> QED BY <1>2 DEF c

LEMMA DropIs ==
    ASSUME NEW p \in Prefix
    PROVE  /\ DropDocument(p) \in Seq(Effects) /\ RemoveTree(p) \in Seq(Effects)
           /\ Refresh \in Seq(Effects)
           /\ DOMAIN DropDocument(p) = {1} /\ DOMAIN RemoveTree(p) = {1} /\ DOMAIN Refresh = {1}
           /\ DropDocument(p)[1].op = "dropDocument" /\ RemoveTree(p)[1].op = "removeTree"
           /\ Refresh[1].op = "refresh"
<1> DEFINE d == [op |-> "dropDocument", prefix |-> p]
           t == [op |-> "removeTree", prefix |-> p]
           f == [op |-> "refresh"]
<1>1. d \in Effects /\ d.op = "dropDocument"
  BY DEF Effects
<1>2. t \in Effects /\ t.op = "removeTree"
  BY DEF Effects
<1>3. f \in Effects /\ f.op = "refresh"
  BY DEF Effects
<1>4. DropDocument(p) = <<d>> /\ RemoveTree(p) = <<t>> /\ Refresh = <<f>>
  BY DEF DropDocument, RemoveTree, Refresh
<1> HIDE DEF d, t, f
<1>5. /\ <<d>> \in Seq(Effects) /\ DOMAIN <<d>> = {1} /\ <<d>>[1] = d
  BY <1>1, OneEffect
<1>6. /\ <<t>> \in Seq(Effects) /\ DOMAIN <<t>> = {1} /\ <<t>>[1] = t
  BY <1>2, OneEffect
<1>7. /\ <<f>> \in Seq(Effects) /\ DOMAIN <<f>> = {1} /\ <<f>>[1] = f
  BY <1>3, OneEffect
<1> QED BY <1>1, <1>2, <1>3, <1>4, <1>5, <1>6, <1>7

LEMMA DeleteDocumentTypes == Types /\ DeleteDocument => Types'
<1> SUFFICES ASSUME Types, DeleteDocument PROVE Types'
  OBVIOUS
<1> DEFINE D == EnsureDocuments("gui")
<1>1. IsDocuments(D) /\ "gui" \in Services
  BY Documents DEF Types, Services
<1>2. PICK p \in DOMAIN D :
        Begin("delete_document", "gui", D, DropDocument(p) \o Refresh) /\ UNCHANGED editor
  BY DEF DeleteDocument
<1> HIDE DEF D
<1>3. p \in Prefix
  BY <1>1 DEF IsDocuments
<1> DEFINE a == DropDocument(p)
           b == Refresh
           c == a \o b
<1>4. /\ a \in Seq(Effects) /\ DOMAIN a = {1} /\ a[1].op = "dropDocument"
      /\ b \in Seq(Effects) /\ DOMAIN b = {1} /\ b[1].op = "refresh"
  BY <1>3, DropIs
<1> HIDE DEF a, b
<1>5. c \in Seq(Effects) /\ \A i \in DOMAIN c : c[i].op # "bump"
  BY <1>4, BumpFreeJoined
<1> HIDE DEF c
<1>7. Bumpable(D, c)
  BY <1>5, BumpFree
<1>8. Begin("delete_document", "gui", D, c)
  BY <1>2 DEF a, b, c
<1>9. editor' \in [Editors -> Held]
  BY <1>2 DEF Types
<1> QED BY <1>1, <1>5, <1>7, <1>8, <1>9, BeginTypes

\* Moving a requirement: the referrers are saved one by one.
LEMMA RedirectedType ==
    ASSUME NEW r \in DOMAIN items, NEW rid, NEW new \in Rid,
           \A x \in DOMAIN items : items[x] \in Item
    PROVE  /\ Redirected(r, rid, new) \in Item /\ Redirected(r, rid, new).uid = items[r].uid
           /\ Redirected(r, rid, new).rev = items[r].rev
           /\ Redirected(r, rid, new).text = items[r].text
<1> DEFINE links == With(Without(items[r].links, rid), new, NewLink)
<1>1. items[r] \in Item /\ items[r].links \in LinkMaps
  BY DEF Item
<1>2. links \in LinkMaps
  BY <1>1, LinksWithout, LinksWith, NewLinkType
<1>3. Redirected(r, rid, new) = [items[r] EXCEPT !.links = links]
  BY DEF Redirected
<1> HIDE DEF links
<1> QED BY <1>1, <1>2, <1>3, ItemLinks DEF Item

\* The redirected items of a move: those of other files, each saved once.
Redirects(q, rid, new) ==
    /\ q \in Seq(Effects)
    /\ \A i \in DOMAIN q : /\ q[i].op = "save" /\ q[i].rid # rid /\ q[i].rid # new
                           /\ q[i].rid \in DOMAIN items
                           /\ items[q[i].rid].uid = q[i].item.uid
                           /\ items[q[i].rid].rev = q[i].item.rev
                           /\ items[q[i].rid].text = q[i].item.text

LEMMA MoveRequirementIs ==
    ASSUME Types, MoveRequirement
    PROVE  LET D == EnsureDocuments("gui") IN
           \E redirect \in Seq(Effects), rid \in Rid, new \in Rid, item \in Item :
              /\ IsDocuments(D) /\ rid[1] \in DOMAIN D /\ new[1] \in DOMAIN D
              /\ rid \in DOMAIN items /\ items[rid].uid = item.uid
              /\ items[rid].rev = item.rev
              /\ new \notin DOMAIN items
              /\ Redirects(redirect, rid, new)
              /\ Begin("move", "gui", D, MovePlan(rid, new, item, redirect) \o Refresh)
              /\ UNCHANGED editor
<1> DEFINE D == EnsureDocuments("gui")
<1>1. IsDocuments(D) /\ "gui" \in Services
  BY Documents DEF Types, Services
<1>2. PICK rid \in DOMAIN items, p \in DOMAIN D :
        LET new == <<p, NextItemId(p)>>
            order == CHOOSE f \in [1..Cardinality(Referrers(D, rid)) -> Referrers(D, rid)] :
                         IsInjective(f)
            redirect == [i \in DOMAIN order |->
                            Save(order[i], Redirected(order[i], rid, new))[1]]
        IN
        /\ Resolves(D, rid)
        /\ new[2] <= MaxId
        /\ Begin("move", "gui", D,
                 MovePlan(rid, new, Loaded(D, rid), redirect) \o Refresh)
        /\ UNCHANGED editor
  BY DEF MoveRequirement
<1> DEFINE new == <<p, NextItemId(p)>>
           order == CHOOSE f \in [1..Cardinality(Referrers(D, rid)) -> Referrers(D, rid)] :
                        IsInjective(f)
           redirect == [i \in DOMAIN order |->
                           Save(order[i], Redirected(order[i], rid, new))[1]]
           item == Loaded(D, rid)
<1>3. rid \in Rid /\ rid[1] \in DOMAIN D
  BY <1>2 DEF Types, FilesOK, Resolves
<1>4. new \in Rid /\ new[1] \in DOMAIN D /\ new \notin DOMAIN items
  <2>1. p \in Prefix
    BY <1>1 DEF IsDocuments
  <2> QED BY <1>2, <2>1, NextItemIdType DEF Types, FilesOK
<1>5. item \in Item /\ items[rid].uid = item.uid /\ items[rid].rev = item.rev
  BY LoadedType DEF Types, FilesOK
<1>6. /\ Begin("move", "gui", D, MovePlan(rid, new, item, redirect) \o Refresh)
      /\ UNCHANGED editor
  BY <1>2
<1> HIDE DEF new, item
<1>7. Redirects(redirect, rid, new)
  <2> DEFINE R == Referrers(D, rid)
             n == Cardinality(R)
  <2>1. R \subseteq DOMAIN items /\ R \subseteq Rid /\ rid \notin R
    BY DEF Referrers, Types, FilesOK
  <2>2. n \in Nat /\ order \in [1 .. n -> R]
    BY <2>1, ListOf
  <2> HIDE DEF R, n, order
  <2>3. ASSUME NEW i \in 1 .. n
        PROVE  /\ redirect[i] \in Effects /\ redirect[i].op = "save"
               /\ redirect[i].rid # rid /\ redirect[i].rid # new
               /\ redirect[i].rid \in DOMAIN items
               /\ items[redirect[i].rid].uid = redirect[i].item.uid
               /\ items[redirect[i].rid].rev = redirect[i].item.rev
               /\ items[redirect[i].rid].text = redirect[i].item.text
    <3>1. /\ order[i] \in DOMAIN items /\ order[i] \in Rid /\ order[i] # rid
          /\ order[i] # new /\ DOMAIN order = 1 .. n
      BY <1>4, <2>1, <2>2
    <3>2. /\ Redirected(order[i], rid, new) \in Item
          /\ Redirected(order[i], rid, new).uid = items[order[i]].uid
          /\ Redirected(order[i], rid, new).rev = items[order[i]].rev
          /\ Redirected(order[i], rid, new).text = items[order[i]].text
      BY <1>4, <3>1, RedirectedType DEF Types, FilesOK
    <3>3. redirect[i] = Save(order[i], Redirected(order[i], rid, new))[1]
      BY <3>1
    <3> QED BY <3>1, <3>2, <3>3, SaveIs, FirstOf
  <2>4. redirect = [i \in 1 .. n |-> redirect[i]]
    BY <2>2
  <2> HIDE DEF redirect
  <2>5. redirect \in Seq(Effects) /\ DOMAIN redirect = 1 .. n
    BY <2>2, <2>3, <2>4, Listed
  <2> QED BY <2>3, <2>5 DEF Redirects
<1>8. redirect \in Seq(Effects)
  BY <1>7 DEF Redirects
<1> HIDE DEF redirect, D
<1>9. \E q \in Seq(Effects), r \in Rid, n \in Rid, i \in Item :
         /\ IsDocuments(D) /\ r[1] \in DOMAIN D /\ n[1] \in DOMAIN D
         /\ r \in DOMAIN items /\ items[r].uid = i.uid /\ items[r].rev = i.rev
         /\ n \notin DOMAIN items
         /\ Redirects(q, r, n)
         /\ Begin("move", "gui", D, MovePlan(r, n, i, q) \o Refresh)
         /\ UNCHANGED editor
  BY <1>1, <1>3, <1>4, <1>5, <1>6, <1>7, <1>8
<1> QED BY <1>9 DEF D

LEMMA MoveRequirementTypes == Types /\ MoveRequirement => Types'
<1> SUFFICES ASSUME Types, MoveRequirement PROVE Types'
  OBVIOUS
<1> DEFINE D == EnsureDocuments("gui")
<1>1. IsDocuments(D) /\ "gui" \in Services
  BY Documents DEF Types, Services
<1>2. PICK redirect \in Seq(Effects), rid \in Rid, new \in Rid, item \in Item :
         /\ rid[1] \in DOMAIN D /\ new[1] \in DOMAIN D
         /\ Redirects(redirect, rid, new)
         /\ Begin("move", "gui", D, MovePlan(rid, new, item, redirect) \o Refresh)
         /\ UNCHANGED editor
  BY MoveRequirementIs
<1> HIDE DEF D
<1>3. SteadyPlan(D, redirect)
  BY <1>2 DEF Redirects, SteadyPlan, Loaders
<1>4. SteadyPlan(D, MovePlan(rid, new, item, redirect))
  <2>1. rid[1] \in Prefix /\ new[1] \in Prefix
    BY DEF Rid
  <2>2. /\ SteadyPlan(D, Save(new, item)) /\ SteadyPlan(D, Bump(rid[1]))
        /\ SteadyPlan(D, Bump(new[1])) /\ SteadyPlan(D, Unlink(rid))
    BY <1>2, <2>1, SteadySave, SteadyBump, SteadyUnlink
  <2>3. SteadyPlan(D, Save(new, item) \o redirect \o Bump(rid[1]))
    BY <1>3, <2>2, SteadyJoined
  <2> QED BY <2>2, <2>3, SteadyJoined DEF MovePlan
<1>5. editor' \in [Editors -> Held]
  BY <1>2 DEF Types
<1> QED BY <1>1, <1>2, <1>4, <1>5, BeginRefresh

-------------------------------------------------------------------------------
(* Each effect keeps the types                                                 *)

\* The call goes on with more before what is left, and its service's cache is E.
LEMMA ContinueTypes ==
    ASSUME ServicesOK, NEW s \in Services, call[s] # <<>>, NEW more \in Seq(Effects),
           \A i \in DOMAIN more :
               /\ more[i].op # "bump"
               /\ more[i].op \in Loaders => call[s][1].op \in Loaders,
           Continue(s, more), NEW E, cache' = [cache EXCEPT ![s] = E], IsDocuments(E),
           DOMAIN E = DOMAIN cache[s] \/ call[s][1].op \in Loaders
    PROVE  ServicesOK'
<1> DEFINE q == call[s]
           rest == more \o Tail(q)
<1>1. q \in Seq(Effects) /\ Bumpable(cache[s], q)
  BY DEF ServicesOK, Underway
<1>2. call' = [call EXCEPT ![s] = rest]
  BY DEF Continue
<1>3. rest \in Seq(Effects)
  BY <1>1, LeftOver
<1>4. Bumpable(E, rest)
  <2> HIDE DEF q
  <2>1. q # <<>> /\ (DOMAIN E = DOMAIN cache[s] \/ q[1].op \in Loaders)
    BY DEF q
  <2>2. \A i \in DOMAIN more : /\ more[i].op # "bump"
                               /\ more[i].op \in Loaders => q[1].op \in Loaders
    BY DEF q
  <2> QED BY <1>1, <2>1, <2>2, Onward
<1> HIDE DEF q, rest
<1>5. /\ call' = [z \in Services |-> call'[z]] /\ call'[s] = rest
      /\ \A z \in Services : z # s => call'[z] = call[z]
  BY <1>2 DEF ServicesOK
<1>6. /\ cache' = [z \in Services |-> cache'[z]] /\ cache'[s] = E
      /\ \A z \in Services : z # s => cache'[z] = cache[z]
  BY DEF ServicesOK
<1>7. \A z \in Services : Underway(call'[z], cache'[z])
  BY <1>3, <1>4, <1>5, <1>6 DEF ServicesOK, Underway
<1>8. \A z \in Services : cache'[z] = NotLoaded \/ IsDocuments(cache'[z])
  BY <1>6 DEF ServicesOK
<1> QED BY <1>5, <1>6, <1>7, <1>8 DEF ServicesOK

\* ... with the cache as it is.
LEMMA ContinueCached ==
    ASSUME ServicesOK, NEW s \in Services, call[s] # <<>>, NEW more \in Seq(Effects),
           \A i \in DOMAIN more :
               /\ more[i].op # "bump"
               /\ more[i].op \in Loaders => call[s][1].op \in Loaders,
           Continue(s, more), UNCHANGED cache
    PROVE  ServicesOK'
<1>1. IsDocuments(cache[s])
  BY DEF ServicesOK, Underway
<1>2. cache' = [cache EXCEPT ![s] = cache[s]]
  BY DEF ServicesOK
<1> QED BY <1>1, <1>2, ContinueTypes

LEMMA GoOnCached ==
    ASSUME ServicesOK, NEW s \in Services, call[s] # <<>>, Continue(s, <<>>), UNCHANGED cache
    PROVE  ServicesOK'
<1>1. <<>> \in Seq(Effects) /\ DOMAIN <<>> = {}
  OBVIOUS
<1> QED BY <1>1, ContinueCached

LEMMA RaiseTypes ==
    ASSUME ServicesOK, NEW s \in Services, Raise(s), UNCHANGED cache
    PROVE  ServicesOK'
<1>1. /\ call' = [z \in Services |-> call'[z]] /\ call'[s] = <<>>
      /\ \A z \in Services : z # s => call'[z] = call[z]
  BY DEF Raise, ServicesOK
<1>2. <<>> \in Seq(Effects)
  OBVIOUS
<1>3. \A z \in Services : Underway(call'[z], cache'[z])
  BY <1>1, <1>2 DEF ServicesOK, Underway
<1> QED BY <1>1, <1>3 DEF ServicesOK

\* The effect at the head of a call under way.
LEMMA HeadTypes ==
    ASSUME Types, NEW s \in Services, call[s] # <<>>
    PROVE  /\ Current(s) \in Effects /\ Current(s) = call[s][1]
           /\ IsDocuments(cache[s]) /\ call[s] \in Seq(Effects)
           /\ Current(s).op = "bump" => Current(s).prefix \in DOMAIN cache[s]
<1>1. /\ call[s] \in Seq(Effects) /\ IsDocuments(cache[s])
      /\ Bumpable(cache[s], call[s])
  BY DEF Types, ServicesOK, Underway
<1>2. Current(s) = call[s][1] /\ 1 \in DOMAIN call[s] /\ call[s][1] \in Effects
  BY <1>1, LeftOver DEF Current
<1>3. Current(s).op = "bump" => Current(s).prefix \in DOMAIN cache[s]
  BY <1>1, <1>2 DEF Bumpable
<1> QED BY <1>1, <1>2, <1>3

LEMMA CountTypes ==
    ASSUME CountersOK, UNCHANGED calls, NEW p \in Prefix, NEW n \in Nat, Count(p, n)
    PROVE  CountersOK'
BY DEF CountersOK, Count

LEMMA StoreItemTypes ==
    ASSUME Types, NEW s \in Services, call[s] # <<>>, NEW rid \in Rid, NEW item \in Item,
           NEW live, NEW more, Continue(s, more) => ServicesOK',
           StoreItem(s, rid, item, live, more), UNCHANGED <<docs, cache, editor, calls>>
    PROVE  Types'
<1> DEFINE n == IF rid \notin DOMAIN items \/ items[rid].text # item.text THEN 1 ELSE 0
<1>1. rid[1] \in Prefix
  BY DEF Rid
<1>2. CASE items' = Stored(cache[s], rid, item) /\ Count(rid[1], n) /\ Continue(s, more)
  <2>1. DOMAIN items' \subseteq Rid /\ \A r \in DOMAIN items' : items'[r] \in Item
    BY <1>2, StoredType DEF Types, FilesOK
  <2>2. FilesOK'
    BY <2>1 DEF Types, FilesOK, IsDocuments
  <2>3. n \in Nat
    OBVIOUS
  <2>4. CountersOK'
    BY <1>1, <1>2, <2>3, CountTypes DEF Types
  <2> QED BY <1>2, <2>2, <2>4 DEF Types
<1>3. CASE Raise(s) /\ UNCHANGED <<items, alive, changed>>
  BY <1>3, RaiseTypes DEF Types, FilesOK, IsDocuments, CountersOK
<1> QED BY <1>2, <1>3 DEF StoreItem

LEMMA SaveItemTypes ==
    ASSUME Types, NEW s \in Services, SaveItem(s)
    PROVE  Types'
<1>1. call[s] # <<>> /\ Current(s).op = "save" /\ UNCHANGED <<docs, cache, editor, calls>>
  BY DEF SaveItem, Doing
<1>2. Current(s).rid \in Rid /\ Current(s).item \in Item
  BY <1>1, HeadTypes, EffectIs
<1>3. Continue(s, <<>>) => ServicesOK'
  BY <1>1, GoOnCached DEF Types
<1> QED BY <1>1, <1>2, <1>3, StoreItemTypes DEF SaveItem

\* A directory with a document written, or without one.
LEMMA WithDocument ==
    ASSUME NEW D, IsDocuments(D), NEW p \in Prefix, NEW d \in Document
    PROVE  IsDocuments(With(D, p, d)) /\ IsDocuments(Without(D, p))
BY DEF IsDocuments, With, Without, Restrict

LEMMA BumpDocumentTypes ==
    ASSUME Types, NEW s \in Services, BumpDocument(s)
    PROVE  Types'
<1> DEFINE p == Current(s).prefix
           bumped == [cache[s][p] EXCEPT !.rev = @ + 1]
           E == [cache[s] EXCEPT ![p] = bumped]
<1>1. call[s] # <<>> /\ Current(s).op = "bump"
  BY DEF BumpDocument, Doing
<1>2. p \in Prefix /\ p \in DOMAIN cache[s] /\ IsDocuments(cache[s])
  BY <1>1, HeadTypes, EffectIs
<1>3. /\ cache' = [cache EXCEPT ![s][p] = bumped] /\ docs' = With(docs, p, bumped)
      /\ Continue(s, <<>>) /\ UNCHANGED <<items, editor, calls, alive, changed>>
  BY DEF BumpDocument
<1>4. bumped \in Document
  BY <1>2 DEF IsDocuments, Document
<1> HIDE DEF bumped
<1>5. FilesOK'
  BY <1>2, <1>3, <1>4, WithDocument DEF Types, FilesOK
<1>6. cache' = [cache EXCEPT ![s] = E]
  BY <1>3
<1>7. IsDocuments(E) /\ DOMAIN E = DOMAIN cache[s]
  BY <1>2, <1>4 DEF IsDocuments
<1> HIDE DEF E
<1>8. ServicesOK'
  <2>1. <<>> \in Seq(Effects) /\ DOMAIN <<>> = {}
    OBVIOUS
  <2> QED BY <1>1, <1>3, <1>6, <1>7, <2>1, ContinueTypes DEF Types
<1> QED BY <1>3, <1>5, <1>8 DEF Types, CountersOK

LEMMA WithoutItems ==
    ASSUME FilesOK, UNCHANGED docs, NEW S,
           items' = Restrict(items, DOMAIN items \ S)
    PROVE  FilesOK'
<1>1. /\ DOMAIN items' = DOMAIN items \ S
      /\ \A r \in DOMAIN items' : items'[r] = items[r]
  BY RestrictIs
<1> QED BY <1>1 DEF FilesOK, IsDocuments

LEMMA SweepIs ==
    ASSUME NEW rid \in Rid, NEW todo \in SUBSET Prefix, NEW ids \in SUBSET Rid
    PROVE  /\ Sweep(rid, todo, ids) \in Seq(Effects)
           /\ \A i \in DOMAIN Sweep(rid, todo, ids) : Sweep(rid, todo, ids)[i].op = "sweep"
<1> DEFINE e == [op |-> "sweep", rid |-> rid, todo |-> todo, ids |-> ids]
<1>1. e \in Effects /\ e.op = "sweep"
  BY DEF Effects
<1>2. Sweep(rid, todo, ids) = <<e>>
  BY DEF Sweep
<1> HIDE DEF e
<1>3. <<e>> \in Seq(Effects) /\ DOMAIN <<e>> = {1} /\ <<e>>[1] = e
  BY <1>1, OneEffect
<1> QED BY <1>1, <1>2, <1>3

LEMMA SweepContinues ==
    ASSUME Types, NEW s \in Services, call[s] # <<>>, NEW rid \in Rid,
           NEW todo \in SUBSET Prefix, NEW ids \in SUBSET Rid,
           Continue(s, Sweep(rid, todo, ids)), UNCHANGED cache
    PROVE  ServicesOK'
<1> DEFINE more == Sweep(rid, todo, ids)
<1>1. more \in Seq(Effects) /\ \A i \in DOMAIN more : more[i].op = "sweep"
  BY SweepIs
<1>2. Continue(s, more)
  OBVIOUS
<1> HIDE DEF more
<1>3. \A i \in DOMAIN more : /\ more[i].op # "bump"
                             /\ more[i].op \in Loaders => call[s][1].op \in Loaders
  BY <1>1 DEF Loaders
<1> QED BY <1>1, <1>2, <1>3, ContinueCached DEF Types

LEMMA DeleteFileTypes ==
    ASSUME Types, NEW s \in Services, DeleteFile(s)
    PROVE  Types'
<1> DEFINE rid == Current(s).rid
<1>1. call[s] # <<>> /\ Current(s).op = "deleteItem"
  BY DEF DeleteFile, Doing
<1>2. rid \in Rid /\ rid[1] \in Prefix /\ IsDocuments(cache[s])
  BY <1>1, HeadTypes, EffectIs DEF Rid
<1>3. UNCHANGED <<docs, cache, editor, calls>>
  BY DEF DeleteFile
<1>4. CASE /\ items' = Without(items, rid) /\ Count(rid[1], 1)
           /\ Continue(s, Sweep(rid, DocumentsToSweep(cache[s], rid), {}))
  <2>1. FilesOK'
    BY <1>3, <1>4, WithoutItems DEF Types, Without
  <2>2. DocumentsToSweep(cache[s], rid) \in SUBSET Prefix /\ {} \in SUBSET Rid
    BY <1>2 DEF DocumentsToSweep, IsDocuments
  <2>3. ServicesOK'
    BY <1>1, <1>2, <1>3, <1>4, <2>2, SweepContinues
  <2>4. CountersOK'
    BY <1>2, <1>3, <1>4, CountTypes DEF Types
  <2> QED BY <1>3, <2>1, <2>3, <2>4 DEF Types
<1>5. CASE /\ IF Current(s).must THEN Raise(s) ELSE Continue(s, <<>>)
           /\ UNCHANGED <<items, alive, changed>>
  <2>1. ServicesOK'
    BY <1>1, <1>3, <1>5, RaiseTypes, GoOnCached DEF Types
  <2> QED BY <1>3, <1>5, <2>1 DEF Types, FilesOK, IsDocuments, CountersOK
<1> QED BY <1>4, <1>5 DEF DeleteFile

LEMMA SweepDocumentTypes ==
    ASSUME Types, NEW s \in Services, SweepDocument(s)
    PROVE  Types'
<1>1. call[s] # <<>> /\ Current(s).op = "sweep"
  BY DEF SweepDocument, Doing
<1>2. Current(s).rid \in Rid /\ Current(s).todo \subseteq Prefix
  BY <1>1, HeadTypes, EffectIs
<1>3. UNCHANGED <<docs, items, cache, editor, calls, alive, changed>>
  BY DEF SweepDocument
<1>4. ServicesOK'
  <2>1. ASSUME NEW p \in Current(s).todo,
               Continue(s, Sweep(Current(s).rid, Current(s).todo \ {p}, RidsOf(p)))
        PROVE  ServicesOK'
    <3>1. Current(s).todo \ {p} \in SUBSET Prefix /\ RidsOf(p) \in SUBSET Rid
      BY <1>2 DEF RidsOf, Types, FilesOK
    <3> QED BY <1>1, <1>2, <1>3, <2>1, <3>1, SweepContinues
  <2>2. CASE Continue(s, <<>>)
    BY <1>1, <1>3, <2>2, GoOnCached DEF Types
  <2> QED BY <2>1, <2>2 DEF SweepDocument
<1> QED BY <1>3, <1>4 DEF Types, FilesOK, IsDocuments, CountersOK

LEMMA SweepItemTypes ==
    ASSUME Types, NEW s \in Services, SweepItem(s)
    PROVE  Types'
<1> DEFINE target == Current(s).rid
<1>1. /\ call[s] # <<>> /\ Current(s).op = "sweep"
      /\ UNCHANGED <<docs, items, cache, editor, calls, alive, changed>>
  BY DEF SweepItem, Doing
<1>2. target \in Rid /\ Current(s).todo \in SUBSET Prefix /\ Current(s).ids \in SUBSET Rid
  BY <1>1, HeadTypes, EffectIs
<1>3. PICK r \in Current(s).ids :
         \/ Continue(s, Sweep(target, Current(s).todo, Current(s).ids \ {r}))
         \/ UNCHANGED call \/ Raise(s)
  BY DEF SweepItem
<1>4. Current(s).ids \ {r} \in SUBSET Rid
  BY <1>2
<1>5. ServicesOK'
  <2>1. CASE UNCHANGED call
    BY <1>1, <2>1 DEF Types, ServicesOK, Underway, Bumpable, IsDocuments
  <2> QED BY <1>1, <1>2, <1>3, <1>4, <2>1, SweepContinues, RaiseTypes DEF Types
<1> QED BY <1>1, <1>5 DEF Types, FilesOK, IsDocuments, CountersOK

\* What a sweep has read, and where it goes on once that is written.
LEMMA SweptItem ==
    ASSUME Types, SweptOK, NEW s \in Services, swept[s] # <<>>
    PROVE  /\ swept[s][1].rid \in Rid /\ swept[s][1].item \in Item
           /\ swept[s][1].rid \in Current(s).ids
           /\ call[s] # <<>> /\ Current(s) = call[s][1] /\ Current(s).op = "sweep"
           /\ Current(s).rid \in Rid /\ Current(s).todo \in SUBSET Prefix
           /\ Current(s).ids \ {swept[s][1].rid} \in SUBSET Rid
<1>1. call[s] # <<>> /\ Current(s) = call[s][1] /\ Current(s).op = "sweep"
  BY HeadTypes DEF SweptOK, Sweeping
<1>2. /\ Current(s).rid \in Rid /\ Current(s).todo \in SUBSET Prefix
      /\ Current(s).ids \in SUBSET Rid
  BY <1>1, HeadTypes, EffectIs
<1>3. swept[s] \in Held
  BY DEF SweptOK
<1>4. swept[s][1].rid \in Rid /\ swept[s][1].item \in Item
  <2>1. swept[s] \in Seq([rid : Rid, item : Item])
    BY <1>3 DEF Held
  <2>2. swept[s][1] \in [rid : Rid, item : Item]
    BY <2>1, FirstOf
  <2> QED BY <2>2
<1>5. swept[s][1].rid \in Current(s).ids
  BY <1>1 DEF SweptOK
<1> QED BY <1>1, <1>2, <1>4, <1>5

LEMMA SweepSaveTypes ==
    ASSUME Types, SweptOK, NEW s \in Services, SweepSave(s)
    PROVE  Types'
<1> DEFINE r == swept[s][1].rid
           next == Sweep(Current(s).rid, Current(s).todo, Current(s).ids \ {r})
<1>1. /\ swept[s] # <<>> /\ UNCHANGED <<docs, cache, editor, calls>>
      /\ StoreItem(s, r, swept[s][1].item, alive, next)
  BY DEF SweepSave
<1>2. /\ call[s] # <<>> /\ Current(s).rid \in Rid /\ Current(s).todo \in SUBSET Prefix
      /\ Current(s).ids \ {r} \in SUBSET Rid
  BY <1>1, SweptItem
<1>3. Continue(s, next) => ServicesOK'
  BY <1>1, <1>2, SweepContinues
<1> HIDE DEF next
<1> QED BY <1>1, <1>2, <1>3, SweptItem, StoreItemTypes

LEMMA UnlinkFileTypes ==
    ASSUME Types, NEW s \in Services, UnlinkFile(s)
    PROVE  Types'
<1> DEFINE rid == Current(s).rid
           n == IF rid \in DOMAIN items THEN 1 ELSE 0
<1>1. call[s] # <<>> /\ Current(s).op = "unlink"
  BY DEF UnlinkFile, Doing
<1>2. rid \in Rid /\ rid[1] \in Prefix
  BY <1>1, HeadTypes, EffectIs DEF Rid
<1>3. /\ items' = Without(items, rid) /\ Count(rid[1], n)
      /\ Continue(s, <<>>) /\ UNCHANGED <<docs, cache, editor, calls, alive>>
  BY DEF UnlinkFile
<1>4. FilesOK'
  BY <1>3, WithoutItems DEF Types, Without
<1>5. ServicesOK'
  BY <1>1, <1>3, GoOnCached DEF Types
<1>6. n \in Nat
  OBVIOUS
<1>7. CountersOK'
  BY <1>2, <1>3, <1>6, CountTypes DEF Types
<1> QED BY <1>3, <1>4, <1>5, <1>7 DEF Types

LEMMA SaveDocumentTypes ==
    ASSUME Types, NEW s \in Services, SaveDocument(s)
    PROVE  Types'
<1>1. call[s] # <<>> /\ Current(s).op = "writeDocument"
  BY DEF SaveDocument, Doing
<1>2. Current(s).prefix \in Prefix /\ Current(s).doc \in Document
  BY <1>1, HeadTypes, EffectIs
<1>3. /\ docs' = With(docs, Current(s).prefix, Current(s).doc) /\ Continue(s, <<>>)
      /\ UNCHANGED <<items, cache, editor, calls, alive, changed>>
  BY DEF SaveDocument
<1>4. FilesOK'
  BY <1>2, <1>3, WithDocument DEF Types, FilesOK
<1>5. ServicesOK'
  BY <1>1, <1>3, GoOnCached DEF Types
<1> QED BY <1>3, <1>4, <1>5 DEF Types, CountersOK

\* delete_document goes on with more documents to drop, or with the items to delete.
LEMMA DropContentsIs ==
    ASSUME Types, NEW s \in Services, DropContents(s)
    PROVE  \E more \in Seq(Effects) :
              /\ Continue(s, more)
              /\ \A i \in DOMAIN more : more[i].op \notin {"bump", "save", "unlink"}
<1> DEFINE p == Current(s).prefix
           children == {c \in DOMAIN cache[s] : cache[s][c].parent = p}
           rids == RidsOf(p)
           n == Cardinality(rids)
           order == CHOOSE f \in [1..n -> rids] : IsInjective(f)
           deletes == [i \in DOMAIN order |-> DeleteItem(order[i], FALSE)[1]]
<1>1. call[s] # <<>> /\ Current(s).op = "dropDocument"
  BY DEF DropContents, Doing
<1>2. p \in Prefix /\ IsDocuments(cache[s])
  BY <1>1, HeadTypes, EffectIs
<1>3. \/ \E c \in children : Continue(s, DropDocument(c) \o DropDocument(p))
      \/ Continue(s, deletes \o RemoveTree(p))
  BY DEF DropContents
<1>4. ASSUME NEW a \in Seq(Effects), NEW b \in Seq(Effects), Continue(s, a \o b),
             \A i \in DOMAIN a : a[i].op \notin {"bump", "save", "unlink"},
             \A i \in DOMAIN b : b[i].op \notin {"bump", "save", "unlink"}
      PROVE  \E more \in Seq(Effects) :
                /\ Continue(s, more)
                /\ \A i \in DOMAIN more : more[i].op \notin {"bump", "save", "unlink"}
  <2> DEFINE c == a \o b
  <2>1. c \in Seq(Effects) /\ \A i \in DOMAIN c : \/ i \in DOMAIN a /\ c[i] = a[i]
                                                  \/ \E j \in DOMAIN b : c[i] = b[j]
    BY Joined
  <2>2. Continue(s, c)
    BY <1>4
  <2> HIDE DEF c
  <2>3. \A i \in DOMAIN c : c[i].op \notin {"bump", "save", "unlink"}
    BY <1>4, <2>1
  <2> QED BY <2>1, <2>2, <2>3
<1>5. ASSUME NEW c \in children, Continue(s, DropDocument(c) \o DropDocument(p))
      PROVE  \E more \in Seq(Effects) :
                /\ Continue(s, more)
                /\ \A i \in DOMAIN more : more[i].op \notin {"bump", "save", "unlink"}
  <2> DEFINE a == DropDocument(c)
             b == DropDocument(p)
  <2>1. c \in Prefix
    BY <1>2 DEF IsDocuments
  <2>2. /\ a \in Seq(Effects) /\ DOMAIN a = {1} /\ a[1].op = "dropDocument"
        /\ b \in Seq(Effects) /\ DOMAIN b = {1} /\ b[1].op = "dropDocument"
    BY <1>2, <2>1, DropIs
  <2>3. Continue(s, a \o b)
    BY <1>5
  <2> HIDE DEF a, b, p
  <2> QED BY <1>4, <2>2, <2>3
<1>6. CASE Continue(s, deletes \o RemoveTree(p))
  <2>1. rids \subseteq Rid
    BY DEF RidsOf, Types, FilesOK
  <2>2. n \in Nat /\ order \in [1 .. n -> rids]
    BY <2>1, ListOf
  <2> HIDE DEF n, order, rids
  <2>3. ASSUME NEW i \in 1 .. n
        PROVE  deletes[i] \in Effects /\ deletes[i].op = "deleteItem"
    <3>1. order[i] \in Rid /\ DOMAIN order = 1 .. n
      BY <2>1, <2>2
    <3>2. deletes[i] = [op |-> "deleteItem", rid |-> order[i], must |-> FALSE]
      BY <3>1 DEF DeleteItem
    <3> HIDE DEF deletes
    <3> QED BY <3>1, <3>2 DEF Effects
  <2>4. deletes = [i \in 1 .. n |-> deletes[i]]
    BY <2>2
  <2> HIDE DEF deletes
  <2>5. deletes \in Seq(Effects) /\ DOMAIN deletes = 1 .. n
    BY <2>2, <2>3, <2>4, Listed
  <2> DEFINE b == RemoveTree(p)
  <2>6. b \in Seq(Effects) /\ DOMAIN b = {1} /\ b[1].op = "removeTree"
    BY <1>2, DropIs
  <2>7. Continue(s, deletes \o b)
    BY <1>6
  <2> HIDE DEF b, p
  <2>8. /\ \A i \in DOMAIN deletes : deletes[i].op \notin {"bump", "save", "unlink"}
        /\ \A i \in DOMAIN b : b[i].op \notin {"bump", "save", "unlink"}
    BY <2>3, <2>5, <2>6
  <2> QED BY <1>4, <2>5, <2>6, <2>7, <2>8
<1> QED BY <1>3, <1>5, <1>6

LEMMA DropContentsTypes ==
    ASSUME Types, NEW s \in Services, DropContents(s)
    PROVE  Types'
<1>1. call[s] # <<>> /\ call[s][1].op \in Loaders
  BY HeadTypes DEF DropContents, Doing, Loaders
<1>2. UNCHANGED <<docs, items, cache, editor, calls, alive, changed>>
  BY DEF DropContents
<1>3. PICK more \in Seq(Effects) :
         /\ Continue(s, more)
         /\ \A i \in DOMAIN more : more[i].op \notin {"bump", "save", "unlink"}
  BY DropContentsIs
<1>4. ServicesOK'
  BY <1>1, <1>2, <1>3, ContinueCached DEF Types
<1> QED BY <1>2, <1>4 DEF Types, FilesOK, IsDocuments, CountersOK

LEMMA RemoveDirectoryTypes ==
    ASSUME Types, NEW s \in Services, RemoveDirectory(s)
    PROVE  Types'
<1> DEFINE p == Current(s).prefix
           E == Without(cache[s], p)
<1>1. call[s] # <<>> /\ Current(s).op = "removeTree"
  BY DEF RemoveDirectory, Doing
<1>2. p \in Prefix /\ IsDocuments(cache[s]) /\ call[s][1].op \in Loaders
  BY <1>1, HeadTypes, EffectIs DEF Loaders
<1>3. /\ docs' = Without(docs, p)
      /\ items' = Restrict(items, DOMAIN items \ RidsOf(p))
      /\ changed' = [changed EXCEPT ![p] = 0]
      /\ cache' = [cache EXCEPT ![s] = E]
      /\ Continue(s, <<>>) /\ UNCHANGED <<editor, calls>>
  BY DEF RemoveDirectory
<1>4. FilesOK'
  <2>1. IsDocuments(docs')
    BY <1>3, RestrictIs DEF Types, FilesOK, IsDocuments, Without
  <2>2. /\ DOMAIN items' = DOMAIN items \ RidsOf(p)
        /\ \A r \in DOMAIN items' : items'[r] = items[r]
    BY <1>3, RestrictIs
  <2> QED BY <2>1, <2>2 DEF Types, FilesOK
<1>5. IsDocuments(E)
  BY <1>2, RestrictIs DEF IsDocuments, Without
<1> HIDE DEF E
<1>6. ServicesOK'
  <2>1. <<>> \in Seq(Effects) /\ DOMAIN <<>> = {}
    OBVIOUS
  <2> QED BY <1>1, <1>2, <1>3, <1>5, <2>1, ContinueTypes DEF Types
<1>7. CountersOK'
  BY <1>3 DEF Types, CountersOK
<1> QED BY <1>3, <1>4, <1>6, <1>7 DEF Types

LEMMA RefreshDocumentsTypes ==
    ASSUME Types, NEW s \in Services, RefreshDocuments(s)
    PROVE  Types'
<1>1. call[s] # <<>> /\ Current(s).op = "refresh"
  BY DEF RefreshDocuments, Doing
<1>2. call[s][1].op \in Loaders /\ IsDocuments(docs)
  BY <1>1, HeadTypes DEF Loaders, Types, FilesOK
<1>3. /\ cache' = [cache EXCEPT ![s] = docs] /\ Continue(s, <<>>)
      /\ UNCHANGED <<docs, items, editor, calls, alive, changed>>
  BY DEF RefreshDocuments
<1>4. ServicesOK'
  <2>1. <<>> \in Seq(Effects) /\ DOMAIN <<>> = {}
    OBVIOUS
  <2> QED BY <1>1, <1>2, <1>3, <2>1, ContinueTypes DEF Types
<1> QED BY <1>3, <1>4 DEF Types, FilesOK, IsDocuments, CountersOK

LEMMA EditorSavedTypes ==
    ASSUME Types, NEW s \in Services, EditorSaved(s)
    PROVE  Types'
<1>1. call[s] # <<>> /\ Current(s).op = "closeEditor"
  BY DEF EditorSaved, Doing
<1>2. /\ editor' = [editor EXCEPT ![Current(s).editor] = <<>>] /\ Continue(s, <<>>)
      /\ UNCHANGED <<docs, items, cache, calls, alive, changed>>
  BY DEF EditorSaved
<1>3. ServicesOK'
  BY <1>1, <1>2, GoOnCached DEF Types
<1>4. editor' \in [Editors -> Held]
  <2>1. <<>> \in Held
    BY DEF Held
  <2> QED BY <1>2, <2>1 DEF Types
<1> QED BY <1>2, <1>3, <1>4 DEF Types, FilesOK, IsDocuments, CountersOK

-------------------------------------------------------------------------------
(* Type correctness                                                            *)

LEMMA InitTypes == Init => Types
<1> SUFFICES ASSUME Init PROVE Types
  OBVIOUS
<1>1. FilesOK
  BY StoreAssumption, ItemIs DEF Init, FilesOK
<1>2. ServicesOK
  <2>1. <<>> \in Seq(Effects)
    OBVIOUS
  <2> QED BY <2>1, StoreAssumption DEF Init, ServicesOK, Underway
<1>3. CountersOK
  BY StoreAssumption DEF Init, CountersOK
<1>4. editor \in [Editors -> Held]
  <2>1. <<>> \in Held
    BY DEF Held
  <2> QED BY <2>1 DEF Init
<1> QED BY <1>1, <1>2, <1>3, <1>4 DEF Types

LEMMA StutterTypes == Types /\ UNCHANGED vars => Types'
BY DEF Types, FilesOK, IsDocuments, ServicesOK, Underway, Bumpable, CountersOK, vars

LEMMA StepTypes == Types /\ SweptOK /\ [Next]_vars => Types'
<1> SUFFICES ASSUME Types, SweptOK, [Next]_vars PROVE Types'
  OBVIOUS
<1>1. CASE Tool
  BY <1>1, ToolCreateTypes, ToolUpdateFieldTypes, ToolSetLinksTypes, ToolLinkTypes,
     DeleteRequirementTypes, ToolListDocumentTypes DEF Tool, Services
<1>2. CASE User
  BY <1>2, OpenEditorTypes, NewRequirementTypes, SaveEditorTypes, CloneRequirementTypes,
     CopyRequirementTypes, MoveRequirementTypes, DeleteRequirementTypes,
     CreateDocumentTypes, ReparentDocumentTypes, DeleteDocumentTypes DEF User, Services
<1>3. ASSUME NEW s \in Services, Effect(s) PROVE Types'
  BY <1>3, SaveItemTypes, BumpDocumentTypes, DeleteFileTypes, SweepDocumentTypes,
     SweepItemTypes, SweepSaveTypes, UnlinkFileTypes, SaveDocumentTypes, DropContentsTypes,
     RemoveDirectoryTypes, RefreshDocumentsTypes, EditorSavedTypes DEF Effect
<1>4. CASE UNCHANGED vars
  BY <1>4, StutterTypes
<1> QED BY <1>1, <1>2, <1>3, <1>4 DEF Next

\* What becomes of the call when an effect is performed.
LEMMA CallGoesOn ==
    ASSUME NEW s \in Services, Raise(s) \/ \E more : Continue(s, more)
    PROVE  \E q : call' = [call EXCEPT ![s] = q]
BY DEF Raise, Continue

\* An item that a sweep holds has just been read, or its sweep waits while others
\* act.
LEMMA SweptChanges ==
    ASSUME Types, SweptOK, [Next]_vars, NEW s \in Services, swept'[s] # <<>>
    PROVE  \/ SweepItem(s) /\ swept[s] = <<>>
           \/ /\ swept[s] # <<>> /\ swept'[s] = swept[s] /\ call'[s] = call[s]
              /\ UNCHANGED items \/ \E z \in Services : z # s /\ Effect(z)
<1>1. CASE UNCHANGED <<swept, call, items>>
  BY <1>1
<1>2. ASSUME NEW z \in Services, NEW op, NEW D, NEW plan, Begin(op, z, D, plan)
      PROVE  swept[s] # <<>> /\ swept'[s] = swept[s] /\ call'[s] = call[s] /\ UNCHANGED items
  <2>1. call[z] = <<>> /\ call' = [call EXCEPT ![z] = plan] /\ UNCHANGED <<swept, items>>
    BY <1>2 DEF Begin
  <2>2. s # z
    BY <2>1, SweptItem
  <2> QED BY <2>1, <2>2
<1>3. CASE Tool
  BY <1>1, <1>2, <1>3 DEF Tool, ToolCreate, ToolUpdateField, ToolSetLinks, ToolLink,
        DeleteRequirement, ToolListDocument, Services
<1>4. CASE User
  BY <1>1, <1>2, <1>4 DEF User, OpenEditor, NewRequirement, SaveEditor, CloneRequirement,
        CopyRequirement, MoveRequirement, DeleteRequirement, CreateDocument,
        ReparentDocument, DeleteDocument, Services
<1>5. ASSUME NEW z \in Services, Effect(z), z # s
      PROVE  swept[s] # <<>> /\ swept'[s] = swept[s] /\ call'[s] = call[s]
  <2>1. /\ UNCHANGED call \/ Raise(z) \/ \E more : Continue(z, more)
        /\ UNCHANGED swept \/ \E h : swept' = [swept EXCEPT ![z] = h]
    BY <1>5 DEF Effect, SaveItem, StoreItem, BumpDocument, DeleteFile, SweepDocument,
          SweepItem, SweepSave, UnlinkFile, SaveDocument, DropContents, RemoveDirectory,
          RefreshDocuments, EditorSaved
  <2>2. UNCHANGED call \/ \E q : call' = [call EXCEPT ![z] = q]
    BY <2>1, CallGoesOn
  <2>3. swept'[s] = swept[s] /\ call'[s] = call[s]
    BY <1>5, <2>1, <2>2 DEF SweptOK, Types, ServicesOK
  <2> QED BY <2>3
<1>6. ASSUME Effect(s) PROVE SweepItem(s) /\ swept[s] = <<>>
  <2>1. CASE SweepSave(s)
    <3>1. swept'[s] = <<>>
      BY <2>1 DEF SweepSave, SweptOK
    <3> QED BY <3>1
  <2>2. CASE ~SweepItem(s) /\ ~SweepSave(s)
    <3>1. swept' = swept /\ (Current(s).op # "sweep" \/ Current(s).ids = {})
      BY <1>6, <2>2 DEF Effect, SaveItem, BumpDocument, DeleteFile, SweepDocument,
            UnlinkFile, SaveDocument, DropContents, RemoveDirectory, RefreshDocuments,
            EditorSaved, Doing
    <3> QED BY <3>1, SweptItem
  <2>3. CASE SweepItem(s)
    BY <2>3 DEF SweepItem
  <2> QED BY <2>1, <2>2, <2>3
<1>7. CASE UNCHANGED vars
  BY <1>1, <1>7 DEF vars
<1> QED BY <1>3, <1>4, <1>5, <1>6, <1>7 DEF Next

\* What a sweep reads is what the file holds, without the link.
LEMMA SweptReads ==
    ASSUME Types, SweptOK, NEW s \in Services, SweepItem(s), swept' # swept
    PROVE  \E r \in Current(s).ids \cap DOMAIN items :
              LET item == [items[r] EXCEPT !.links = Without(@, Current(s).rid)] IN
              /\ UNCHANGED <<items, call>> /\ Current(s).rid \in DOMAIN items[r].links
              /\ item \in Item /\ item.uid = items[r].uid
              /\ swept'[s][1].rid = r /\ swept'[s][1].item = item
              /\ swept' \in [Services -> Held]
<1> DEFINE target == Current(s).rid
<1>1. PICK r \in Current(s).ids :
         /\ r \in DOMAIN items /\ target \in DOMAIN items[r].links /\ UNCHANGED <<items, call>>
         /\ swept' = [swept EXCEPT ![s] =
               <<[rid |-> r, item |-> [items[r] EXCEPT !.links = Without(@, target)]]>>]
  BY DEF SweepItem
<1> DEFINE kept == Without(items[r].links, target)
           item == [items[r] EXCEPT !.links = kept]
           h == [rid |-> r, item |-> item]
<1>2. r \in Rid /\ items[r] \in Item /\ items[r].links \in LinkMaps
  BY <1>1 DEF Types, FilesOK, Item
<1>3. kept \in LinkMaps
  BY <1>2, LinksWithout
<1>4. swept' = [swept EXCEPT ![s] = <<h>>]
  BY <1>1
<1> HIDE DEF kept
<1>5. item \in Item /\ item.uid = items[r].uid
  BY <1>2, <1>3, ItemLinks DEF Item
<1> HIDE DEF item
<1>6. h \in [rid : Rid, item : Item] /\ h.rid = r /\ h.item = item
  BY <1>2, <1>5
<1> HIDE DEF h
<1>7. <<h>> \in Held /\ <<h>>[1] = h
  BY <1>6 DEF Held
<1>8. swept' \in [Services -> Held] /\ swept'[s][1] = h
  BY <1>4, <1>7 DEF SweptOK
<1> QED BY <1>1, <1>5, <1>6, <1>8 DEF item, kept

LEMMA SweptStep == Types /\ SweptOK /\ [Next]_vars => SweptOK'
<1> SUFFICES ASSUME Types, SweptOK, [Next]_vars PROVE SweptOK'
  OBVIOUS
<1>1. swept' \in [Services -> Held]
  <2>1. ASSUME NEW s \in Services, SweepSave(s) PROVE swept' \in [Services -> Held]
    <3>1. <<>> \in Held /\ swept' = [swept EXCEPT ![s] = <<>>]
      BY <2>1 DEF Held, SweepSave
    <3> QED BY <3>1 DEF SweptOK
  <2>2. ASSUME NEW s \in Services, SweepItem(s) PROVE swept' \in [Services -> Held]
    BY <2>2, SweptReads DEF SweptOK
  <2>3. swept' = swept \/ \E s \in Services : SweepSave(s) \/ SweepItem(s)
    BY ZenonT(60) DEF Next, Tool, User, ToolCreate, ToolUpdateField, ToolSetLinks, ToolLink,
       DeleteRequirement, ToolListDocument, OpenEditor, NewRequirement, SaveEditor,
       CloneRequirement, CopyRequirement, MoveRequirement, CreateDocument, ReparentDocument,
       DeleteDocument, Begin, vars, Effect, SaveItem, BumpDocument, DeleteFile, SweepDocument,
       UnlinkFile, SaveDocument, DropContents, RemoveDirectory, RefreshDocuments, EditorSaved
  <2> QED BY <2>1, <2>2, <2>3 DEF SweptOK
<1>2. ASSUME NEW s \in Services, swept'[s] # <<>>
      PROVE  Sweeping(call'[s]) /\ swept'[s][1].rid \in call'[s][1].ids
  <2>1. CASE SweepItem(s) /\ swept[s] = <<>>
    <3>1. Sweeping(call[s]) /\ Current(s) = call[s][1]
      BY <2>1, HeadTypes DEF SweepItem, Doing, Sweeping
    <3>2. PICK r \in Current(s).ids : call' = call /\ swept'[s][1].rid = r
      <4>1. swept' # swept
        BY <1>2, <2>1
      <4> QED BY <2>1, <4>1, SweptReads
    <3> QED BY <3>1, <3>2
  <2> QED BY <1>2, <2>1, SweptChanges DEF SweptOK
<1> QED BY <1>1, <1>2 DEF SweptOK

LEMMA AlwaysTypes == Spec => [](Types /\ SweptOK)
<1>1. Init => Types /\ SweptOK
  <2>1. Init => SweptOK
    BY DEF Init, SweptOK, Held
  <2> QED BY <2>1, InitTypes
<1>2. Types /\ SweptOK /\ [Next]_vars => (Types /\ SweptOK)'
  BY StepTypes, SweptStep
<1> QED BY <1>1, <1>2, PTL DEF Spec

\* The files, the caches and the counters have their types in every state,
\* whatever operations the users perform and however the two services' effects
\* interleave: a bump in particular never meets a document its cache lacks.
THEOREM StoreTypeCorrect == Spec => []TypeOK
<1>1. Types /\ SweptOK => TypeOK
  <2> SUFFICES ASSUME Types, SweptOK PROVE TypeOK
    OBVIOUS
  <2>1. \A s \in Services : swept[s] # <<>> => IsItem(swept[s][1].item)
    BY SweptItem, ItemIs
  <2> QED BY <2>1, ItemIs DEF Types, TypeOK, FilesOK, ServicesOK, CountersOK
<1> QED BY <1>1, AlwaysTypes, PTL

-------------------------------------------------------------------------------
(* The calls do no more than the operations in use                             *)

Copying == {"clone", "copy", "move"}
Creating == {"tool_create", "tool_update", "tool_set_links", "tool_link"}

\* The operations by which a service removes requirements, or touches them at all.
Removes(z) == IF z = "mcp" THEN {"tool_delete"} ELSE {"move", "delete", "delete_document"}
Touches(z) == Removes(z) \cup IF z = "mcp" THEN Creating ELSE Copying \cup {"new", "edit"}

\* The effects of a service that removes none.
Calm(z) == {"writeDocument", "refresh"}
           \cup IF Uses \cap Touches(z) = {} THEN {} ELSE {"save", "bump", "closeEditor"}
Within(q, O) == \E S : q \in Seq(S) /\ \A e \in S : e.op \in O
Duties == \A z \in Services : Uses \cap Removes(z) = {} => Within(call[z], Calm(z))

LEMMA WithinIs ==
    ASSUME NEW S, NEW q \in Seq(S), NEW O, \A e \in S : e.op \in O
    PROVE  Within(q, O)
BY DEF Within

LEMMA WithinPlans ==
    ASSUME NEW O
    PROVE  /\ Within(<<>>, O)
           /\ \A e : e.op \in O => Within(<<e>>, O)
           /\ \A a, b : Within(a, O) /\ Within(b, O) => Within(a \o b, O)
           /\ \A q : Within(q, O) /\ q # <<>> => q[1].op \in O /\ Within(<<>> \o Tail(q), O)
<1>1. Within(<<>>, O)
  <2> DEFINE q == <<>>
             S == {}
  <2>1. q \in Seq(S) /\ \A x \in S : x.op \in O
    OBVIOUS
  <2> HIDE DEF q, S
  <2>2. Within(q, O)
    BY <2>1, WithinIs
  <2> QED BY <2>2 DEF q
<1>2. ASSUME NEW e, e.op \in O PROVE Within(<<e>>, O)
  <2> DEFINE q == <<e>>
             S == {e}
  <2>1. q \in Seq(S) /\ \A x \in S : x.op \in O
    BY <1>2
  <2> HIDE DEF q, S
  <2>2. Within(q, O)
    BY <2>1, WithinIs
  <2> QED BY <2>2 DEF q
<1>3. ASSUME NEW a, NEW b, Within(a, O), Within(b, O) PROVE Within(a \o b, O)
  <2>1. PICK S : a \in Seq(S) /\ \A e \in S : e.op \in O
    BY <1>3 DEF Within
  <2>2. PICK T : b \in Seq(T) /\ \A e \in T : e.op \in O
    BY <1>3 DEF Within
  <2>3. a \in Seq(S \cup T) /\ b \in Seq(S \cup T)
    BY <2>1, <2>2
  <2>4. a \o b \in Seq(S \cup T) /\ \A e \in S \cup T : e.op \in O
    BY <2>1, <2>2, <2>3
  <2> QED BY <2>4, WithinIs
<1>4. ASSUME NEW q, Within(q, O), q # <<>>
      PROVE  q[1].op \in O /\ Within(<<>> \o Tail(q), O)
  <2>1. PICK S : q \in Seq(S) /\ \A e \in S : e.op \in O
    BY <1>4 DEF Within
  <2>2. q[1] \in S /\ <<>> \o Tail(q) \in Seq(S)
    BY <1>4, <2>1
  <2> QED BY <2>1, <2>2, WithinIs
<1> QED BY <1>1, <1>2, <1>3, <1>4

LEMMA DutiesBegin ==
    ASSUME Types, Duties, NEW s \in Services, NEW op, NEW D, NEW plan, Begin(op, s, D, plan),
           op \in Removes(s) \/ Within(plan, Calm(s))
    PROVE  Duties'
<1>1. op \in Uses /\ call'[s] = plan /\ \A z \in Services : z # s => call'[z] = call[z]
  BY DEF Begin, Types, ServicesOK
<1> QED BY <1>1 DEF Duties

\* What the calls that remove nothing do.
LEMMA CalmPlans ==
    /\ \A z : Within(<<>>, Calm(z))
    /\ \A z, p, d : Within(WriteDocument(p, d) \o Refresh, Calm(z))
    /\ \A z : Uses \cap Touches(z) # {} =>
          /\ \A rid, item : Within(Save(rid, item), Calm(z))
          /\ \A rid, item : Within(CreatePlan(rid, item), Calm(z))
          /\ \A rid, item : Within(CreatePlan(rid, item) \o Refresh, Calm(z))
          /\ \A rid, item, c, p : Within(Save(rid, item) \o BumpIf(c, p), Calm(z))
          /\ \A rid, item, c, p, e :
                Within(Save(rid, item) \o BumpIf(c, p) \o CloseEditor(e), Calm(z))
<1>1. ASSUME NEW z
      PROVE  /\ Within(<<>>, Calm(z)) /\ Within(Refresh, Calm(z))
             /\ \A p, d : Within(WriteDocument(p, d), Calm(z))
  <2>1. "writeDocument" \in Calm(z) /\ "refresh" \in Calm(z)
    BY DEF Calm
  <2> HIDE DEF Calm
  <2> QED BY <2>1, WithinPlans DEF Refresh, WriteDocument
<1>2. ASSUME NEW z, Uses \cap Touches(z) # {}
      PROVE  /\ \A rid, item : Within(Save(rid, item), Calm(z))
             /\ \A p : Within(Bump(p), Calm(z))
             /\ \A e : Within(CloseEditor(e), Calm(z))
  <2>1. "save" \in Calm(z) /\ "bump" \in Calm(z) /\ "closeEditor" \in Calm(z)
    BY <1>2 DEF Calm
  <2> HIDE DEF Calm
  <2> QED BY <2>1, WithinPlans DEF Save, Bump, CloseEditor
<1>3. ASSUME NEW z, Uses \cap Touches(z) # {} PROVE \A c, p : Within(BumpIf(c, p), Calm(z))
  BY <1>1, <1>2, <1>3 DEF BumpIf
<1> QED BY <1>1, <1>2, <1>3, WithinPlans DEF CreatePlan

LEMMA DutiesTool == Types /\ Duties /\ Tool => Duties'
<1> SUFFICES ASSUME Types, Duties, Tool PROVE Duties'
  OBVIOUS
<1>1. ASSUME NEW op \in Creating, NEW D, NEW plan, Begin(op, "mcp", D, plan),
             Uses \cap Touches("mcp") # {} => Within(plan, Calm("mcp"))
      PROVE  Duties'
  BY <1>1, DutiesBegin DEF Begin, Services, Touches
<1>2. CASE ToolCreate
  BY <1>1, <1>2, CalmPlans DEF ToolCreate, Creating
<1>3. CASE ToolUpdateField
  BY <1>1, <1>3, CalmPlans DEF ToolUpdateField, Creating
<1>4. CASE ToolSetLinks
  BY <1>1, <1>4, CalmPlans DEF ToolSetLinks, Creating
<1>5. CASE ToolLink
  BY <1>1, <1>5, CalmPlans DEF ToolLink, Creating
<1>6. CASE DeleteRequirement("tool_delete", "mcp")
  BY <1>6, DutiesBegin DEF DeleteRequirement, Removes, Services
<1>7. CASE ToolListDocument
  BY <1>7 DEF ToolListDocument, Duties
<1> QED BY <1>2, <1>3, <1>4, <1>5, <1>6, <1>7 DEF Tool

LEMMA DutiesUser == Types /\ Duties /\ User => Duties'
<1> SUFFICES ASSUME Types, Duties, User PROVE Duties'
  OBVIOUS
<1>1. ASSUME NEW op \in Copying \cup {"new", "edit"}, NEW D, NEW plan,
             Begin(op, "gui", D, plan),
             Uses \cap Touches("gui") # {} => Within(plan, Calm("gui"))
      PROVE  Duties'
  BY <1>1, DutiesBegin DEF Begin, Services, Touches
<1>2. ASSUME NEW op \in {"move", "delete", "delete_document"}, NEW D, NEW plan,
             Begin(op, "gui", D, plan)
      PROVE  Duties'
  BY <1>2, DutiesBegin DEF Services, Removes
<1>3. ASSUME NEW op, NEW D, NEW p, NEW d, Begin(op, "gui", D, WriteDocument(p, d) \o Refresh)
      PROVE  Duties'
  BY <1>3, DutiesBegin, CalmPlans DEF Services
<1>4. ASSUME NEW e \in Editors, OpenEditor(e) PROVE Duties'
  BY <1>4 DEF OpenEditor, Duties
<1>5. ASSUME NEW e \in Editors, NewRequirement(e) PROVE Duties'
  BY <1>1, <1>5, CalmPlans DEF NewRequirement
<1>6. ASSUME NEW e \in Editors, SaveEditor(e) PROVE Duties'
  BY <1>1, <1>6, CalmPlans DEF SaveEditor
<1>7. CASE CloneRequirement
  BY <1>1, <1>7, CalmPlans DEF CloneRequirement, Copying
<1>8. CASE CopyRequirement
  BY <1>1, <1>8, CalmPlans DEF CopyRequirement, Copying
<1>9. CASE MoveRequirement
  BY <1>2, <1>9 DEF MoveRequirement
<1>10. CASE DeleteRequirement("delete", "gui")
  BY <1>2, <1>10 DEF DeleteRequirement
<1>11. CASE CreateDocument
  BY <1>3, <1>11 DEF CreateDocument
<1>12. CASE ReparentDocument
  BY <1>3, <1>12 DEF ReparentDocument
<1>13. CASE DeleteDocument
  BY <1>2, <1>13 DEF DeleteDocument
<1> QED BY <1>4, <1>5, <1>6, <1>7, <1>8, <1>9, <1>10, <1>11, <1>12, <1>13 DEF User

\* A service that removes nothing goes on with its call, or drops it.
LEMMA CalmEffect ==
    ASSUME Types, Duties, NEW s \in Services, Effect(s), Uses \cap Removes(s) = {}
    PROVE  /\ Current(s).op \in Calm(s) /\ call[s] # <<>>
           /\ Continue(s, <<>>) \/ Raise(s)
           /\ SaveItem(s) \/ UNCHANGED items
           /\ UNCHANGED swept
<1>1. call[s] # <<>>
  BY DEF Effect, SaveItem, BumpDocument, DeleteFile, SweepDocument, SweepItem, SweepSave,
         UnlinkFile, SaveDocument, DropContents, RemoveDirectory, RefreshDocuments,
         EditorSaved, Doing
<1>2. Current(s).op \in Calm(s)
  BY <1>1, HeadTypes, WithinPlans DEF Duties
<1>3. Current(s).op \in {"writeDocument", "refresh", "save", "bump", "closeEditor"}
  BY <1>2 DEF Calm
<1>4. SaveItem(s) \/ BumpDocument(s) \/ SaveDocument(s) \/ RefreshDocuments(s) \/ EditorSaved(s)
  BY <1>3 DEF Effect, DeleteFile, SweepDocument, SweepItem, SweepSave, UnlinkFile,
              DropContents, RemoveDirectory, Doing
<1>5. /\ Continue(s, <<>>) \/ Raise(s)
      /\ SaveItem(s) \/ UNCHANGED items
      /\ UNCHANGED swept
  BY <1>4 DEF SaveItem, StoreItem, BumpDocument, SaveDocument, RefreshDocuments, EditorSaved
<1> QED BY <1>1, <1>2, <1>5

LEMMA DutiesStep == Types /\ Duties /\ [Next]_vars => Duties'
<1> SUFFICES ASSUME Types, Duties, [Next]_vars PROVE Duties'
  OBVIOUS
<1>1. ASSUME NEW s \in Services, Effect(s) PROVE Duties'
  <2>1. PICK q : call' = [call EXCEPT ![s] = q]
    <3>1. UNCHANGED call \/ Raise(s) \/ \E more : Continue(s, more)
      BY <1>1 DEF Effect, SaveItem, StoreItem, BumpDocument, DeleteFile, SweepDocument,
            SweepItem, SweepSave, UnlinkFile, SaveDocument, DropContents, RemoveDirectory,
            RefreshDocuments, EditorSaved
    <3>2. call = [call EXCEPT ![s] = call[s]]
      BY DEF Types, ServicesOK
    <3> QED BY <3>1, <3>2, CallGoesOn
  <2>2. call'[s] = q /\ \A z \in Services : z # s => call'[z] = call[z]
    BY <2>1 DEF Types, ServicesOK
  <2>3. ASSUME Uses \cap Removes(s) = {} PROVE Within(call'[s], Calm(s))
    <3>1. call[s] # <<>> /\ (Continue(s, <<>>) \/ Raise(s))
      BY <1>1, <2>3, CalmEffect
    <3>2. call'[s] = <<>> \o Tail(call[s]) \/ call'[s] = <<>>
      BY <3>1 DEF Continue, Raise, Types, ServicesOK
    <3>3. Within(call[s], Calm(s))
      BY <2>3 DEF Duties
    <3>4. Within(<<>>, Calm(s)) /\ Within(<<>> \o Tail(call[s]), Calm(s))
      BY <3>1, <3>3, WithinPlans
    <3> QED BY <3>2, <3>4
  <2> QED BY <2>2, <2>3 DEF Duties
<1>2. CASE UNCHANGED vars
  BY <1>2 DEF vars, Duties
<1> QED BY <1>1, <1>2, DutiesTool, DutiesUser DEF Next

LEMMA SweeperRemoves ==
    ASSUME Types, SweptOK, Duties, NEW s \in Services, swept[s] # <<>>
    PROVE  Uses \cap Removes(s) # {}
<1>1. call[s] # <<>> /\ call[s][1].op = "sweep"
  BY SweptItem
<1>2. "sweep" \notin Calm(s)
  BY DEF Calm
<1>3. Uses \cap Removes(s) = {} => Within(call[s], Calm(s))
  BY DEF Duties
<1> QED BY <1>1, <1>2, <1>3, WithinPlans

LEMMA AlwaysDuties == Spec => []Duties
<1>1. Init => Duties
  BY WithinPlans DEF Init, Duties
<1>2. Types /\ Duties /\ [Next]_vars => Duties'
  BY DutiesStep
<1> QED BY <1>1, <1>2, AlwaysTypes, PTL DEF Spec

\* Only one of the services touches requirements; both may change documents.
OneHand == \E s \in Services : Uses \cap Touches(s) = {}

\* What a sweep has read is then what it finds when it writes.
AsRead(s) ==
    LET r == swept[s][1].rid IN
    /\ r \in DOMAIN items /\ Current(s).rid \in DOMAIN items[r].links
    /\ swept[s][1].item = [items[r] EXCEPT !.links = Without(@, Current(s).rid)]
Undisturbed == \A s \in Services : swept[s] # <<>> => AsRead(s)

LEMMA UndisturbedStep ==
    Types /\ SweptOK /\ Duties /\ OneHand /\ Undisturbed /\ [Next]_vars => Undisturbed'
<1> SUFFICES ASSUME Types, SweptOK, Duties, OneHand, Undisturbed, [Next]_vars,
                    NEW s \in Services, swept'[s] # <<>>
             PROVE  AsRead(s)'
  BY DEF Undisturbed
<1>1. CASE SweepItem(s) /\ swept[s] = <<>>
  <2>1. swept' # swept
    BY <1>1
  <2> QED BY <1>1, <2>1, SweptReads DEF AsRead, Current
<1>2. ASSUME swept[s] # <<>>, swept'[s] = swept[s], call'[s] = call[s], UNCHANGED items
      PROVE  AsRead(s)'
  BY <1>2 DEF Undisturbed, AsRead, Current
<1>3. ASSUME swept[s] # <<>>, NEW z \in Services, z # s, Effect(z) PROVE UNCHANGED items
  <2>1. Uses \cap Touches(z) = {}
    BY <1>3, SweeperRemoves DEF OneHand, Touches, Services
  <2>2. Uses \cap Removes(z) = {} /\ "save" \notin Calm(z)
    BY <2>1 DEF Touches, Calm
  <2> QED BY <1>3, <2>2, CalmEffect DEF SaveItem, Doing
<1> QED BY <1>1, <1>2, <1>3, SweptChanges

LEMMA AlwaysUndisturbed == ASSUME OneHand PROVE Spec => []Undisturbed
<1>1. Init => Undisturbed
  BY DEF Init, Undisturbed
<1>2. Types /\ SweptOK /\ Duties /\ Undisturbed /\ [Next]_vars => Undisturbed'
  BY UndisturbedStep
<1> QED BY <1>1, <1>2, AlwaysTypes, AlwaysDuties, PTL DEF Spec

\* A sweep that nobody disturbs might as well read and write at once.
SweptAtOnce(s) ==
    LET target == Current(s).rid IN
    /\ Doing(s, "sweep")
    /\ \E r \in Current(s).ids :
         LET linked == r \in DOMAIN items /\ target \in DOMAIN items[r].links
             kept == Without(items[r].links, target)
             next == Sweep(target, Current(s).todo, Current(s).ids \ {r})
         IN
         \/ r \in DOMAIN items /\ ~linked /\ Continue(s, next) /\ UNCHANGED items
         \/ /\ linked /\ ValidItemLinks(cache[s], r, kept)
            /\ items' = Stored(cache[s], r, [items[r] EXCEPT !.links = kept])
            /\ Continue(s, next)
         \/ /\ r \notin DOMAIN items \/ (linked /\ ~ValidItemLinks(cache[s], r, kept))
            /\ Raise(s) /\ UNCHANGED items
    /\ UNCHANGED <<docs, cache, editor, calls, alive, changed>>

LEMMA SweepsAtOnce ==
    ASSUME Types, SweptOK, Undisturbed, NEW s \in Services, SweepItem(s) \/ SweepSave(s)
    PROVE  SweptAtOnce(s) \/ UNCHANGED <<docs, items, cache, call, editor, calls, alive, changed>>
<1>1. CASE SweepItem(s)
  BY <1>1 DEF SweepItem, SweptAtOnce
<1>2. CASE SweepSave(s)
  <2> DEFINE r == swept[s][1].rid
             item == swept[s][1].item
             kept == Without(items[r].links, Current(s).rid)
             next == Sweep(Current(s).rid, Current(s).todo, Current(s).ids \ {r})
  <2>1. /\ r \in Current(s).ids /\ r \in DOMAIN items /\ items[r] \in Item /\ r[1] \in Prefix
        /\ Current(s).rid \in DOMAIN items[r].links /\ item = [items[r] EXCEPT !.links = kept]
    BY <1>2, SweptItem DEF SweepSave, Undisturbed, AsRead, Types, FilesOK, Rid
  <2>2. item.links = kept /\ item.text = items[r].text
    BY <2>1 DEF Item
  <2>3. [changed EXCEPT ![r[1]] = @ + 0] = changed
    BY <2>1 DEF Types, CountersOK
  <2>4. /\ Doing(s, "sweep") /\ UNCHANGED <<docs, cache, editor, calls>>
        /\ StoreItem(s, r, item, alive, next)
    BY <1>2 DEF SweepSave
  <2> HIDE DEF r, item, next, kept
  <2>5. UNCHANGED <<alive, changed>>
    BY <2>1, <2>2, <2>3, <2>4 DEF StoreItem, Count
  <2>6. \/ /\ ValidItemLinks(cache[s], r, kept) /\ Continue(s, next)
           /\ items' = Stored(cache[s], r, [items[r] EXCEPT !.links = kept])
        \/ ~ValidItemLinks(cache[s], r, kept) /\ Raise(s) /\ UNCHANGED items
    BY <2>1, <2>2, <2>4 DEF StoreItem
  <2> QED BY <2>1, <2>4, <2>5, <2>6 DEF SweptAtOnce, kept, next
<1> QED BY <1>1, <1>2

-------------------------------------------------------------------------------
(* One service writes: nothing is overwritten                                  *)

\* Either the GUI or the agent stores requirements, and no editor window holds
\* one while others store; both may change documents.
OneWriter == /\ "new" \notin Uses /\ "edit" \notin Uses
             /\ Uses \cap Copying = {} \/ Uses \cap Creating = {}
Writer == IF Uses \cap Copying = {} THEN "mcp" ELSE "gui"

\* One of the two removes requirements, the writer or the other one.
OneRemover == \E s \in Services : Uses \cap Removes(s) = {}

\* The uids of the items f with the requirements live all have a file.
AllKept(f, live) == \A u \in live : \E r \in DOMAIN f : f[r].uid = u

ReadOnly(q) == \A i \in DOMAIN q : q[i].op \notin {"save", "unlink"}

\* Each save of the plan q goes to a free place or to that of its own requirement.
OwnPlaces(q, f) ==
    \A i \in DOMAIN q : q[i].op = "save" =>
        /\ q[i].rid \in DOMAIN f => f[q[i].rid].uid = q[i].item.uid
        /\ \A j \in DOMAIN q : q[j].op = "save" /\ q[j].rid = q[i].rid =>
                                  q[j].item.uid = q[i].item.uid

\* A file is removed once at most, is not saved by the same plan, and what it
\* holds is elsewhere, or is saved elsewhere before.
CopyFirst(q, f, live) ==
    \A i \in DOMAIN q : q[i].op = "unlink" =>
        /\ \A j \in DOMAIN q : /\ q[j].op = "unlink" => j = i
                               /\ q[j].op = "save" => q[j].rid # q[i].rid
        /\ (q[i].rid \in DOMAIN f /\ f[q[i].rid].uid \in live) =>
               \/ \E r \in DOMAIN f \ {q[i].rid} : f[r].uid = f[q[i].rid].uid
               \/ \E j \in DOMAIN q : /\ j < i /\ q[j].op = "save"
                                      /\ q[j].item.uid = f[q[i].rid].uid
Safe(q, f, live) == OwnPlaces(q, f) /\ CopyFirst(q, f, live)

Kept == /\ AllKept(items, alive)
        /\ Safe(call[Writer], items, alive)
        /\ \A s \in Services : s # Writer => ReadOnly(call[s])

\* The file of an item that a sweep has read still holds that requirement.
Intact ==
    \A s \in Services : swept[s] # <<>> =>
        /\ swept[s][1].rid \in DOMAIN items
        /\ items[swept[s][1].rid].uid = swept[s][1].item.uid

LEMMA ReadOnlySafe == ASSUME NEW q, ReadOnly(q), NEW f, NEW live PROVE Safe(q, f, live)
BY DEF ReadOnly, Safe, OwnPlaces, CopyFirst

LEMMA NothingSafe ==
    ASSUME NEW f, NEW live
    PROVE  ReadOnly(<<>>) /\ Safe(<<>>, f, live)
<1>1. DOMAIN <<>> = {}
  OBVIOUS
<1> QED BY <1>1, ReadOnlySafe DEF ReadOnly

\* Files go away with their requirements; those that stay hold what they held.
Shrinks(f, live, g, less) ==
    /\ DOMAIN g \subseteq DOMAIN f /\ \A r \in DOMAIN g : g[r].uid = f[r].uid
    /\ less \subseteq live /\ \A r \in DOMAIN f \ DOMAIN g : f[r].uid \notin less

LEMMA SafeShrinks ==
    ASSUME NEW f, NEW live, NEW g, NEW less, Shrinks(f, live, g, less),
           NEW q, Safe(q, f, live)
    PROVE  Safe(q, g, less)
<1>1. OwnPlaces(q, g)
  BY DEF Safe, OwnPlaces, Shrinks
<1>2. ASSUME NEW i \in DOMAIN q, q[i].op = "unlink",
             q[i].rid \in DOMAIN g, g[q[i].rid].uid \in less
      PROVE  \/ \E r \in DOMAIN g \ {q[i].rid} : g[r].uid = g[q[i].rid].uid
             \/ \E j \in DOMAIN q : /\ j < i /\ q[j].op = "save"
                                    /\ q[j].item.uid = g[q[i].rid].uid
  <2>1. q[i].rid \in DOMAIN f /\ f[q[i].rid].uid \in live /\ g[q[i].rid].uid = f[q[i].rid].uid
    BY <1>2 DEF Shrinks
  <2>2. \/ \E r \in DOMAIN f \ {q[i].rid} : f[r].uid = f[q[i].rid].uid
        \/ \E j \in DOMAIN q : /\ j < i /\ q[j].op = "save"
                               /\ q[j].item.uid = f[q[i].rid].uid
    BY <1>2, <2>1 DEF Safe, CopyFirst
  <2>3. ASSUME NEW r \in DOMAIN f \ {q[i].rid}, f[r].uid = f[q[i].rid].uid
        PROVE  \E x \in DOMAIN g \ {q[i].rid} : g[x].uid = g[q[i].rid].uid
    <3>1. r \in DOMAIN g
      BY <1>2, <2>1, <2>3 DEF Shrinks
    <3>2. g[r].uid = g[q[i].rid].uid
      BY <2>1, <2>3, <3>1 DEF Shrinks
    <3> QED BY <2>3, <3>1, <3>2
  <2> QED BY <2>1, <2>2, <2>3
<1>3. CopyFirst(q, g, less)
  BY <1>2 DEF Safe, CopyFirst
<1> QED BY <1>1, <1>3 DEF Safe

LEMMA KeptShrinks ==
    ASSUME NEW f, NEW live, NEW g, NEW less, Shrinks(f, live, g, less), AllKept(f, live)
    PROVE  AllKept(g, less)
<1> SUFFICES ASSUME NEW u \in less PROVE \E r \in DOMAIN g : g[r].uid = u
  BY DEF AllKept
<1>1. PICK r \in DOMAIN f : f[r].uid = u
  BY DEF AllKept, Shrinks
<1> QED BY <1>1 DEF Shrinks

\* The rest of a plan whose first effect stores nothing, or has been performed.
LEMMA RestIndex ==
    ASSUME NEW q \in Seq(Effects), q # <<>>, NEW more \in Seq(Effects)
    PROVE  \A k \in DOMAIN q : k > 1 =>
              /\ k + Len(more) - 1 \in DOMAIN (more \o Tail(q))
              /\ (more \o Tail(q))[k + Len(more) - 1] = q[k]
<1> DEFINE n == Len(more)
           c == more \o Tail(q)
<1>1. Tail(q) \in Seq(Effects) /\ Len(Tail(q)) = Len(q) - 1 /\ Len(q) \in Nat \ {0}
  OBVIOUS
<1>2. \A i \in 1 .. Len(Tail(q)) : Tail(q)[i] = q[i + 1]
  OBVIOUS
<1>3. DOMAIN q = 1 .. Len(q) /\ n \in Nat
  OBVIOUS
<1>4. DOMAIN c = 1 .. (n + Len(Tail(q)))
  BY <1>1
<1>5. \A i \in 1 .. Len(Tail(q)) : c[n + i] = Tail(q)[i]
  BY <1>1, <1>3
<1> HIDE DEF c, n
<1>6. ASSUME NEW k \in DOMAIN q, k > 1
      PROVE  k + n - 1 \in DOMAIN c /\ c[k + n - 1] = q[k]
  <2>1. PICK i \in 1 .. Len(Tail(q)) : i = k - 1
    BY <1>1, <1>3, <1>6
  <2>2. n + i = k + n - 1 /\ i + 1 = k /\ n + i \in DOMAIN c
    BY <1>1, <1>3, <1>4, <1>6, <2>1
  <2>3. c[n + i] = q[i + 1]
    BY <1>2, <1>5, <2>1
  <2> QED BY <2>2, <2>3
<1> QED BY <1>6 DEF c, n

\* The stores still to do after the first effect are those the plan had.
Remains(q, c, n) ==
    /\ 1 \in DOMAIN q /\ DOMAIN q \subseteq Nat \ {0} /\ DOMAIN c \subseteq Nat /\ n \in Nat
    /\ \A i \in DOMAIN c : c[i].op \in {"save", "unlink"} =>
          i - n + 1 \in DOMAIN q /\ i - n + 1 > 1 /\ c[i] = q[i - n + 1]
    /\ \A k \in DOMAIN q : k > 1 => k + n - 1 \in DOMAIN c /\ c[k + n - 1] = q[k]

LEMMA RestStores ==
    ASSUME NEW q \in Seq(Effects), q # <<>>, NEW more \in Seq(Effects), ReadOnly(more),
           NEW c, c = more \o Tail(q)
    PROVE  Remains(q, c, Len(more))
<1>1. 1 \in DOMAIN q /\ Len(more) \in Nat /\ c \in Seq(Effects)
  BY LeftOver
<1>2. DOMAIN c \subseteq Nat /\ DOMAIN q \subseteq Nat \ {0}
  BY <1>1
<1>3. \A i \in DOMAIN c : c[i].op \in {"save", "unlink"} =>
         /\ i - Len(more) + 1 \in DOMAIN q /\ i - Len(more) + 1 > 1
         /\ c[i] = q[i - Len(more) + 1]
  BY LeftOver DEF ReadOnly
<1>4. \A k \in DOMAIN q : k > 1 =>
         k + Len(more) - 1 \in DOMAIN c /\ c[k + Len(more) - 1] = q[k]
  BY RestIndex
<1> QED BY <1>1, <1>2, <1>3, <1>4 DEF Remains

LEMMA SafeRest ==
    ASSUME NEW q, NEW c, NEW n, Remains(q, c, n), q[1].op \notin {"save", "unlink"},
           NEW f, NEW live, Safe(q, f, live)
    PROVE  Safe(c, f, live)
<1>1. /\ 1 \in DOMAIN q /\ DOMAIN q \subseteq Nat \ {0} /\ DOMAIN c \subseteq Nat /\ n \in Nat
      /\ \A i \in DOMAIN c : c[i].op \in {"save", "unlink"} =>
            i - n + 1 \in DOMAIN q /\ i - n + 1 > 1 /\ c[i] = q[i - n + 1]
      /\ \A k \in DOMAIN q : k > 1 => k + n - 1 \in DOMAIN c /\ c[k + n - 1] = q[k]
  BY DEF Remains
<1>2. OwnPlaces(c, f)
  <2>1. ASSUME NEW i \in DOMAIN c, c[i].op = "save"
        PROVE  /\ c[i].rid \in DOMAIN f => f[c[i].rid].uid = c[i].item.uid
               /\ \A j \in DOMAIN c : c[j].op = "save" /\ c[j].rid = c[i].rid =>
                                         c[j].item.uid = c[i].item.uid
    <3>1. PICK k \in DOMAIN q : c[i] = q[k]
      BY <1>1, <2>1
    <3>2. \A j \in DOMAIN c : c[j].op = "save" => \E m \in DOMAIN q : c[j] = q[m]
      BY <1>1
    <3> QED BY <2>1, <3>1, <3>2 DEF Safe, OwnPlaces
  <2> QED BY <2>1 DEF OwnPlaces
<1>3. ASSUME NEW i \in DOMAIN c, c[i].op = "unlink"
      PROVE  /\ \A j \in DOMAIN c : /\ c[j].op = "unlink" => j = i
                                    /\ c[j].op = "save" => c[j].rid # c[i].rid
             /\ (c[i].rid \in DOMAIN f /\ f[c[i].rid].uid \in live) =>
                  \/ \E r \in DOMAIN f \ {c[i].rid} : f[r].uid = f[c[i].rid].uid
                  \/ \E j \in DOMAIN c : /\ j < i /\ c[j].op = "save"
                                         /\ c[j].item.uid = f[c[i].rid].uid
  <2>1. PICK k \in DOMAIN q : k = i - n + 1 /\ c[i] = q[k]
    BY <1>1, <1>3
  <2>2. ASSUME NEW j \in DOMAIN c
        PROVE  /\ c[j].op = "unlink" => j = i
               /\ c[j].op = "save" => c[j].rid # c[i].rid
    <3>1. CASE c[j].op = "unlink"
      <4>1. j - n + 1 \in DOMAIN q /\ c[j] = q[j - n + 1]
        BY <1>1, <3>1
      <4>2. j - n + 1 = k
        BY <1>3, <2>1, <3>1, <4>1 DEF Safe, CopyFirst
      <4> QED BY <1>1, <2>1, <3>1, <4>2
    <3>2. CASE c[j].op = "save"
      <4>1. j - n + 1 \in DOMAIN q /\ c[j] = q[j - n + 1]
        BY <1>1, <3>2
      <4> QED BY <1>3, <2>1, <3>2, <4>1 DEF Safe, CopyFirst
    <3> QED BY <3>1, <3>2
  <2>3. ASSUME c[i].rid \in DOMAIN f /\ f[c[i].rid].uid \in live
        PROVE  \/ \E r \in DOMAIN f \ {c[i].rid} : f[r].uid = f[c[i].rid].uid
               \/ \E j \in DOMAIN c : /\ j < i /\ c[j].op = "save"
                                      /\ c[j].item.uid = f[c[i].rid].uid
    <3>1. \/ \E r \in DOMAIN f \ {c[i].rid} : f[r].uid = f[c[i].rid].uid
          \/ \E j \in DOMAIN q : /\ j < k /\ q[j].op = "save"
                                 /\ q[j].item.uid = f[c[i].rid].uid
      BY <1>3, <2>1, <2>3 DEF Safe, CopyFirst
    <3>2. ASSUME NEW j \in DOMAIN q, j < k, q[j].op = "save",
                 q[j].item.uid = f[c[i].rid].uid
          PROVE  \E m \in DOMAIN c : /\ m < i /\ c[m].op = "save"
                                     /\ c[m].item.uid = f[c[i].rid].uid
      <4>1. j > 1
        <5>1. j # 1
          BY <3>2
        <5> QED BY <1>1, <5>1
      <4>2. j + n - 1 \in DOMAIN c /\ c[j + n - 1] = q[j] /\ j + n - 1 < i
        BY <1>1, <2>1, <3>2, <4>1
      <4> QED BY <3>2, <4>2
    <3> QED BY <3>1, <3>2
  <2> QED BY <2>2, <2>3
<1>4. CopyFirst(c, f, live)
  BY <1>3 DEF CopyFirst
<1> QED BY <1>2, <1>4 DEF Safe

\* Performing a save: its place now holds its requirement, which is alive.
LEMMA SafeSaved ==
    ASSUME NEW q, NEW c, NEW n, Remains(q, c, n), q[1].op = "save",
           NEW f, NEW live, Safe(q, f, live), NEW g,
           DOMAIN g = DOMAIN f \cup {q[1].rid}, g[q[1].rid].uid = q[1].item.uid,
           \A r \in DOMAIN f : r # q[1].rid => g[r].uid = f[r].uid
    PROVE  /\ Safe(c, g, live \cup {q[1].item.uid})
           /\ AllKept(f, live) => AllKept(g, live \cup {q[1].item.uid})
<1> DEFINE rid == q[1].rid
           u == q[1].item.uid
           more == live \cup {u}
<1>1. /\ 1 \in DOMAIN q /\ DOMAIN q \subseteq Nat \ {0} /\ DOMAIN c \subseteq Nat /\ n \in Nat
      /\ \A i \in DOMAIN c : c[i].op \in {"save", "unlink"} =>
            i - n + 1 \in DOMAIN q /\ i - n + 1 > 1 /\ c[i] = q[i - n + 1]
      /\ \A k \in DOMAIN q : k > 1 => k + n - 1 \in DOMAIN c /\ c[k + n - 1] = q[k]
  BY DEF Remains
<1>2. rid \in DOMAIN f => f[rid].uid = u
  BY <1>1 DEF Safe, OwnPlaces
<1>3. DOMAIN f \subseteq DOMAIN g /\ (\A r \in DOMAIN f : g[r].uid = f[r].uid)
  BY <1>2
<1>4. DOMAIN g = DOMAIN f \cup {rid} /\ g[rid].uid = u
  OBVIOUS
<1>5. OwnPlaces(c, g)
  <2>1. ASSUME NEW i \in DOMAIN c, c[i].op = "save"
        PROVE  /\ c[i].rid \in DOMAIN g => g[c[i].rid].uid = c[i].item.uid
               /\ \A j \in DOMAIN c : c[j].op = "save" /\ c[j].rid = c[i].rid =>
                                         c[j].item.uid = c[i].item.uid
    <3>1. PICK k \in DOMAIN q : c[i] = q[k]
      BY <1>1, <2>1
    <3>2. \A j \in DOMAIN c : c[j].op = "save" => \E m \in DOMAIN q : c[j] = q[m]
      BY <1>1
    <3>3. c[i].rid = rid => c[i].item.uid = u
      BY <1>1, <2>1, <3>1 DEF Safe, OwnPlaces
    <3>4. c[i].rid \in DOMAIN f => f[c[i].rid].uid = c[i].item.uid
      BY <2>1, <3>1 DEF Safe, OwnPlaces
    <3>5. \A j \in DOMAIN c : c[j].op = "save" /\ c[j].rid = c[i].rid =>
                              c[j].item.uid = c[i].item.uid
      BY <2>1, <3>1, <3>2 DEF Safe, OwnPlaces
    <3> HIDE DEF rid, u
    <3> QED BY <1>3, <1>4, <3>3, <3>4, <3>5
  <2> QED BY <2>1 DEF OwnPlaces
<1>6. ASSUME NEW i \in DOMAIN c, c[i].op = "unlink"
      PROVE  /\ \A j \in DOMAIN c : /\ c[j].op = "unlink" => j = i
                                    /\ c[j].op = "save" => c[j].rid # c[i].rid
             /\ (c[i].rid \in DOMAIN g /\ g[c[i].rid].uid \in more) =>
                  \/ \E r \in DOMAIN g \ {c[i].rid} : g[r].uid = g[c[i].rid].uid
                  \/ \E j \in DOMAIN c : /\ j < i /\ c[j].op = "save"
                                         /\ c[j].item.uid = g[c[i].rid].uid
  <2>1. PICK k \in DOMAIN q : k = i - n + 1 /\ c[i] = q[k]
    BY <1>1, <1>6
  <2>2. ASSUME NEW j \in DOMAIN c
        PROVE  /\ c[j].op = "unlink" => j = i
               /\ c[j].op = "save" => c[j].rid # c[i].rid
    <3>1. CASE c[j].op = "unlink"
      <4>1. j - n + 1 \in DOMAIN q /\ c[j] = q[j - n + 1]
        BY <1>1, <3>1
      <4>2. j - n + 1 = k
        BY <1>6, <2>1, <3>1, <4>1 DEF Safe, CopyFirst
      <4> QED BY <1>1, <2>1, <3>1, <4>2
    <3>2. CASE c[j].op = "save"
      <4>1. j - n + 1 \in DOMAIN q /\ c[j] = q[j - n + 1]
        BY <1>1, <3>2
      <4> QED BY <1>6, <2>1, <3>2, <4>1 DEF Safe, CopyFirst
    <3> QED BY <3>1, <3>2
  <2>3. ASSUME c[i].rid \in DOMAIN g /\ g[c[i].rid].uid \in more
        PROVE  \/ \E r \in DOMAIN g \ {c[i].rid} : g[r].uid = g[c[i].rid].uid
               \/ \E j \in DOMAIN c : /\ j < i /\ c[j].op = "save"
                                      /\ c[j].item.uid = g[c[i].rid].uid
    <3>1. c[i].rid # rid
      BY <1>1, <1>6, <2>1 DEF Safe, CopyFirst
    <3>2. c[i].rid \in DOMAIN f /\ g[c[i].rid].uid = f[c[i].rid].uid
      BY <2>3, <3>1, <1>3, <1>4
    <3>3. CASE g[c[i].rid].uid = u
      BY <3>1, <3>3, <1>4
    <3>4. CASE g[c[i].rid].uid \in live
      <4>1. \/ \E r \in DOMAIN f \ {c[i].rid} : f[r].uid = f[c[i].rid].uid
            \/ \E j \in DOMAIN q : /\ j < k /\ q[j].op = "save"
                                   /\ q[j].item.uid = f[c[i].rid].uid
        BY <1>6, <2>1, <3>2, <3>4 DEF Safe, CopyFirst
      <4>2. ASSUME NEW j \in DOMAIN q, j < k, q[j].op = "save",
                   q[j].item.uid = f[c[i].rid].uid
            PROVE  \/ \E r \in DOMAIN g \ {c[i].rid} : g[r].uid = g[c[i].rid].uid
                   \/ \E m \in DOMAIN c : /\ m < i /\ c[m].op = "save"
                                          /\ c[m].item.uid = f[c[i].rid].uid
        <5>1. CASE j = 1
          BY <5>1, <4>2, <1>4, <3>1, <3>2
        <5>2. CASE j > 1
          <6>1. j + n - 1 \in DOMAIN c /\ c[j + n - 1] = q[j] /\ j + n - 1 < i
            BY <1>1, <2>1, <4>2, <5>2
          <6> QED BY <4>2, <6>1
        <5> QED BY <1>1, <5>1, <5>2
      <4> QED BY <4>1, <4>2, <3>2, <1>3
    <3> QED BY <2>3, <3>3, <3>4
  <2> QED BY <2>2, <2>3
<1>7. CopyFirst(c, g, more)
  BY <1>6 DEF CopyFirst
<1>8. AllKept(f, live) => AllKept(g, more)
  BY <1>3, <1>4 DEF AllKept
<1> QED BY <1>5, <1>7, <1>8 DEF Safe

\* Performing the removal of a file that a move has copied.
LEMMA SafeUnlinked ==
    ASSUME NEW q, NEW c, NEW n, Remains(q, c, n), q[1].op = "unlink",
           NEW f, NEW live, Safe(q, f, live), AllKept(f, live), NEW g,
           DOMAIN g = DOMAIN f \ {q[1].rid}, \A r \in DOMAIN g : g[r] = f[r]
    PROVE  Safe(c, g, live) /\ AllKept(g, live)
<1>1. /\ 1 \in DOMAIN q /\ DOMAIN q \subseteq Nat \ {0} /\ DOMAIN c \subseteq Nat /\ n \in Nat
      /\ \A i \in DOMAIN c : c[i].op \in {"save", "unlink"} =>
            i - n + 1 \in DOMAIN q /\ i - n + 1 > 1 /\ c[i] = q[i - n + 1]
  BY DEF Remains
<1>2. \A i \in DOMAIN c : c[i].op # "unlink"
  BY <1>1 DEF Safe, CopyFirst
<1>3. OwnPlaces(c, g)
  <2>1. ASSUME NEW i \in DOMAIN c, c[i].op = "save"
        PROVE  /\ c[i].rid \in DOMAIN g => g[c[i].rid].uid = c[i].item.uid
               /\ \A j \in DOMAIN c : c[j].op = "save" /\ c[j].rid = c[i].rid =>
                                         c[j].item.uid = c[i].item.uid
    <3>1. PICK k \in DOMAIN q : c[i] = q[k]
      BY <1>1, <2>1
    <3>2. \A j \in DOMAIN c : c[j].op = "save" => \E m \in DOMAIN q : c[j] = q[m]
      BY <1>1
    <3> QED BY <2>1, <3>1, <3>2 DEF Safe, OwnPlaces
  <2> QED BY <2>1 DEF OwnPlaces
<1>4. CopyFirst(c, g, live)
  BY <1>2 DEF CopyFirst
<1>5. ASSUME NEW u \in live PROVE \E r \in DOMAIN g : g[r].uid = u
  <2>1. PICK r \in DOMAIN f : f[r].uid = u
    BY DEF AllKept
  <2>2. CASE r = q[1].rid
    <3>1. \E x \in DOMAIN f \ {q[1].rid} : f[x].uid = f[q[1].rid].uid
      BY <1>1, <2>1, <2>2 DEF Safe, CopyFirst
    <3> QED BY <2>1, <2>2, <3>1
  <2>3. CASE r # q[1].rid
    BY <2>1, <2>3
  <2> QED BY <2>2, <2>3
<1> QED BY <1>3, <1>4, <1>5 DEF Safe, AllKept

\* The plans that calls start with.
LEMMA SafeSave ==
    ASSUME NEW rid \in Rid, NEW item \in Item, NEW f, rid \in DOMAIN f => f[rid].uid = item.uid
    PROVE  \A live : Safe(Save(rid, item), f, live)
<1> DEFINE q == Save(rid, item)
<1>1. DOMAIN q = {1} /\ q[1].op = "save" /\ q[1].rid = rid /\ q[1].item = item
  BY SaveIs
<1> HIDE DEF q
<1>2. \A live : Safe(q, f, live)
  BY <1>1 DEF Safe, OwnPlaces, CopyFirst
<1> QED BY <1>2 DEF q

\* The plan c performs a, and then effects that store nothing.
Begins(a, c) ==
    /\ \A i \in DOMAIN a : i \in DOMAIN c /\ c[i] = a[i]
    /\ \A i \in DOMAIN c : c[i].op \in {"save", "unlink"} => i \in DOMAIN a /\ c[i] = a[i]

LEMMA Leads ==
    ASSUME NEW a \in Seq(Effects), NEW b \in Seq(Effects)
    PROVE  \A i \in DOMAIN a : i \in DOMAIN (a \o b) /\ (a \o b)[i] = a[i]
OBVIOUS

LEMMA ReadOnlyAfter ==
    ASSUME NEW a \in Seq(Effects), NEW b \in Seq(Effects), ReadOnly(b)
    PROVE  Begins(a, a \o b)
<1> DEFINE c == a \o b
<1>1. \A i \in DOMAIN a : i \in DOMAIN c /\ c[i] = a[i]
  OBVIOUS
<1>2. \A i \in DOMAIN c : c[i].op \in {"save", "unlink"} => i \in DOMAIN a /\ c[i] = a[i]
  BY Joined DEF ReadOnly
<1> QED BY <1>1, <1>2 DEF Begins

LEMMA SafeBegins ==
    ASSUME NEW a, NEW c, Begins(a, c), NEW f, NEW live, Safe(a, f, live)
    PROVE  Safe(c, f, live)
BY DEF Begins, Safe, OwnPlaces, CopyFirst

LEMMA ReadOnlyPlans ==
    /\ \A p : ReadOnly(Bump(p)) /\ ReadOnly(DropDocument(p)) /\ ReadOnly(RemoveTree(p))
    /\ \A p, cond : ReadOnly(BumpIf(cond, p))
    /\ \A p, d : ReadOnly(WriteDocument(p, d))
    /\ \A rid, must : ReadOnly(DeleteItem(rid, must))
    /\ \A rid, todo, ids : ReadOnly(Sweep(rid, todo, ids))
    /\ ReadOnly(Refresh) /\ ReadOnly(<<>>)
<1>1. ASSUME NEW e, e.op \notin {"save", "unlink"} PROVE ReadOnly(<<e>>)
  BY <1>1 DEF ReadOnly
<1>2. \A p : ReadOnly(Bump(p)) /\ ReadOnly(DropDocument(p)) /\ ReadOnly(RemoveTree(p))
  BY <1>1 DEF Bump, DropDocument, RemoveTree
<1>3. ReadOnly(<<>>)
  BY NothingSafe
<1>4. \A p, cond : ReadOnly(BumpIf(cond, p))
  BY <1>2, <1>3 DEF BumpIf
<1>5. \A p, d : ReadOnly(WriteDocument(p, d))
  BY <1>1 DEF WriteDocument
<1>6. \A rid, must : ReadOnly(DeleteItem(rid, must))
  BY <1>1 DEF DeleteItem
<1>7. \A rid, todo, ids : ReadOnly(Sweep(rid, todo, ids))
  BY <1>1 DEF Sweep
<1>8. ReadOnly(Refresh)
  BY <1>1 DEF Refresh
<1> QED BY <1>2, <1>3, <1>4, <1>5, <1>6, <1>7, <1>8

LEMMA ReadOnlyJoined ==
    ASSUME NEW a \in Seq(Effects), NEW b \in Seq(Effects), ReadOnly(a), ReadOnly(b)
    PROVE  ReadOnly(a \o b)
<1> DEFINE c == a \o b
           n == Len(a)
<1>1. \A i \in DOMAIN c : \/ i \in DOMAIN a /\ c[i] = a[i]
                          \/ i - n \in DOMAIN b /\ c[i] = b[i - n]
  BY Joined
<1> HIDE DEF c, n
<1>2. ReadOnly(c)
  BY <1>1 DEF ReadOnly
<1> QED BY <1>2 DEF c

\* The plan of a move: saves only, none at rid, one of which is the copy.
Copies(q, rid, u, f) ==
    /\ \A i \in DOMAIN q : /\ q[i].op # "unlink"
                           /\ q[i].op = "save" => q[i].rid # rid
    /\ OwnPlaces(q, f)
    /\ \E i \in DOMAIN q : q[i].op = "save" /\ q[i].item.uid = u

LEMMA CopiesBegins ==
    ASSUME NEW a, NEW c, Begins(a, c), NEW rid, NEW u, NEW f, Copies(a, rid, u, f)
    PROVE  Copies(c, rid, u, f)
<1>1. \A i \in DOMAIN c : /\ c[i].op # "unlink"
                          /\ c[i].op = "save" => c[i].rid # rid
  BY DEF Begins, Copies
<1>2. OwnPlaces(c, f)
  BY DEF Begins, Copies, OwnPlaces
<1>3. \E i \in DOMAIN c : c[i].op = "save" /\ c[i].item.uid = u
  BY DEF Begins, Copies
<1> QED BY <1>1, <1>2, <1>3 DEF Copies

LEMMA CopiesThenUnlink ==
    ASSUME NEW a \in Seq(Effects), NEW rid \in Rid, NEW f, rid \in DOMAIN f,
           Copies(a, rid, f[rid].uid, f)
    PROVE  \A live : Safe(a \o Unlink(rid), f, live)
<1> DEFINE e == [op |-> "unlink", rid |-> rid]
           b == <<e>>
           c == a \o b
           n == Len(a)
           u == f[rid].uid
<1>1. e \in Effects /\ e.op = "unlink" /\ e.rid = rid
  BY DEF Effects
<1>2. b = Unlink(rid)
  BY DEF Unlink
<1> HIDE DEF e
<1>3. b \in Seq(Effects) /\ DOMAIN b = {1} /\ b[1] = e
  BY <1>1, OneEffect
<1> HIDE DEF b
<1>4. /\ DOMAIN a = 1 .. n /\ n \in Nat
      /\ \A i \in DOMAIN c : \/ i \in DOMAIN a /\ c[i] = a[i]
                             \/ i - n = 1 /\ c[i] = e /\ i \notin DOMAIN a
  BY <1>3, Joined
<1>5. (\A i \in DOMAIN a : i \in DOMAIN c /\ c[i] = a[i]) /\ DOMAIN c \subseteq Nat
  BY <1>3
<1> HIDE DEF c, n, u
<1>6. OwnPlaces(c, f)
  <2>1. \A i \in DOMAIN c : c[i].op = "save" => i \in DOMAIN a /\ c[i] = a[i]
    BY <1>1, <1>4
  <2> QED BY <2>1, <1>5 DEF Copies, OwnPlaces
<1>7. PICK k \in DOMAIN a : a[k].op = "save" /\ a[k].item.uid = u
  BY DEF Copies, u
<1>8. ASSUME NEW i \in DOMAIN c, c[i].op = "unlink"
      PROVE  /\ \A j \in DOMAIN c : /\ c[j].op = "unlink" => j = i
                                    /\ c[j].op = "save" => c[j].rid # c[i].rid
             /\ \E j \in DOMAIN c : /\ j < i /\ c[j].op = "save"
                                    /\ c[j].item.uid = f[c[i].rid].uid
  <2>1. i - n = 1 /\ c[i] = e
    BY <1>4, <1>8 DEF Copies
  <2>2. ASSUME NEW j \in DOMAIN c, c[j].op = "unlink" PROVE j = i
    <3>1. j - n = 1
      BY <1>4, <2>2 DEF Copies
    <3> QED BY <1>4, <1>5, <2>1, <3>1
  <2>3. \A j \in DOMAIN c : c[j].op = "save" => c[j].rid # c[i].rid
    BY <1>1, <1>4, <2>1 DEF Copies
  <2>4. k \in DOMAIN c /\ k < i /\ c[k] = a[k]
    BY <1>4, <1>5, <1>7, <2>1
  <2> QED BY <1>1, <1>7, <2>1, <2>2, <2>3, <2>4 DEF u
<1>9. \A live : CopyFirst(c, f, live)
  BY <1>8 DEF CopyFirst
<1> QED BY <1>2, <1>6, <1>9 DEF Safe, c

LEMMA PlanTypes ==
    /\ \A p \in Prefix : Bump(p) \in Seq(Effects)
    /\ \A p \in Prefix, cond \in BOOLEAN : BumpIf(cond, p) \in Seq(Effects)
    /\ \A rid \in Rid, must \in BOOLEAN : DeleteItem(rid, must) \in Seq(Effects)
    /\ \A p \in Prefix, d \in Document : WriteDocument(p, d) \in Seq(Effects)
    /\ Refresh \in Seq(Effects)
<1>1. ASSUME NEW p \in Prefix
      PROVE  Bump(p) \in Seq(Effects) /\ \A cond \in BOOLEAN : BumpIf(cond, p) \in Seq(Effects)
  <2>1. SteadyPlan([x \in {p} |-> p], Bump(p))
    BY SteadyBump
  <2>2. Bump(p) \in Seq(Effects) /\ <<>> \in Seq(Effects)
    BY <2>1 DEF SteadyPlan
  <2> QED BY <2>2 DEF BumpIf
<1>2. ASSUME NEW rid \in Rid, NEW must \in BOOLEAN PROVE DeleteItem(rid, must) \in Seq(Effects)
  BY SteadyDelete DEF SteadyPlan
<1>3. ASSUME NEW p \in Prefix, NEW d \in Document PROVE WriteDocument(p, d) \in Seq(Effects)
  BY SteadyWrite DEF SteadyPlan
<1>4. Refresh \in Seq(Effects)
  <2>1. [op |-> "refresh"] \in Effects
    BY DEF Effects
  <2> QED BY <2>1, OneEffect DEF Refresh
<1> QED BY <1>1, <1>2, <1>3, <1>4

\* The start of a call: the writer's plan is safe, the other's stores nothing.
LEMMA KeptBegin ==
    ASSUME Types, Kept, NEW s \in Services, NEW op, NEW D, NEW plan, Begin(op, s, D, plan),
           s = Writer => Safe(plan, items, alive), s # Writer => ReadOnly(plan)
    PROVE  Kept'
<1>1. UNCHANGED <<items, alive>>
  BY DEF Begin
<1>2. call'[s] = plan /\ \A z \in Services : z # s => call'[z] = call[z]
  BY DEF Begin, Types, ServicesOK
<1>3. Writer \in Services
  BY DEF Writer, Services
<1>4. AllKept(items, alive)'
  BY <1>1 DEF Kept, AllKept
<1>5. Safe(call[Writer], items, alive)'
  <2>1. Safe(call'[Writer], items, alive)
    BY <1>2, <1>3 DEF Kept
  <2> QED BY <1>1, <2>1 DEF Safe, OwnPlaces, CopyFirst
<1>6. (\A z \in Services : z # Writer => ReadOnly(call[z]))'
  <2>1. \A z \in Services : z # Writer => ReadOnly(call'[z])
    BY <1>2 DEF Kept
  <2> QED BY <2>1 DEF ReadOnly
<1> QED BY <1>4, <1>5, <1>6 DEF Kept

LEMMA KeptBeginReading ==
    ASSUME Types, Kept, NEW s \in Services, NEW op, NEW D, NEW plan, Begin(op, s, D, plan),
           ReadOnly(plan)
    PROVE  Kept'
BY KeptBegin, ReadOnlySafe

LEMMA SafeCreate ==
    ASSUME NEW rid \in Rid, NEW item \in Item, rid \in DOMAIN items => items[rid].uid = item.uid,
           NEW more \in Seq(Effects), ReadOnly(more)
    PROVE  Safe(Save(rid, item) \o more, items, alive)
<1>1. Safe(Save(rid, item), items, alive) /\ Save(rid, item) \in Seq(Effects)
  BY SafeSave, SaveIs
<1> QED BY <1>1, ReadOnlyAfter, SafeBegins

\* The agent's service stores only when it is the writer, and so does the GUI's.
LEMMA WhoWrites ==
    ASSUME OneWriter
    PROVE  /\ \A op \in Creating : op \in Uses => Writer = "mcp"
           /\ \A op \in Copying : op \in Uses => Writer = "gui"
<1>1. ASSUME NEW op \in Creating, op \in Uses PROVE Writer = "mcp"
  BY <1>1 DEF OneWriter, Writer
<1>2. ASSUME NEW op \in Copying, op \in Uses PROVE Writer = "gui"
  BY <1>2 DEF OneWriter, Writer
<1> QED BY <1>1, <1>2

LEMMA KeptBeginStore ==
    ASSUME Types, Kept, NEW s \in Services, NEW op, NEW D, s = Writer,
           NEW rid \in Rid, NEW item \in Item, rid \in DOMAIN items => items[rid].uid = item.uid,
           NEW more \in Seq(Effects), ReadOnly(more),
           Begin(op, s, D, Save(rid, item) \o more)
    PROVE  Kept'
<1> DEFINE plan == Save(rid, item) \o more
<1>1. Safe(plan, items, alive) /\ Begin(op, s, D, plan)
  BY SafeCreate
<1> HIDE DEF plan
<1> QED BY <1>1, KeptBegin

LEMMA KeptToolCreate == Types /\ Kept /\ OneWriter /\ ToolCreate => Kept'
<1> SUFFICES ASSUME Types, Kept, OneWriter, ToolCreate PROVE Kept'
  OBVIOUS
<1> DEFINE D == EnsureDocuments("mcp")
<1>1. PICK rid \in Rid, item \in Item :
        rid \notin DOMAIN items /\ Begin("tool_create", "mcp", D, CreatePlan(rid, item))
  BY ToolCreateIs
<1> HIDE DEF D
<1>2. "mcp" \in Services /\ "mcp" = Writer
  BY <1>1, WhoWrites DEF Begin, Services, Creating
<1>3. Bump(rid[1]) \in Seq(Effects) /\ ReadOnly(Bump(rid[1]))
  BY PlanTypes, ReadOnlyPlans DEF Rid
<1>4. Begin("tool_create", "mcp", D, Save(rid, item) \o Bump(rid[1]))
  BY <1>1 DEF CreatePlan
<1> QED BY <1>1, <1>2, <1>3, <1>4, KeptBeginStore

LEMMA KeptToolUpdate == Types /\ Kept /\ OneWriter /\ ToolUpdateField => Kept'
<1> SUFFICES ASSUME Types, Kept, OneWriter, ToolUpdateField PROVE Kept'
  OBVIOUS
<1> DEFINE D == EnsureDocuments("mcp")
<1>1. PICK cond \in BOOLEAN, rid \in Rid, item \in Item :
        /\ rid \in DOMAIN items /\ items[rid].uid = item.uid
        /\ Begin("tool_update", "mcp", D, Save(rid, item) \o BumpIf(cond, rid[1]))
  BY ToolUpdateFieldIs
<1> HIDE DEF D
<1>2. "mcp" \in Services /\ "mcp" = Writer
  BY <1>1, WhoWrites DEF Begin, Services, Creating
<1>3. BumpIf(cond, rid[1]) \in Seq(Effects) /\ ReadOnly(BumpIf(cond, rid[1]))
  BY PlanTypes, ReadOnlyPlans DEF Rid
<1> QED BY <1>1, <1>2, <1>3, KeptBeginStore

LEMMA KeptToolSave ==
    Types /\ Kept /\ OneWriter /\ (ToolSetLinks \/ ToolLink) => Kept'
<1> SUFFICES ASSUME Types, Kept, OneWriter, ToolSetLinks \/ ToolLink PROVE Kept'
  OBVIOUS
<1> DEFINE D == EnsureDocuments("mcp")
<1>1. PICK op \in Creating : \E rid \in Rid, item \in Item :
        /\ rid \in DOMAIN items /\ items[rid].uid = item.uid
        /\ Begin(op, "mcp", D, Save(rid, item))
  BY ToolSetLinksIs, ToolLinkIs DEF Creating
<1> HIDE DEF D
<1>2. PICK rid \in Rid, item \in Item :
        /\ rid \in DOMAIN items /\ items[rid].uid = item.uid
        /\ Begin(op, "mcp", D, Save(rid, item))
  BY <1>1
<1>3. "mcp" \in Services /\ "mcp" = Writer
  BY <1>2, WhoWrites DEF Begin, Services
<1>4. Safe(Save(rid, item), items, alive)
  BY <1>2, SafeSave
<1> QED BY <1>2, <1>3, <1>4, KeptBegin

LEMMA KeptDeleteRequirement ==
    \A op, s : s \in Services /\ Types /\ Kept /\ DeleteRequirement(op, s) => Kept'
<1> SUFFICES ASSUME NEW op, NEW s \in Services, Types, Kept, DeleteRequirement(op, s)
             PROVE  Kept'
  OBVIOUS
<1> DEFINE D == EnsureDocuments(s)
<1>1. PICK rid \in DOMAIN items : Begin(op, s, D, DeletePlan(rid))
  BY DEF DeleteRequirement
<1> HIDE DEF D
<1>2. rid \in Rid /\ rid[1] \in Prefix
  BY DEF Types, FilesOK, Rid
<1>3. /\ DeleteItem(rid, TRUE) \in Seq(Effects) /\ ReadOnly(DeleteItem(rid, TRUE))
      /\ Bump(rid[1]) \in Seq(Effects) /\ ReadOnly(Bump(rid[1]))
  BY <1>2, PlanTypes, ReadOnlyPlans
<1>4. ReadOnly(DeletePlan(rid))
  BY <1>3, ReadOnlyJoined DEF DeletePlan
<1> QED BY <1>1, <1>4, KeptBeginReading

LEMMA KeptUnchanged ==
    ASSUME Kept, UNCHANGED <<items, call, alive>>
    PROVE  Kept'
BY DEF Kept, AllKept, Safe, OwnPlaces, CopyFirst, ReadOnly

LEMMA KeptClone == Types /\ Kept /\ OneWriter /\ CloneRequirement => Kept'
<1> SUFFICES ASSUME Types, Kept, OneWriter, CloneRequirement PROVE Kept'
  OBVIOUS
<1> DEFINE D == EnsureDocuments("gui")
<1>1. PICK rid \in Rid, item \in Item :
        rid \notin DOMAIN items /\ Begin("clone", "gui", D, CreatePlan(rid, item))
  BY CloneRequirementIs
<1> HIDE DEF D
<1>2. "gui" \in Services /\ "gui" = Writer
  BY <1>1, WhoWrites DEF Begin, Services, Copying
<1>3. Bump(rid[1]) \in Seq(Effects) /\ ReadOnly(Bump(rid[1]))
  BY PlanTypes, ReadOnlyPlans DEF Rid
<1>4. Begin("clone", "gui", D, Save(rid, item) \o Bump(rid[1]))
  BY <1>1 DEF CreatePlan
<1> QED BY <1>1, <1>2, <1>3, <1>4, KeptBeginStore

LEMMA KeptCopy == Types /\ Kept /\ OneWriter /\ CopyRequirement => Kept'
<1> SUFFICES ASSUME Types, Kept, OneWriter, CopyRequirement PROVE Kept'
  OBVIOUS
<1> DEFINE D == EnsureDocuments("gui")
<1>1. PICK rid \in Rid, item \in Item :
        /\ rid \notin DOMAIN items
        /\ Begin("copy", "gui", D, CreatePlan(rid, item) \o Refresh)
  BY CopyRequirementIs
<1> HIDE DEF D
<1>2. "gui" \in Services /\ "gui" = Writer
  BY <1>1, WhoWrites DEF Begin, Services, Copying
<1>3. /\ Bump(rid[1]) \in Seq(Effects) /\ ReadOnly(Bump(rid[1]))
      /\ Refresh \in Seq(Effects) /\ ReadOnly(Refresh)
  BY PlanTypes, ReadOnlyPlans DEF Rid
<1>4. Safe(CreatePlan(rid, item), items, alive)
  BY <1>1, <1>3, SafeCreate DEF CreatePlan
<1>5. CreatePlan(rid, item) \in Seq(Effects)
  BY <1>3, SaveIs, Joined DEF CreatePlan
<1> DEFINE plan == CreatePlan(rid, item) \o Refresh
<1>6. Safe(plan, items, alive) /\ Begin("copy", "gui", D, plan)
  BY <1>1, <1>3, <1>4, <1>5, ReadOnlyAfter, SafeBegins
<1> HIDE DEF plan
<1> QED BY <1>2, <1>6, KeptBegin

\* A move saves the new file and its referrers before it removes the old file.
LEMMA MoveCopies ==
    ASSUME NEW rid \in DOMAIN items, NEW new \in Rid, new \notin DOMAIN items,
           NEW item \in Item, items[rid].uid = item.uid, NEW q, Redirects(q, rid, new)
    PROVE  /\ Save(new, item) \o q \in Seq(Effects)
           /\ Copies(Save(new, item) \o q, rid, items[rid].uid, items)
<1> DEFINE a == Save(new, item)
           c == a \o q
           n == Len(a)
<1>1. /\ a \in Seq(Effects) /\ DOMAIN a = {1} /\ a[1].op = "save" /\ a[1].rid = new
      /\ a[1].item = item /\ q \in Seq(Effects) /\ Len(a) = 1
  BY SaveIs DEF Redirects
<1> HIDE DEF a
<1>2. /\ c \in Seq(Effects)
      /\ \A i \in DOMAIN c :
            \/ i \in DOMAIN a /\ c[i] = a[i]
            \/ i \notin DOMAIN a /\ i - n \in DOMAIN q /\ c[i] = q[i - n]
  <2>1. a \in Seq(Effects) /\ q \in Seq(Effects)
    BY <1>1
  <2> QED BY <2>1, Joined
<1>3. 1 \in DOMAIN c /\ c[1] = a[1]
  BY <1>1, Leads
<1> HIDE DEF c, n
<1>4. ASSUME NEW i \in DOMAIN c
      PROVE  \/ c[i].op = "save" /\ c[i].rid = new /\ c[i].item = item
             \/ /\ c[i].op = "save" /\ c[i].rid # rid /\ c[i].rid # new
                /\ c[i].rid \in DOMAIN items /\ items[c[i].rid].uid = c[i].item.uid
  BY <1>1, <1>2 DEF Redirects
<1>5. \A i \in DOMAIN c : c[i].op # "unlink" /\ (c[i].op = "save" => c[i].rid # rid)
  BY <1>4
<1>6. OwnPlaces(c, items)
  BY <1>4 DEF OwnPlaces
<1>7. \E i \in DOMAIN c : c[i].op = "save" /\ c[i].item.uid = items[rid].uid
  BY <1>1, <1>3
<1>8. Copies(c, rid, items[rid].uid, items)
  BY <1>5, <1>6, <1>7 DEF Copies
<1> QED BY <1>2, <1>8 DEF c, a

LEMMA CopiesThenReads ==
    ASSUME NEW a \in Seq(Effects), NEW b \in Seq(Effects), ReadOnly(b), NEW rid, NEW u, NEW f,
           Copies(a, rid, u, f)
    PROVE  a \o b \in Seq(Effects) /\ Copies(a \o b, rid, u, f)
<1>1. Begins(a, a \o b) /\ a \o b \in Seq(Effects)
  BY ReadOnlyAfter
<1> QED BY <1>1, CopiesBegins

LEMMA KeptMove == Types /\ Kept /\ OneWriter /\ MoveRequirement => Kept'
<1> SUFFICES ASSUME Types, Kept, OneWriter, MoveRequirement PROVE Kept'
  OBVIOUS
<1> DEFINE D == EnsureDocuments("gui")
<1>1. PICK redirect \in Seq(Effects), rid \in Rid, new \in Rid, item \in Item :
         /\ rid \in DOMAIN items /\ items[rid].uid = item.uid
         /\ new \notin DOMAIN items
         /\ Redirects(redirect, rid, new)
         /\ Begin("move", "gui", D, MovePlan(rid, new, item, redirect) \o Refresh)
  BY MoveRequirementIs
<1> HIDE DEF D
<1>2. "gui" \in Services /\ "gui" = Writer
  BY <1>1, WhoWrites DEF Begin, Services, Copying
<1> DEFINE u == items[rid].uid
           a == Save(new, item) \o redirect
           b1 == Bump(rid[1])
           b2 == Bump(new[1])
<1>3. a \in Seq(Effects) /\ Copies(a, rid, u, items)
  BY <1>1, MoveCopies
<1>4. b1 \in Seq(Effects) /\ ReadOnly(b1) /\ b2 \in Seq(Effects) /\ ReadOnly(b2)
  BY PlanTypes, ReadOnlyPlans DEF Rid
<1>5. MovePlan(rid, new, item, redirect) = ((a \o b1) \o b2) \o Unlink(rid)
  BY DEF MovePlan
<1> HIDE DEF a, b1, b2, u
<1>6. a \o b1 \in Seq(Effects) /\ Copies(a \o b1, rid, u, items)
  BY <1>3, <1>4, CopiesThenReads
<1> DEFINE c == a \o b1
<1>7. c \in Seq(Effects) /\ Copies(c, rid, u, items)
  BY <1>6
<1> HIDE DEF c
<1>8. c \o b2 \in Seq(Effects) /\ Copies(c \o b2, rid, u, items)
  BY <1>4, <1>7, CopiesThenReads
<1> DEFINE d == c \o b2
<1>9. d \in Seq(Effects) /\ Copies(d, rid, u, items)
  BY <1>8
<1> HIDE DEF d
<1>10. Safe(d \o Unlink(rid), items, alive)
  BY <1>1, <1>9, CopiesThenUnlink DEF u
<1>11. Unlink(rid) \in Seq(Effects)
  BY SteadyUnlink DEF SteadyPlan
<1>12. d \o Unlink(rid) \in Seq(Effects)
  BY <1>9, <1>11
<1> DEFINE e == d \o Unlink(rid)
           plan == e \o Refresh
<1>13. e \in Seq(Effects) /\ Safe(e, items, alive)
  BY <1>10, <1>12
<1>14. Begin("move", "gui", D, plan)
  BY <1>1, <1>5 DEF d, c
<1> HIDE DEF e
<1>15. Safe(plan, items, alive)
  BY <1>13, PlanTypes, ReadOnlyPlans, ReadOnlyAfter, SafeBegins
<1> HIDE DEF plan
<1> QED BY <1>2, <1>14, <1>15, KeptBegin

LEMMA KeptDocuments ==
    Types /\ Kept /\ (CreateDocument \/ ReparentDocument \/ DeleteDocument) => Kept'
<1> SUFFICES ASSUME Types, Kept PROVE CreateDocument \/ ReparentDocument \/ DeleteDocument => Kept'
  OBVIOUS
<1> DEFINE D == EnsureDocuments("gui")
<1>1. IsDocuments(D) /\ "gui" \in Services
  BY Documents DEF Types, Services
<1>2. Refresh \in Seq(Effects) /\ ReadOnly(Refresh)
  BY PlanTypes, ReadOnlyPlans
<1>3. ASSUME NEW E, NEW op, NEW p \in Prefix, NEW d \in Document,
             Begin(op, "gui", E, WriteDocument(p, d) \o Refresh)
      PROVE  Kept'
  <2>1. ReadOnly(WriteDocument(p, d) \o Refresh)
    BY <1>2, PlanTypes, ReadOnlyPlans, ReadOnlyJoined
  <2> QED BY <1>1, <1>3, <2>1, KeptBeginReading
<1>4. ASSUME CreateDocument PROVE Kept'
  <2>1. PICK p \in Prefix \ DOMAIN D, parent \in DOMAIN D \cup {NoDoc} :
          Begin("create_document", "gui", D,
                WriteDocument(p, [parent |-> parent, rev |-> 1]) \o Refresh)
    BY <1>4 DEF CreateDocument
  <2> HIDE DEF D
  <2>2. [parent |-> parent, rev |-> 1] \in Document
    BY <1>1 DEF Document, IsDocuments
  <2> QED BY <1>3, <2>1, <2>2
<1>5. ASSUME ReparentDocument PROVE Kept'
  <2>1. PICK p \in DOMAIN D, parent \in DOMAIN D \cup {NoDoc} :
          LET moved == [D[p] EXCEPT !.parent = parent] IN
          Begin("reparent", "gui", [D EXCEPT ![p] = moved], WriteDocument(p, moved) \o Refresh)
    BY <1>5 DEF ReparentDocument
  <2> DEFINE moved == [D[p] EXCEPT !.parent = parent]
             E == [D EXCEPT ![p] = moved]
  <2>2. Begin("reparent", "gui", E, WriteDocument(p, moved) \o Refresh)
    BY <2>1
  <2> HIDE DEF D, E
  <2>3. p \in Prefix /\ moved \in Document
    BY <1>1 DEF Document, IsDocuments
  <2> QED BY <1>3, <2>2, <2>3
<1>6. ASSUME DeleteDocument PROVE Kept'
  <2>1. PICK p \in DOMAIN D :
          Begin("delete_document", "gui", D, DropDocument(p) \o Refresh)
    BY <1>6 DEF DeleteDocument
  <2> HIDE DEF D
  <2>2. p \in Prefix
    BY <1>1 DEF IsDocuments
  <2>3. DropDocument(p) \in Seq(Effects)
    BY <2>2, DropIs
  <2>4. ReadOnly(DropDocument(p) \o Refresh)
    BY <1>2, <2>3, ReadOnlyPlans, ReadOnlyJoined
  <2> QED BY <1>1, <2>1, <2>4, KeptBeginReading
<1> QED BY <1>4, <1>5, <1>6

\* What other effects leave of the plans, the files and the requirements.
LEMMA KeptFrom ==
    ASSUME Types, Kept, NEW s \in Services, NEW c, call' = [call EXCEPT ![s] = c],
           AllKept(items', alive'),
           s = Writer => Safe(c, items', alive'), s # Writer => ReadOnly(c),
           s # Writer => Shrinks(items, alive, items', alive')
    PROVE  Kept'
<1>1. call'[s] = c /\ \A z \in Services : z # s => call'[z] = call[z]
  BY DEF Types, ServicesOK
<1>2. Writer \in Services
  BY DEF Writer, Services
<1>3. Safe(call'[Writer], items', alive')
  <2>1. CASE s = Writer
    BY <1>1, <2>1
  <2>2. CASE s # Writer
    BY <1>1, <1>2, <2>2, SafeShrinks DEF Kept
  <2> QED BY <2>1, <2>2
<1>4. \A z \in Services : z # Writer => ReadOnly(call'[z])
  BY <1>1 DEF Kept
<1> QED BY <1>3, <1>4 DEF Kept, AllKept, Safe, OwnPlaces, CopyFirst, ReadOnly

LEMMA KeptOn ==
    ASSUME Types, Kept, NEW s \in Services, call[s] # <<>>,
           call[s][1].op \notin {"save", "unlink"},
           NEW more \in Seq(Effects), ReadOnly(more), Continue(s, more),
           Shrinks(items, alive, items', alive')
    PROVE  Kept'
<1> DEFINE q == call[s]
           c == more \o Tail(q)
<1>1. q \in Seq(Effects) /\ q # <<>>
  BY HeadTypes
<1>2. call' = [call EXCEPT ![s] = c]
  BY DEF Continue
<1>3. q[1].op \notin {"save", "unlink"}
  OBVIOUS
<1>4. (s = Writer => Safe(q, items, alive)) /\ (s # Writer => ReadOnly(q))
  BY DEF Kept
<1> HIDE DEF q, c
<1>5. Remains(q, c, Len(more))
  BY <1>1, RestStores DEF c
<1>6. s = Writer => Safe(c, items', alive')
  BY <1>3, <1>4, <1>5, SafeRest, SafeShrinks
<1>7. s # Writer => ReadOnly(c)
  BY <1>4, <1>5 DEF Remains, ReadOnly
<1>8. AllKept(items', alive')
  BY KeptShrinks DEF Kept
<1> QED BY <1>2, <1>6, <1>7, <1>8, KeptFrom

LEMMA KeptRaise ==
    ASSUME Types, Kept, NEW s \in Services, Raise(s), Shrinks(items, alive, items', alive')
    PROVE  Kept'
<1>1. call' = [call EXCEPT ![s] = <<>>]
  BY DEF Raise
<1>2. AllKept(items', alive')
  BY KeptShrinks DEF Kept
<1> QED BY <1>1, <1>2, NothingSafe, KeptFrom

LEMMA ShrinksSame ==
    ASSUME UNCHANGED <<items, alive>>
    PROVE  Shrinks(items, alive, items', alive')
BY DEF Shrinks

\* Storing an item touches its place only.
Replaces(g, f, rid, item) ==
    /\ DOMAIN g = DOMAIN f \cup {rid}
    /\ g[rid].uid = item.uid
    /\ \A r \in DOMAIN f : r # rid => g[r] = f[r]

LEMMA StoredThere ==
    ASSUME NEW D, NEW rid, NEW item \in Item
    PROVE  Replaces(Stored(D, rid, item), items, rid, item)
<1> DEFINE new == [item EXCEPT !.links = PrepareLinks(D, item.links)]
<1>1. Stored(D, rid, item) = [r \in DOMAIN items \cup {rid} |-> IF r = rid THEN new ELSE items[r]]
  BY DEF Stored
<1>2. new.uid = item.uid
  BY DEF Item
<1> HIDE DEF new
<1> QED BY <1>1, <1>2 DEF Replaces

LEMMA KeptSaveItem == \A s \in Services : Types /\ Kept /\ SaveItem(s) => Kept'
<1> SUFFICES ASSUME NEW s \in Services, Types, Kept, SaveItem(s) PROVE Kept'
  OBVIOUS
<1> DEFINE rid == Current(s).rid
           item == Current(s).item
           q == call[s]
           c == <<>> \o Tail(q)
<1>1. /\ q \in Seq(Effects) /\ q # <<>> /\ q[1] = Current(s) /\ q[1].op = "save"
      /\ q[1].rid = rid /\ q[1].item = item
  BY HeadTypes DEF SaveItem, Doing
<1>2. rid \in Rid /\ item \in Item
  BY <1>1, HeadTypes, EffectIs
<1>3. CASE Raise(s) /\ UNCHANGED <<items, alive, changed>>
  BY <1>3, KeptRaise, ShrinksSame
<1>4. CASE /\ items' = Stored(cache[s], rid, item) /\ alive' = alive \cup {item.uid}
           /\ Continue(s, <<>>)
  <2>1. /\ DOMAIN items' = DOMAIN items \cup {rid} /\ items'[rid].uid = item.uid
        /\ \A r \in DOMAIN items : r # rid => items'[r] = items[r]
    <3> DEFINE g == Stored(cache[s], rid, item)
    <3>1. g = Stored(cache[s], rid, item) /\ items' = g
      BY <1>4
    <3> HIDE DEF g, rid, item
    <3>2. Replaces(Stored(cache[s], rid, item), items, rid, item)
      BY <1>2, StoredThere
    <3> QED BY <3>1, <3>2 DEF Replaces
  <2>2. s = Writer
    <3>1. 1 \in DOMAIN q /\ q[1].op = "save"
      BY <1>1, LeftOver
    <3> QED BY <3>1 DEF Kept, ReadOnly
  <2>3. call' = [call EXCEPT ![s] = c]
    BY <1>4 DEF Continue
  <2>4. Safe(q, items, alive) /\ AllKept(items, alive)
    BY <2>2 DEF Kept
  <2>5. <<>> \in Seq(Effects) /\ Len(<<>>) = 0
    OBVIOUS
  <2> HIDE DEF q, rid, item, c
  <2>6. Remains(q, c, 0)
    BY <1>1, <2>5, RestStores, NothingSafe DEF c
  <2>7. /\ DOMAIN items' = DOMAIN items \cup {q[1].rid} /\ items'[q[1].rid].uid = q[1].item.uid
        /\ \A r \in DOMAIN items : r # q[1].rid => items'[r].uid = items[r].uid
        /\ alive' = alive \cup {q[1].item.uid}
    BY <1>1, <1>4, <2>1
  <2>8. Safe(c, items', alive')
    BY <1>1, <2>4, <2>6, <2>7, SafeSaved
  <2>9. AllKept(items', alive')
    BY <1>1, <2>4, <2>6, <2>7, SafeSaved
  <2> QED BY <2>2, <2>3, <2>8, <2>9, KeptFrom
<1> QED BY <1>3, <1>4 DEF SaveItem, StoreItem

LEMMA KeptUnlinkFile == \A s \in Services : Types /\ Kept /\ UnlinkFile(s) => Kept'
<1> SUFFICES ASSUME NEW s \in Services, Types, Kept, UnlinkFile(s) PROVE Kept'
  OBVIOUS
<1> DEFINE rid == Current(s).rid
           q == call[s]
           c == <<>> \o Tail(q)
<1>1. /\ q \in Seq(Effects) /\ q # <<>> /\ q[1] = Current(s) /\ q[1].op = "unlink"
      /\ q[1].rid = rid
  BY HeadTypes DEF UnlinkFile, Doing
<1>2. items' = Without(items, rid) /\ alive' = alive /\ call' = [call EXCEPT ![s] = c]
  BY DEF UnlinkFile, Continue
<1>3. s = Writer
  <2>1. 1 \in DOMAIN q /\ q[1].op = "unlink"
    BY <1>1, LeftOver
  <2> QED BY <2>1 DEF Kept, ReadOnly
<1>4. Safe(q, items, alive) /\ AllKept(items, alive)
  BY <1>3 DEF Kept
<1> HIDE DEF q, rid, c
<1>5. DOMAIN items' = DOMAIN items \ {q[1].rid} /\ \A r \in DOMAIN items' : items'[r] = items[r]
  BY <1>1, <1>2, RestrictIs DEF Without
<1>6. <<>> \in Seq(Effects) /\ Len(<<>>) = 0
  OBVIOUS
<1>7. Remains(q, c, 0)
  BY <1>1, <1>6, RestStores, NothingSafe DEF c
<1>8. Safe(c, items', alive) /\ AllKept(items', alive)
  BY <1>1, <1>4, <1>5, <1>7, SafeUnlinked
<1> QED BY <1>2, <1>3, <1>8, KeptFrom

LEMMA KeptDeleteFile == \A s \in Services : Types /\ Kept /\ DeleteFile(s) => Kept'
<1> SUFFICES ASSUME NEW s \in Services, Types, Kept, DeleteFile(s) PROVE Kept'
  OBVIOUS
<1> DEFINE rid == Current(s).rid
           more == Sweep(rid, DocumentsToSweep(cache[s], rid), {})
<1>1. /\ call[s] # <<>> /\ Current(s).op = "deleteItem"
      /\ call[s][1].op \notin {"save", "unlink"}
  BY HeadTypes DEF DeleteFile, Doing
<1>2. rid \in Rid /\ IsDocuments(cache[s])
  BY <1>1, HeadTypes, EffectIs
<1>3. CASE /\ items' = Without(items, rid) /\ rid \in DOMAIN items
           /\ alive' = alive \ {items[rid].uid} /\ Continue(s, more)
  <2>1. DOMAIN items' = DOMAIN items \ {rid} /\ \A r \in DOMAIN items' : items'[r] = items[r]
    BY <1>3, RestrictIs DEF Without
  <2>2. Shrinks(items, alive, items', alive')
    BY <1>3, <2>1 DEF Shrinks
  <2>3. DocumentsToSweep(cache[s], rid) \in SUBSET Prefix /\ {} \in SUBSET Rid
    BY <1>2 DEF DocumentsToSweep, IsDocuments
  <2>4. more \in Seq(Effects) /\ ReadOnly(more)
    BY <1>2, <2>3, SweepIs, ReadOnlyPlans
  <2>5. Continue(s, more)
    BY <1>3
  <2> HIDE DEF more
  <2> QED BY <1>1, <2>2, <2>4, <2>5, KeptOn
<1>4. CASE /\ IF Current(s).must THEN Raise(s) ELSE Continue(s, <<>>)
           /\ UNCHANGED <<items, alive, changed>>
  <2>1. Shrinks(items, alive, items', alive')
    BY <1>4, ShrinksSame
  <2>2. <<>> \in Seq(Effects) /\ ReadOnly(<<>>)
    BY NothingSafe
  <2> QED BY <1>1, <1>4, <2>1, <2>2, KeptOn, KeptRaise
<1> QED BY <1>3, <1>4 DEF DeleteFile

LEMMA KeptSweepDocument == \A s \in Services : Types /\ Kept /\ SweepDocument(s) => Kept'
<1> SUFFICES ASSUME NEW s \in Services, Types, Kept, SweepDocument(s) PROVE Kept'
  OBVIOUS
<1>1. call[s] # <<>> /\ Current(s).op = "sweep" /\ call[s][1].op \notin {"save", "unlink"}
  BY HeadTypes DEF SweepDocument, Doing
<1>2. Current(s).rid \in Rid /\ Current(s).todo \subseteq Prefix
  BY <1>1, HeadTypes, EffectIs
<1>3. Shrinks(items, alive, items', alive')
  BY ShrinksSame DEF SweepDocument
<1>4. ASSUME NEW p \in Current(s).todo,
             Continue(s, Sweep(Current(s).rid, Current(s).todo \ {p}, RidsOf(p)))
      PROVE  Kept'
  <2>1. RidsOf(p) \in SUBSET Rid /\ Current(s).todo \ {p} \in SUBSET Prefix
    BY <1>2 DEF RidsOf, Types, FilesOK
  <2> DEFINE more == Sweep(Current(s).rid, Current(s).todo \ {p}, RidsOf(p))
  <2>2. more \in Seq(Effects) /\ ReadOnly(more)
    BY <1>2, <2>1, SweepIs, ReadOnlyPlans
  <2>3. Continue(s, more)
    BY <1>4
  <2> HIDE DEF more
  <2> QED BY <1>1, <1>3, <2>2, <2>3, KeptOn
<1>5. CASE Continue(s, <<>>)
  <2>1. <<>> \in Seq(Effects) /\ ReadOnly(<<>>)
    BY NothingSafe
  <2> QED BY <1>1, <1>3, <1>5, <2>1, KeptOn
<1> QED BY <1>4, <1>5 DEF SweepDocument

LEMMA KeptSweepItem == \A s \in Services : Types /\ Kept /\ SweepItem(s) => Kept'
<1> SUFFICES ASSUME NEW s \in Services, Types, Kept, SweepItem(s) PROVE Kept'
  OBVIOUS
<1> DEFINE target == Current(s).rid
           next(r) == Sweep(target, Current(s).todo, Current(s).ids \ {r})
<1>1. call[s] # <<>> /\ Current(s).op = "sweep" /\ call[s][1].op \notin {"save", "unlink"}
  BY HeadTypes DEF SweepItem, Doing
<1>2. target \in Rid /\ Current(s).todo \in SUBSET Prefix /\ Current(s).ids \in SUBSET Rid
  BY <1>1, HeadTypes, EffectIs
<1>3. UNCHANGED <<items, alive>> /\ Shrinks(items, alive, items', alive')
  BY ShrinksSame DEF SweepItem
<1>4. PICK r \in Current(s).ids : Continue(s, next(r)) \/ Raise(s) \/ UNCHANGED call
  BY DEF SweepItem
<1>5. Current(s).ids \ {r} \in SUBSET Rid
  BY <1>2
<1>6. next(r) \in Seq(Effects) /\ ReadOnly(next(r))
  BY <1>2, <1>5, SweepIs, ReadOnlyPlans
<1> HIDE DEF next
<1>7. CASE UNCHANGED call
  BY <1>3, <1>7, KeptUnchanged
<1> QED BY <1>1, <1>3, <1>4, <1>6, <1>7, KeptOn, KeptRaise

LEMMA KeptSweepSave ==
    \A s \in Services : Types /\ SweptOK /\ Intact /\ Kept /\ SweepSave(s) => Kept'
<1> SUFFICES ASSUME NEW s \in Services, Types, SweptOK, Intact, Kept, SweepSave(s) PROVE Kept'
  OBVIOUS
<1> DEFINE r == swept[s][1].rid
           item == swept[s][1].item
           next == Sweep(Current(s).rid, Current(s).todo, Current(s).ids \ {r})
<1>1. call[s] # <<>> /\ Current(s).op = "sweep" /\ call[s][1].op \notin {"save", "unlink"}
  BY HeadTypes DEF SweepSave, Doing
<1>2. /\ Current(s).rid \in Rid /\ Current(s).todo \in SUBSET Prefix
      /\ Current(s).ids \ {r} \in SUBSET Rid
  BY <1>1, HeadTypes, EffectIs
<1>3. next \in Seq(Effects) /\ ReadOnly(next)
  BY <1>2, SweepIs, ReadOnlyPlans
<1>4. \/ /\ items' = Stored(cache[s], r, item) /\ alive' = alive /\ Continue(s, next)
      \/ Raise(s) /\ UNCHANGED <<items, alive>>
  BY DEF SweepSave, StoreItem
<1>5. item \in Item /\ r \in DOMAIN items /\ items[r].uid = item.uid
  BY SweptItem DEF SweepSave, Intact
<1> HIDE DEF next, item, r
<1>6. CASE Raise(s) /\ UNCHANGED <<items, alive>>
  BY <1>6, KeptRaise, ShrinksSame
<1>7. ASSUME items' = Stored(cache[s], r, item), alive' = alive, Continue(s, next) PROVE Kept'
  <2>1. Replaces(Stored(cache[s], r, item), items, r, item)
    BY <1>5, StoredThere
  <2>2. Shrinks(items, alive, items', alive')
    BY <1>5, <1>7, <2>1 DEF Shrinks, Replaces
  <2> QED BY <1>1, <1>3, <1>7, <2>2, KeptOn
<1> QED BY <1>4, <1>6, <1>7

\* What the service that sweeps does, and what the one that removes nothing does,
\* leaves the item that was read in its place.
LEMMA IntactStep == Types /\ SweptOK /\ Duties /\ OneRemover /\ Intact /\ Kept /\ [Next]_vars => Intact'
<1> SUFFICES ASSUME Types, SweptOK, Duties, OneRemover, Intact, Kept, [Next]_vars,
                    NEW s \in Services, swept'[s] # <<>>
             PROVE  /\ swept'[s][1].rid \in DOMAIN items'
                    /\ items'[swept'[s][1].rid].uid = swept'[s][1].item.uid
  BY DEF Intact
<1>1. CASE SweepItem(s) /\ swept[s] = <<>>
  <2>1. swept' # swept
    BY <1>1
  <2> QED BY <1>1, <2>1, SweptReads
<1>2. ASSUME swept[s] # <<>>, swept'[s] = swept[s], NEW z \in Services, z # s, Effect(z)
      PROVE  /\ swept'[s][1].rid \in DOMAIN items'
             /\ items'[swept'[s][1].rid].uid = swept'[s][1].item.uid
  <2>1. Uses \cap Removes(z) = {}
    BY <1>2, SweeperRemoves DEF OneRemover, Services
  <2>2. swept[s][1].rid \in DOMAIN items /\ items[swept[s][1].rid].uid = swept[s][1].item.uid
    BY <1>2 DEF Intact
  <2>3. CASE UNCHANGED items
    BY <1>2, <2>2, <2>3
  <2>4. ASSUME SaveItem(z), items' # items
        PROVE  \A r \in DOMAIN items : r \in DOMAIN items' /\ items'[r].uid = items[r].uid
    <3> DEFINE rid == Current(z).rid
               item == Current(z).item
    <3>1. /\ call[z] # <<>> /\ Current(z).op = "save" /\ Current(z) = call[z][1]
          /\ items' = Stored(cache[z], rid, item) /\ 1 \in DOMAIN call[z]
      BY <2>4, HeadTypes, LeftOver DEF SaveItem, StoreItem, Doing
    <3>2. item \in Item
      BY <3>1, HeadTypes, EffectIs
    <3>3. z = Writer
      BY <3>1 DEF Kept, ReadOnly
    <3>4. rid \in DOMAIN items => items[rid].uid = item.uid
      BY <3>1, <3>3 DEF Kept, Safe, OwnPlaces
    <3> HIDE DEF rid, item
    <3>5. Replaces(Stored(cache[z], rid, item), items, rid, item)
      BY <3>2, StoredThere
    <3> QED BY <3>1, <3>4, <3>5 DEF Replaces
  <2> QED BY <1>2, <2>1, <2>2, <2>3, <2>4, CalmEffect
<1> QED BY <1>1, <1>2, SweptChanges DEF Intact

LEMMA KeptRemoveDirectory == \A s \in Services : Types /\ Kept /\ RemoveDirectory(s) => Kept'
<1> SUFFICES ASSUME NEW s \in Services, Types, Kept, RemoveDirectory(s) PROVE Kept'
  OBVIOUS
<1> DEFINE p == Current(s).prefix
<1>1. /\ call[s] # <<>> /\ call[s][1].op \notin {"save", "unlink"}
      /\ alive' = alive \ {items[r].uid : r \in RidsOf(p)}
      /\ items' = Restrict(items, DOMAIN items \ RidsOf(p))
      /\ Continue(s, <<>>)
  BY HeadTypes DEF RemoveDirectory, Doing
<1>2. /\ DOMAIN items' = DOMAIN items \ RidsOf(p)
      /\ \A r \in DOMAIN items' : items'[r] = items[r]
  BY <1>1, RestrictIs
<1> HIDE DEF p
<1>3. Shrinks(items, alive, items', alive')
  BY <1>1, <1>2 DEF Shrinks
<1>4. <<>> \in Seq(Effects) /\ ReadOnly(<<>>)
  BY NothingSafe
<1> QED BY <1>1, <1>3, <1>4, KeptOn

\* The other effects change documents, caches and windows only.
LEMMA KeptOther ==
    \A s \in Services :
        /\ Types /\ Kept
        /\ \/ BumpDocument(s) \/ SaveDocument(s) \/ DropContents(s)
           \/ RefreshDocuments(s) \/ EditorSaved(s)
        => Kept'
<1> SUFFICES ASSUME NEW s \in Services, Types, Kept,
                    \/ BumpDocument(s) \/ SaveDocument(s) \/ DropContents(s)
                    \/ RefreshDocuments(s) \/ EditorSaved(s)
             PROVE  Kept'
  OBVIOUS
<1>1. /\ call[s] # <<>> /\ call[s][1].op \notin {"save", "unlink"}
      /\ UNCHANGED <<items, alive>>
  BY HeadTypes DEF BumpDocument, SaveDocument, DropContents, RefreshDocuments, EditorSaved, Doing
<1>2. Shrinks(items, alive, items', alive')
  BY <1>1, ShrinksSame
<1>3. CASE DropContents(s)
  <2>1. PICK more \in Seq(Effects) :
           /\ Continue(s, more)
           /\ \A i \in DOMAIN more : more[i].op \notin {"bump", "save", "unlink"}
    BY <1>3, DropContentsIs
  <2>2. ReadOnly(more)
    BY <2>1 DEF ReadOnly
  <2> QED BY <1>1, <1>2, <2>1, <2>2, KeptOn
<1>4. CASE Continue(s, <<>>)
  <2>1. <<>> \in Seq(Effects) /\ ReadOnly(<<>>)
    BY NothingSafe
  <2> QED BY <1>1, <1>2, <1>4, <2>1, KeptOn
<1> QED BY <1>3, <1>4 DEF BumpDocument, SaveDocument, RefreshDocuments, EditorSaved

LEMMA KeptInit == Init => Kept
<1> SUFFICES ASSUME Init PROVE Kept
  OBVIOUS
<1>1. AllKept(items, alive)
  BY DEF Init, AllKept
<1>2. \A s \in Services : call[s] = <<>>
  BY DEF Init
<1>3. Writer \in Services
  BY DEF Writer, Services
<1> QED BY <1>1, <1>2, <1>3, NothingSafe DEF Kept

LEMMA KeptStep == Types /\ SweptOK /\ Intact /\ Kept /\ OneWriter /\ [Next]_vars => Kept'
<1> SUFFICES ASSUME Types, SweptOK, Intact, Kept, OneWriter, [Next]_vars PROVE Kept'
  OBVIOUS
<1>1. CASE Tool
  <2>1. CASE ToolListDocument
    BY <2>1, KeptUnchanged DEF ToolListDocument
  <2> QED BY <1>1, <2>1, KeptToolCreate, KeptToolUpdate, KeptToolSave, KeptDeleteRequirement
          DEF Tool, Services
<1>2. CASE User
  <2>1. ASSUME NEW e \in Editors, OpenEditor(e) \/ NewRequirement(e) \/ SaveEditor(e)
        PROVE  FALSE
    BY <2>1 DEF OpenEditor, NewRequirement, SaveEditor, Begin, OneWriter
  <2> QED BY <1>2, <2>1, KeptClone, KeptCopy, KeptMove, KeptDeleteRequirement, KeptDocuments
          DEF User, Services
<1>3. ASSUME NEW s \in Services, Effect(s) PROVE Kept'
  BY <1>3, KeptSaveItem, KeptUnlinkFile, KeptDeleteFile, KeptSweepDocument, KeptSweepItem,
     KeptSweepSave, KeptRemoveDirectory, KeptOther DEF Effect
<1>4. CASE UNCHANGED vars
  BY <1>4, KeptUnchanged DEF vars
<1> QED BY <1>1, <1>2, <1>3, <1>4 DEF Next

\* A requirement that was saved and not deleted has its file in every state, in the
\* middle of a move, of a document's deletion and of a sweep too, when one of the two
\* services stores and one of them deletes, the same or the other one, and no editor
\* window is open; both may change documents.
THEOREM NothingIsOverwritten ==
    ASSUME OneWriter, OneRemover
    PROVE  Spec => []RequirementKept
<1>1. Init => Kept /\ Intact
  BY KeptInit DEF Init, Intact
<1>2. Types /\ SweptOK /\ Duties /\ Kept /\ Intact /\ [Next]_vars => (Kept /\ Intact)'
  BY KeptStep, IntactStep
<1>3. Kept => RequirementKept
  BY DEF Kept, AllKept, RequirementKept
<1> QED BY <1>1, <1>2, <1>3, AlwaysTypes, AlwaysDuties, PTL DEF Spec
-------------------------------------------------------------------------------
(* The agent alone: what the links say                                         *)

AgentAlone ==
    Uses \subseteq {"tool_create", "tool_update", "tool_set_links", "tool_link",
                    "tool_delete", "tool_list"}

\* A link to t among the files f: of a revision there was, and of the statement of
\* the present one; to a file that is missing, of none.
Tells(l, t, f) ==
    IF t \in DOMAIN f
    THEN l.rev # None => /\ l.rev <= f[t].rev
                         /\ l.rev = f[t].rev => l.seen = Seen(f[t])
    ELSE l.rev = None /\ l.suspect

\* Links of r that save_item accepts once more.  A requirement that was linked to
\* its own number before it had a file has that link only.
Acceptable(parents, r, links) ==
    /\ \A t \in DOMAIN links : t[1] \in DOMAIN parents /\ t[1] \in Chain(parents, r[1])
    /\ r \in DOMAIN links => /\ DOMAIN links = {r} /\ links[r].suspect
                             /\ links[r].rev = None

\* The files in late may still have a link to x, which is gone.
Linked(parents, f, x, late) ==
    \A r \in DOMAIN f :
        /\ r[1] \in DOMAIN parents /\ f[r].rev > None
        /\ Acceptable(parents, r, f[r].links)
        /\ \A t \in DOMAIN f[r].links : Tells(f[r].links[t], t, f) \/ (t = x /\ r \in late)

\* An item that is about to be stored as r.
Prepared(parents, r, item, f) ==
    /\ r[1] \in DOMAIN parents /\ item.rev > None
    /\ r \in DOMAIN f => /\ f[r].rev <= item.rev
                         /\ f[r].rev = item.rev => Seen(f[r]) = Seen(item)
    /\ \A t \in DOMAIN item.links : Tells(item.links[t], t, f)
    /\ r \in DOMAIN item.links =>
         IF r \in DOMAIN f THEN ~item.links[r].suspect ELSE DOMAIN item.links = {r}

Late(q, f) == IF Sweeping(q) THEN {r \in DOMAIN f : r[1] \in q[1].todo \/ r \in q[1].ids} ELSE {}
Gone(q) == IF Sweeping(q) THEN q[1].rid ELSE <<>>

\* A call of the agent: one change of the files, and perhaps a bump.
Working(parents, q, f) ==
    /\ \A i \in DOMAIN q : i > 1 => q[i].op = "bump"
    /\ q # <<>> => q[1].op \in {"save", "bump", "deleteItem", "sweep"}
    /\ q # <<>> /\ q[1].op = "save" => Prepared(parents, q[1].rid, q[1].item, f)
    /\ Sweeping(q) => q[1].rid \notin DOMAIN f /\ q[1].ids \subseteq DOMAIN f

Hierarchy == ParentsIn(InitialDocs)
AgentLinks ==
    /\ call["gui"] = <<>>
    /\ ParentsIn(docs) = Hierarchy
    /\ cache["mcp"] # NotLoaded \/ call["mcp"] # <<>> => ParentsIn(cache["mcp"]) = Hierarchy
    /\ Working(Hierarchy, call["mcp"], items)
    /\ Linked(Hierarchy, items, Gone(call["mcp"]), Late(call["mcp"], items))
-------------------------------------------------------------------------------
(* Preparing links keeps them true                                             *)

LEMMA ParentsDomain == \A D : DOMAIN ParentsIn(D) = DOMAIN D
BY DEF ParentsIn

LEMMA PrepareTells ==
    ASSUME NEW D, NEW links \in LinkMaps, FilesOK,
           \A t \in DOMAIN links :
               IF t \in DOMAIN items THEN Tells(links[t], t, items) ELSE links[t].rev = None
    PROVE  LET g == PrepareLinks(D, links)
           IN  /\ DOMAIN g = DOMAIN links
               /\ \A t \in DOMAIN g :
                     /\ Tells(g[t], t, items)
                     /\ t[1] \notin DOMAIN D \/ t \notin DOMAIN items =>
                          g[t].suspect /\ g[t].rev = links[t].rev
                     /\ t[1] \in DOMAIN D /\ t \in DOMAIN items
                        /\ links[t].rev \in {None, items[t].rev} => ~g[t].suspect
<1> DEFINE g == PrepareLinks(D, links)
<1>1. /\ DOMAIN g = DOMAIN links
      /\ \A t \in DOMAIN links :
            g[t] = IF t[1] \notin DOMAIN D \/ t \notin DOMAIN items
                   THEN [links[t] EXCEPT !.suspect = TRUE]
                   ELSE IF links[t].rev = None
                   THEN [rev |-> items[t].rev, suspect |-> FALSE, seen |-> Seen(items[t])]
                   ELSE [links[t] EXCEPT !.suspect = (links[t].rev # items[t].rev)]
  BY DEF PrepareLinks
<1> HIDE DEF g
<1>2. ASSUME NEW t \in DOMAIN links
      PROVE  /\ Tells(g[t], t, items)
             /\ t[1] \notin DOMAIN D \/ t \notin DOMAIN items =>
                  g[t].suspect /\ g[t].rev = links[t].rev
             /\ t[1] \in DOMAIN D /\ t \in DOMAIN items
                /\ links[t].rev \in {None, items[t].rev} => ~g[t].suspect
  <2>1. links[t] \in Link
    BY LinksIs
  <2> DEFINE b == (links[t].rev # items[t].rev)
  <2>2. /\ [links[t] EXCEPT !.suspect = TRUE].suspect
        /\ [links[t] EXCEPT !.suspect = TRUE].rev = links[t].rev
        /\ [links[t] EXCEPT !.suspect = TRUE].seen = links[t].seen
        /\ [links[t] EXCEPT !.suspect = b].suspect = b
        /\ [links[t] EXCEPT !.suspect = b].rev = links[t].rev
        /\ [links[t] EXCEPT !.suspect = b].seen = links[t].seen
    BY <2>1 DEF Link
  <2>3. CASE t[1] \notin DOMAIN D \/ t \notin DOMAIN items
    <3>1. g[t] = [links[t] EXCEPT !.suspect = TRUE]
      BY <1>1, <2>3
    <3>2. g[t].suspect /\ g[t].rev = links[t].rev /\ g[t].seen = links[t].seen
      BY <2>2, <3>1
    <3> QED BY <2>3, <3>2 DEF Tells
  <2>4. CASE t[1] \in DOMAIN D /\ t \in DOMAIN items /\ links[t].rev = None
    <3>1. g[t] = [rev |-> items[t].rev, suspect |-> FALSE, seen |-> Seen(items[t])]
      BY <1>1, <2>4
    <3>2. items[t].rev \in Nat
      BY <2>4 DEF FilesOK, Item
    <3> QED BY <2>4, <3>1, <3>2 DEF Tells
  <2>5. CASE t[1] \in DOMAIN D /\ t \in DOMAIN items /\ links[t].rev # None
    <3>1. g[t] = [links[t] EXCEPT !.suspect = b]
      BY <1>1, <2>5
    <3>2. g[t].suspect = b /\ g[t].rev = links[t].rev /\ g[t].seen = links[t].seen
      BY <2>2, <3>1
    <3> QED BY <2>5, <3>2 DEF Tells
  <2> QED BY <2>3, <2>4, <2>5
<1> QED BY <1>1, <1>2 DEF g

\* New links, and a link added.
LEMMA LinksToTell ==
    ASSUME NEW T
    PROVE  /\ DOMAIN LinksTo(T) = T
           /\ \A t \in T : /\ LinksTo(T)[t].rev = None
                           /\ t \in DOMAIN items => Tells(LinksTo(T)[t], t, items)
BY DEF LinksTo, NewLink, Tells, None

LEMMA WithIs ==
    ASSUME NEW f, NEW t, NEW l
    PROVE  /\ DOMAIN With(f, t, l) = DOMAIN f \cup {t}
           /\ With(f, t, l)[t] = l
           /\ \A u \in DOMAIN f : u # t => With(f, t, l)[u] = f[u]
BY DEF With

\* Without a sweep all links tell the truth.
LEMMA LinkedTells ==
    ASSUME NEW parents, NEW f, NEW x, Linked(parents, f, x, {}), NEW r \in DOMAIN f,
           NEW t \in DOMAIN f[r].links
    PROVE  Tells(f[r].links[t], t, f)
BY DEF Linked

LEMMA NotSweeping ==
    ASSUME NEW q, NEW f, ~Sweeping(q)
    PROVE  Gone(q) = <<>> /\ Late(q, f) = {}
BY DEF Gone, Late
-------------------------------------------------------------------------------
(* The agent starts a call                                                     *)

OnlyBumps(q) == q \in Seq(Effects) /\ \A i \in DOMAIN q : q[i].op = "bump"

LEMMA BumpsOnly ==
    ASSUME NEW p \in Prefix
    PROVE  OnlyBumps(<<>>) /\ OnlyBumps(Bump(p)) /\ \A cond : OnlyBumps(BumpIf(cond, p))
<1> DEFINE e == [op |-> "bump", prefix |-> p]
<1>1. e \in Effects /\ e.op = "bump" /\ Bump(p) = <<e>>
  BY DEF Effects, Bump
<1> HIDE DEF e
<1>2. OnlyBumps(<<e>>)
  <2>1. <<e>> \in Seq(Effects) /\ DOMAIN <<e>> = {1} /\ <<e>>[1] = e
    BY <1>1, OneEffect
  <2> QED BY <1>1, <2>1 DEF OnlyBumps
<1>3. OnlyBumps(<<>>)
  <2>1. <<>> \in Seq(Effects) /\ DOMAIN <<>> = {}
    OBVIOUS
  <2> QED BY <2>1 DEF OnlyBumps
<1> QED BY <1>1, <1>2, <1>3 DEF BumpIf

LEMMA NoBumps == OnlyBumps(<<>>)
<1>1. <<>> \in Seq(Effects) /\ DOMAIN <<>> = {}
  OBVIOUS
<1> QED BY <1>1 DEF OnlyBumps

\* One effect, and then bumps.
LEMMA ThenBumps ==
    ASSUME NEW a \in Seq(Effects), Len(a) = 1, NEW b, OnlyBumps(b)
    PROVE  /\ a \o b \in Seq(Effects) /\ a \o b # <<>> /\ (a \o b)[1] = a[1]
           /\ \A i \in DOMAIN (a \o b) : i > 1 => (a \o b)[i].op = "bump"
<1>1. b \in Seq(Effects)
  BY DEF OnlyBumps
<1> DEFINE c == a \o b
<1>2. /\ c \in Seq(Effects) /\ Len(c) = 1 + Len(b) /\ Len(b) \in Nat /\ DOMAIN a = 1 .. 1
      /\ \A i \in DOMAIN c :
            \/ i \in DOMAIN a /\ c[i] = a[i]
            \/ i \notin DOMAIN a /\ i - 1 \in DOMAIN b /\ c[i] = b[i - 1]
  <2>1. /\ c \in Seq(Effects) /\ Len(c) = Len(a) + Len(b) /\ Len(b) \in Nat
        /\ DOMAIN a = 1 .. Len(a)
    BY <1>1, Joined
  <2>2. \A i \in DOMAIN c :
          \/ i \in DOMAIN a /\ c[i] = a[i]
          \/ /\ i \notin DOMAIN a /\ i - Len(a) \in DOMAIN b
             /\ c[i] = b[i - Len(a)]
    BY <1>1, Joined
  <2> HIDE DEF c
  <2> QED BY <2>1, <2>2
<1> HIDE DEF c
<1>3. 1 \in DOMAIN c /\ c # <<>>
  BY <1>2
<1>4. c[1] = a[1]
  BY <1>2, <1>3
<1>5. ASSUME NEW i \in DOMAIN c, i > 1 PROVE c[i].op = "bump"
  <2>1. i - 1 \in DOMAIN b /\ c[i] = b[i - 1]
    BY <1>2, <1>5
  <2> QED BY <2>1 DEF OnlyBumps
<1> QED BY <1>2, <1>3, <1>4, <1>5 DEF c

\* What is left of a call of the agent after its change.
LEMMA LeftBumps ==
    ASSUME NEW q \in Seq(Effects), q # <<>>, \A i \in DOMAIN q : i > 1 => q[i].op = "bump"
    PROVE  OnlyBumps(Tail(q))
<1>1. /\ Tail(q) \in Seq(Effects) /\ Len(Tail(q)) = Len(q) - 1 /\ Len(q) \in Nat
      /\ \A i \in 1 .. Len(Tail(q)) : Tail(q)[i] = q[i + 1]
  OBVIOUS
<1>2. DOMAIN Tail(q) = 1 .. Len(Tail(q)) /\ DOMAIN q = 1 .. Len(q)
  BY <1>1
<1>3. \A i \in DOMAIN Tail(q) : i + 1 \in DOMAIN q /\ i + 1 > 1 /\ Tail(q)[i] = q[i + 1]
  BY <1>1, <1>2
<1> QED BY <1>1, <1>3 DEF OnlyBumps

LEMMA BumpsWork ==
    ASSUME NEW q, OnlyBumps(q)
    PROVE  ~Sweeping(q) /\ \A parents, f : Working(parents, q, f)
<1>1. q \in Seq(Effects)
  BY DEF OnlyBumps
<1>2. q # <<>> => 1 \in DOMAIN q
  BY <1>1
<1> QED BY <1>2 DEF OnlyBumps, Sweeping, Working

LEMMA AgentHierarchy ==
    ASSUME AgentLinks
    PROVE  ParentsIn(EnsureDocuments("mcp")) = Hierarchy
BY DEF AgentLinks, EnsureDocuments

LEMMA AgentBegins ==
    ASSUME Types, AgentLinks, NEW op, NEW D, NEW plan,
           Begin(op, "mcp", D, plan), ParentsIn(D) = Hierarchy,
           Working(Hierarchy, plan, items), ~Sweeping(plan)
    PROVE  AgentLinks'
<1>1. /\ call["mcp"] = <<>> /\ cache' = [cache EXCEPT !["mcp"] = D]
      /\ call' = [call EXCEPT !["mcp"] = plan] /\ UNCHANGED <<docs, items>>
  BY DEF Begin
<1>2. cache'["mcp"] = D /\ call'["mcp"] = plan /\ call'["gui"] = call["gui"]
  BY <1>1 DEF Types, ServicesOK, Services
<1>3. ~Sweeping(call["mcp"])
  BY <1>1 DEF Sweeping
<1>4. /\ Gone(call["mcp"]) = <<>> /\ Late(call["mcp"], items) = {}
      /\ Gone(plan) = <<>> /\ Late(plan, items) = {}
  BY <1>3, NotSweeping
<1> QED BY <1>1, <1>2, <1>4 DEF AgentLinks

\* A call that begins with storing an item.
LEMMA AgentStores ==
    ASSUME Types, AgentLinks, NEW op, NEW rid \in Rid, NEW item \in Item, NEW b, OnlyBumps(b),
           Begin(op, "mcp", EnsureDocuments("mcp"), Save(rid, item) \o b),
           Prepared(Hierarchy, rid, item, items)
    PROVE  AgentLinks'
<1> DEFINE plan == Save(rid, item) \o b
           D == EnsureDocuments("mcp")
<1>1. /\ Save(rid, item) \in Seq(Effects) /\ Len(Save(rid, item)) = 1
      /\ Save(rid, item)[1].op = "save" /\ Save(rid, item)[1].rid = rid
      /\ Save(rid, item)[1].item = item
  BY SaveIs
<1>2. /\ plan # <<>> /\ plan[1] = Save(rid, item)[1]
      /\ \A i \in DOMAIN plan : i > 1 => plan[i].op = "bump"
  BY <1>1, ThenBumps
<1>3. Begin(op, "mcp", D, plan) /\ ParentsIn(D) = Hierarchy
  BY AgentHierarchy
<1> HIDE DEF plan, D
<1>4. Working(Hierarchy, plan, items) /\ ~Sweeping(plan)
  BY <1>1, <1>2 DEF Working, Sweeping
<1> QED BY <1>3, <1>4, AgentBegins

\* An idle agent: no links are out of date.
LEMMA AgentIdle ==
    ASSUME Types, AgentLinks, call["mcp"] = <<>>
    PROVE  \A r \in DOMAIN items :
               /\ r \in Rid /\ items[r] \in Item /\ items[r].links \in LinkMaps
               /\ r[1] \in DOMAIN Hierarchy /\ items[r].rev > None
               /\ Acceptable(Hierarchy, r, items[r].links)
               /\ \A t \in DOMAIN items[r].links : Tells(items[r].links[t], t, items)
<1>1. ~Sweeping(call["mcp"])
  BY DEF Sweeping
<1>2. Linked(Hierarchy, items, <<>>, {})
  BY <1>1, NotSweeping DEF AgentLinks
<1> QED BY <1>2 DEF Linked, Types, FilesOK, Item
\* What preparing new links gives an item without a file, or one that has none of
\* its own number.
LEMMA PreparedLinks ==
    ASSUME FilesOK, NEW r \in Rid, r[1] \in DOMAIN Hierarchy, NEW item \in Item, item.rev > None,
           r \in DOMAIN items => /\ items[r].rev <= item.rev
                                 /\ items[r].rev = item.rev => Seen(items[r]) = Seen(item),
           NEW D, DOMAIN D = DOMAIN Hierarchy, NEW links \in LinkMaps,
           \A t \in DOMAIN links :
               IF t \in DOMAIN items THEN Tells(links[t], t, items) ELSE links[t].rev = None,
           r \in DOMAIN links =>
               IF r \in DOMAIN items THEN links[r].rev \in {None, items[r].rev}
               ELSE DOMAIN links = {r},
           item.links = PrepareLinks(D, links)
    PROVE  Prepared(Hierarchy, r, item, items)
<1> DEFINE g == PrepareLinks(D, links)
<1>1. /\ DOMAIN g = DOMAIN links
      /\ \A t \in DOMAIN g :
            /\ Tells(g[t], t, items)
            /\ t[1] \in DOMAIN D /\ t \in DOMAIN items
               /\ links[t].rev \in {None, items[t].rev} => ~g[t].suspect
  BY PrepareTells
<1> HIDE DEF g
<1>2. item.links = g
  BY DEF g
<1> QED BY <1>1, <1>2 DEF Prepared

LEMMA AgentCreates == Types /\ AgentLinks /\ ToolCreate => AgentLinks'
<1> SUFFICES ASSUME Types, AgentLinks, ToolCreate PROVE AgentLinks'
  OBVIOUS
<1> DEFINE D == EnsureDocuments("mcp")
<1>1. IsDocuments(D) /\ ParentsIn(D) = Hierarchy
  BY Documents, AgentHierarchy DEF Types, Services
<1>2. PICK p \in DOMAIN D, text \in Text, T \in {{}} \cup {{t} : t \in Rid} :
        /\ NextItemId(p) <= MaxId
        /\ Begin("tool_create", "mcp", D,
                 CreatePlan(<<p, NextItemId(p)>>,
                            [uid |-> calls, text |-> text, rev |-> 1,
                             links |-> PrepareLinks(D, LinksTo(T))]))
  BY DEF ToolCreate
<1> DEFINE rid == <<p, NextItemId(p)>>
           links == PrepareLinks(D, LinksTo(T))
           item == [uid |-> calls, text |-> text, rev |-> 1, links |-> links]
<1>3. rid \in Rid /\ rid[1] = p /\ p \in Prefix /\ p \in DOMAIN Hierarchy /\ rid \notin DOMAIN items
  <2>1. p \in Prefix
    BY <1>1 DEF IsDocuments
  <2> QED BY <1>1, <1>2, <2>1, NextItemIdType, ParentsDomain DEF Types, FilesOK
<1>4. LinksTo(T) \in LinkMaps /\ links \in LinkMaps
  <2>1. T \subseteq Rid
    OBVIOUS
  <2>2. LinksTo(T) \in LinkMaps
    BY <2>1, LinksToType
  <2> QED BY <2>2, PrepareLinksType DEF Types, FilesOK
<1>5. Begin("tool_create", "mcp", D, CreatePlan(rid, item))
  BY <1>2
<1> HIDE DEF rid
<1>6. item \in Item /\ item.rev = 1 /\ item.links = links
  BY <1>4 DEF Item, Types, CountersOK
<1>7. Prepared(Hierarchy, rid, item, items)
  <2>1. /\ DOMAIN LinksTo(T) = T
        /\ \A t \in T : LinksTo(T)[t].rev = None
                        /\ (t \in DOMAIN items => Tells(LinksTo(T)[t], t, items))
    BY LinksToTell
  <2>2. rid \in T => T = {rid}
    OBVIOUS
  <2>3. DOMAIN D = DOMAIN Hierarchy /\ item.rev > None
    BY <1>1, <1>6, ParentsDomain DEF None
  <2> HIDE DEF D, item, links
  <2> QED BY <1>3, <1>4, <1>6, <2>1, <2>2, <2>3, PreparedLinks DEF links, Types
<1> HIDE DEF item
<1>8. OnlyBumps(Bump(p))
  BY <1>3, BumpsOnly
<1> QED BY <1>3, <1>5, <1>6, <1>7, <1>8, AgentStores DEF CreatePlan

LEMMA LoadedTells ==
    ASSUME Types, AgentLinks, call["mcp"] = <<>>, NEW r \in DOMAIN items,
           NEW D, DOMAIN D = DOMAIN Hierarchy, NEW item \in Item, item.links = PrepareLinks(D, items[r].links),
           items[r].rev <= item.rev,
           items[r].rev = item.rev => Seen(items[r]) = Seen(item)
    PROVE  Prepared(Hierarchy, r, item, items)
<1>1. /\ r \in Rid /\ items[r] \in Item /\ items[r].links \in LinkMaps
      /\ r[1] \in DOMAIN Hierarchy /\ items[r].rev > None
      /\ Acceptable(Hierarchy, r, items[r].links)
      /\ \A t \in DOMAIN items[r].links : Tells(items[r].links[t], t, items)
  BY AgentIdle
<1>2. item.rev > None
  BY <1>1 DEF Item, None
<1>3. r \in DOMAIN items[r].links => items[r].links[r].rev \in {None, items[r].rev}
  BY <1>1 DEF Acceptable
<1>4. \A t \in DOMAIN items[r].links :
         IF t \in DOMAIN items THEN Tells(items[r].links[t], t, items)
         ELSE items[r].links[t].rev = None
  BY <1>1 DEF Tells
<1> QED BY <1>1, <1>2, <1>3, <1>4, PreparedLinks DEF Types

LEMMA AgentUpdates == Types /\ AgentLinks /\ ToolUpdateField => AgentLinks'
<1> SUFFICES ASSUME Types, AgentLinks, ToolUpdateField PROVE AgentLinks'
  OBVIOUS
<1> DEFINE D == EnsureDocuments("mcp")
<1>1. IsDocuments(D) /\ DOMAIN D = DOMAIN Hierarchy
  BY Documents, AgentHierarchy, ParentsDomain DEF Types, Services
<1>2. PICK rid \in DOMAIN items, text \in Text :
        Begin("tool_update", "mcp", D,
              Save(rid, WithStatement(Loaded(D, rid), text))
              \o BumpIf(text # items[rid].text, rid[1]))
  BY DEF ToolUpdateField
<1> DEFINE old == Loaded(D, rid)
           item == WithStatement(old, text)
           b == BumpIf(text # items[rid].text, rid[1])
<1>3. call["mcp"] = <<>> /\ rid \in Rid /\ rid[1] \in Prefix
  BY <1>2 DEF Begin, Types, FilesOK, Rid
<1>4. /\ old \in Item /\ old.uid = items[rid].uid /\ old.text = items[rid].text
      /\ old.rev = items[rid].rev /\ old.links = PrepareLinks(D, items[rid].links)
  <2>1. items[rid] \in Item
    BY DEF Types, FilesOK
  <2>2. old.links = PrepareLinks(D, items[rid].links)
    BY <2>1 DEF Loaded, Item
  <2> QED BY <2>2, LoadedType DEF Types, FilesOK
<1>5. Begin("tool_update", "mcp", D, Save(rid, item) \o b)
  BY <1>2
<1> HIDE DEF old
<1>6. item \in Item
  BY <1>4, WithStatementType
<1>7. /\ item.links = old.links /\ old.rev <= item.rev
      /\ old.rev = item.rev => Seen(item) = Seen(old)
  <2>1. CASE text # old.text
    <3>1. item = [old EXCEPT !.text = text, !.rev = old.rev + 1]
      BY <2>1 DEF WithStatement
    <3> QED BY <1>4, <3>1 DEF Item
  <2>2. CASE text = old.text
    <3>1. item = [old EXCEPT !.text = text, !.rev = old.rev + 0]
      BY <2>2 DEF WithStatement
    <3>2. item.text = old.text /\ item.uid = old.uid /\ item.links = old.links /\ item.rev = old.rev
      BY <1>4, <2>2, <3>1 DEF Item
    <3> QED BY <1>4, <3>2 DEF Item, Seen
  <2> QED BY <2>1, <2>2
<1>8. OnlyBumps(b)
  BY <1>3, BumpsOnly
<1> HIDE DEF item, b, D
<1>9. Prepared(Hierarchy, rid, item, items)
  <2>1. Seen(old) = Seen(items[rid])
    BY <1>4 DEF Seen
  <2> QED BY <1>1, <1>3, <1>4, <1>6, <1>7, <2>1, LoadedTells
<1> QED BY <1>3, <1>5, <1>6, <1>8, <1>9, AgentStores DEF D

LEMMA AgentSetsLinks == Types /\ AgentLinks /\ ToolSetLinks => AgentLinks'
<1> SUFFICES ASSUME Types, AgentLinks, ToolSetLinks PROVE AgentLinks'
  OBVIOUS
<1> DEFINE D == EnsureDocuments("mcp")
<1>1. IsDocuments(D) /\ DOMAIN D = DOMAIN Hierarchy
  BY Documents, AgentHierarchy, ParentsDomain DEF Types, Services
<1>2. PICK rid \in DOMAIN items, T \in {{}} \cup {{t} : t \in Rid} :
        Begin("tool_set_links", "mcp", D,
              Save(rid, [items[rid] EXCEPT !.links = PrepareLinks(D, LinksTo(T))]))
  BY DEF ToolSetLinks
<1> DEFINE links == PrepareLinks(D, LinksTo(T))
           item == [items[rid] EXCEPT !.links = links]
<1>3. call["mcp"] = <<>> /\ Begin("tool_set_links", "mcp", D, Save(rid, item))
  BY <1>2 DEF Begin
<1>4. LinksTo(T) \in LinkMaps /\ links \in LinkMaps
  <2>1. T \subseteq Rid
    OBVIOUS
  <2>2. LinksTo(T) \in LinkMaps
    BY <2>1, LinksToType
  <2> QED BY <2>2, PrepareLinksType DEF Types, FilesOK
<1>5. /\ rid \in Rid /\ items[rid] \in Item /\ rid[1] \in DOMAIN Hierarchy /\ items[rid].rev > None
  BY <1>3, AgentIdle
<1> HIDE DEF D, links
<1>6. /\ item \in Item /\ item.links = links /\ item.rev = items[rid].rev
      /\ Seen(item) = Seen(items[rid])
  BY <1>4, <1>5 DEF Item, Seen
<1> HIDE DEF item
<1>7. Prepared(Hierarchy, rid, item, items)
  <2>1. /\ DOMAIN LinksTo(T) = T
        /\ \A t \in T : LinksTo(T)[t].rev = None
                        /\ (t \in DOMAIN items => Tells(LinksTo(T)[t], t, items))
    BY LinksToTell
  <2>2. items[rid].rev <= item.rev
    BY <1>5, <1>6 DEF Item
  <2> QED BY <1>1, <1>4, <1>5, <1>6, <2>1, <2>2, PreparedLinks DEF links, Types
<1>8. Begin("tool_set_links", "mcp", EnsureDocuments("mcp"), Save(rid, item) \o <<>>)
  <2>1. Save(rid, item) \in Seq(Effects)
    BY <1>5, <1>6, SaveIs
  <2>2. Save(rid, item) \o <<>> = Save(rid, item)
    BY <2>1
  <2> QED BY <1>3, <2>2 DEF D
<1>9. OnlyBumps(<<>>)
  <2>1. rid[1] \in Prefix
    BY <1>5 DEF Rid
  <2> QED BY <2>1, BumpsOnly
<1> QED BY <1>5, <1>6, <1>7, <1>8, <1>9, AgentStores

LEMMA AgentLinksUp == Types /\ AgentLinks /\ ToolLink => AgentLinks'
<1> SUFFICES ASSUME Types, AgentLinks, ToolLink PROVE AgentLinks'
  OBVIOUS
<1> DEFINE D == EnsureDocuments("mcp")
<1>1. IsDocuments(D) /\ DOMAIN D = DOMAIN Hierarchy
  BY Documents, AgentHierarchy, ParentsDomain DEF Types, Services
<1>2. PICK source \in DOMAIN items, derived \in DOMAIN items :
        LET link == [rev |-> items[source].rev, suspect |-> FALSE,
                     seen |-> Seen(items[source])]
        IN Begin("tool_link", "mcp", D,
                 Save(derived, [items[derived] EXCEPT
                                   !.links = PrepareLinks(D, With(@, source, link))]))
  BY DEF ToolLink
<1> DEFINE link == [rev |-> items[source].rev, suspect |-> FALSE,
                    seen |-> Seen(items[source])]
           asked == With(items[derived].links, source, link)
           links == PrepareLinks(D, asked)
           item == [items[derived] EXCEPT !.links = links]
<1>3. call["mcp"] = <<>> /\ Begin("tool_link", "mcp", D, Save(derived, item))
  BY <1>2 DEF Begin
<1>4. /\ source \in Rid /\ derived \in Rid /\ items[source] \in Item /\ items[derived] \in Item
      /\ derived[1] \in DOMAIN Hierarchy /\ items[derived].rev > None
      /\ items[derived].links \in LinkMaps
      /\ Acceptable(Hierarchy, derived, items[derived].links)
      /\ \A t \in DOMAIN items[derived].links : Tells(items[derived].links[t], t, items)
  BY <1>3, AgentIdle
<1>5. link \in Link /\ link.rev = items[source].rev /\ link.seen = Seen(items[source])
  BY <1>4 DEF Link, Item, Seen
<1> HIDE DEF link
<1>6. /\ DOMAIN asked = DOMAIN items[derived].links \cup {source} /\ asked[source] = link
      /\ \A u \in DOMAIN items[derived].links : u # source => asked[u] = items[derived].links[u]
      /\ asked \in LinkMaps
  <2> DEFINE h == items[derived].links
  <2>1. h \in LinkMaps /\ link \in Link /\ source \in Rid
    BY <1>4, <1>5
  <2>2. asked = With(h, source, link)
    OBVIOUS
  <2> HIDE DEF h, asked
  <2>3. asked \in LinkMaps
    BY <2>1, <2>2, LinksWith
  <2>4. /\ DOMAIN asked = DOMAIN h \cup {source} /\ asked[source] = link
        /\ \A u \in DOMAIN h : u # source => asked[u] = h[u]
    BY <2>2 DEF With
  <2> QED BY <2>3, <2>4 DEF h
<1> HIDE DEF asked
<1>7. links \in LinkMaps
  BY <1>6, PrepareLinksType DEF Types, FilesOK
<1> HIDE DEF links, D
<1>8. /\ item \in Item /\ item.links = links /\ item.rev = items[derived].rev
      /\ Seen(item) = Seen(items[derived])
  BY <1>4, <1>7 DEF Item, Seen
<1> HIDE DEF item
<1>9. Prepared(Hierarchy, derived, item, items)
  <2>1. Tells(link, source, items)
    BY <1>4, <1>5 DEF Tells, Item
  <2>2. \A t \in DOMAIN asked :
           IF t \in DOMAIN items THEN Tells(asked[t], t, items) ELSE asked[t].rev = None
    BY <1>4, <1>6, <2>1 DEF Tells
  <2>3. derived \in DOMAIN asked => asked[derived].rev \in {None, items[derived].rev}
    BY <1>4, <1>5, <1>6 DEF Acceptable
  <2>4. items[derived].rev <= item.rev
    BY <1>4, <1>8 DEF Item
  <2> QED BY <1>1, <1>4, <1>6, <1>8, <2>2, <2>3, <2>4, PreparedLinks DEF links, Types
<1>10. Begin("tool_link", "mcp", EnsureDocuments("mcp"), Save(derived, item) \o <<>>)
  <2>1. Save(derived, item) \in Seq(Effects)
    BY <1>4, <1>8, SaveIs
  <2>2. Save(derived, item) \o <<>> = Save(derived, item)
    BY <2>1
  <2> QED BY <1>3, <2>2 DEF D
<1>11. OnlyBumps(<<>>)
  <2>1. derived[1] \in Prefix
    BY <1>4 DEF Rid
  <2> QED BY <2>1, BumpsOnly
<1> QED BY <1>4, <1>8, <1>9, <1>10, <1>11, AgentStores

LEMMA AgentDeletes == Types /\ AgentLinks /\ DeleteRequirement("tool_delete", "mcp") => AgentLinks'
<1> SUFFICES ASSUME Types, AgentLinks, DeleteRequirement("tool_delete", "mcp") PROVE AgentLinks'
  OBVIOUS
<1> DEFINE D == EnsureDocuments("mcp")
<1>1. ParentsIn(D) = Hierarchy
  BY AgentHierarchy
<1>2. PICK rid \in DOMAIN items : Begin("tool_delete", "mcp", D, DeletePlan(rid))
  BY DEF DeleteRequirement
<1> DEFINE e == [op |-> "deleteItem", rid |-> rid, must |-> TRUE]
           plan == <<e>> \o Bump(rid[1])
<1>3. Begin("tool_delete", "mcp", D, plan)
  BY <1>2 DEF DeletePlan, DeleteItem
<1>4. e \in Effects /\ e.op = "deleteItem" /\ OnlyBumps(Bump(rid[1]))
  <2>1. rid \in Rid /\ rid[1] \in Prefix
    BY DEF Types, FilesOK, Rid
  <2> QED BY <2>1, BumpsOnly DEF Effects
<1> HIDE DEF e, D
<1>5. <<e>> \in Seq(Effects) /\ Len(<<e>>) = 1 /\ <<e>>[1] = e
  BY <1>4, OneEffect
<1>6. /\ plan # <<>> /\ plan[1] = e
      /\ \A i \in DOMAIN plan : i > 1 => plan[i].op = "bump"
  BY <1>4, <1>5, ThenBumps
<1> HIDE DEF plan
<1>7. Working(Hierarchy, plan, items) /\ ~Sweeping(plan)
  BY <1>4, <1>6 DEF Working, Sweeping
<1> QED BY <1>1, <1>3, <1>7, AgentBegins

LEMMA AgentLists == Types /\ AgentLinks /\ ToolListDocument => AgentLinks'
<1> SUFFICES ASSUME Types, AgentLinks, ToolListDocument PROVE AgentLinks'
  OBVIOUS
<1>1. /\ cache' = [cache EXCEPT !["mcp"] = docs] /\ UNCHANGED <<docs, items, call>>
  BY DEF ToolListDocument
<1>2. cache'["mcp"] = docs
  BY <1>1 DEF Types, ServicesOK, Services
<1> QED BY <1>1, <1>2 DEF AgentLinks
-------------------------------------------------------------------------------
(* Each effect of the agent's call                                             *)

\* The call goes on with the bumps that are left.
LEMMA AgentGoesOn ==
    ASSUME Types, AgentLinks, call["mcp"] # <<>>, Continue("mcp", <<>>),
           ParentsIn(docs') = Hierarchy, ParentsIn(cache'["mcp"]) = Hierarchy,
           Linked(Hierarchy, items', <<>>, {})
    PROVE  AgentLinks'
<1> DEFINE q == call["mcp"]
           rest == Tail(q)
<1>1. q \in Seq(Effects) /\ q # <<>> /\ \A i \in DOMAIN q : i > 1 => q[i].op = "bump"
  BY DEF Types, ServicesOK, Services, Underway, AgentLinks, Working
<1>2. OnlyBumps(rest)
  BY <1>1, LeftBumps
<1>3. call'["mcp"] = rest /\ call'["gui"] = call["gui"]
  <2>1. call' = [call EXCEPT !["mcp"] = <<>> \o Tail(call["mcp"])]
    BY DEF Continue
  <2>2. <<>> \o Tail(call["mcp"]) = rest
    BY <1>1
  <2> QED BY <2>1, <2>2 DEF Types, ServicesOK, Services
<1> HIDE DEF q, rest
<1>4. ~Sweeping(rest) /\ Working(Hierarchy, rest, items')
  BY <1>2, BumpsWork
<1>5. Gone(rest) = <<>> /\ Late(rest, items') = {}
  BY <1>4, NotSweeping
<1> QED BY <1>3, <1>4, <1>5 DEF AgentLinks

\* The call gives up.
LEMMA AgentRaises ==
    ASSUME Types, AgentLinks, Raise("mcp"), UNCHANGED <<docs, items, cache>>,
           ~Sweeping(call["mcp"]), call["mcp"] # <<>>
    PROVE  AgentLinks'
<1>1. call'["mcp"] = <<>> /\ call'["gui"] = call["gui"]
  BY DEF Raise, Types, ServicesOK, Services
<1>2. ~Sweeping(<<>>) /\ Working(Hierarchy, <<>>, items)
  BY BumpsWork, NoBumps
<1>3. Gone(call["mcp"]) = <<>> /\ Late(call["mcp"], items) = {}
  BY NotSweeping
<1>4. Gone(<<>>) = <<>> /\ Late(<<>>, items) = {}
  BY <1>2, NotSweeping
<1> QED BY <1>1, <1>2, <1>3, <1>4 DEF AgentLinks

\* The effect the agent's call has come to.
LEMMA AgentEffect ==
    ASSUME Types, AgentLinks, call["mcp"] # <<>>
    PROVE  /\ Current("mcp") = call["mcp"][1] /\ Current("mcp") \in Effects
           /\ call["mcp"] \in Seq(Effects)
           /\ ParentsIn(cache["mcp"]) = Hierarchy /\ DOMAIN cache["mcp"] = DOMAIN Hierarchy
           /\ ParentsIn(docs) = Hierarchy /\ IsDocuments(cache["mcp"])
           /\ Current("mcp").op \in {"save", "bump", "deleteItem", "sweep"}
           /\ Current("mcp").op = "sweep" <=> Sweeping(call["mcp"])
           /\ Working(Hierarchy, call["mcp"], items)
           /\ Linked(Hierarchy, items, Gone(call["mcp"]), Late(call["mcp"], items))
<1>1. "mcp" \in Services
  BY DEF Services
<1>2. ParentsIn(cache["mcp"]) = Hierarchy /\ ParentsIn(docs) = Hierarchy
  BY DEF AgentLinks
<1>3. Current("mcp") = call["mcp"][1] /\ Working(Hierarchy, call["mcp"], items)
  BY <1>1, HeadTypes DEF AgentLinks
<1> QED BY <1>1, <1>2, <1>3, HeadTypes, ParentsDomain DEF AgentLinks, Working, Sweeping

\* Storing an item that save_item accepts keeps all links true.
LEMMA StoringTells ==
    ASSUME FilesOK, NEW x, NEW late, Linked(Hierarchy, items, x, late), NEW D,
           ParentsIn(D) = Hierarchy,
           NEW rid \in Rid, NEW item \in Item, Prepared(Hierarchy, rid, item, items),
           ValidItemLinks(D, rid, item.links), rid # x
    PROVE  Linked(Hierarchy, Stored(D, rid, item), x, late \ {rid})
<1> DEFINE f == Stored(D, rid, item)
           g == PrepareLinks(D, item.links)
<1>1. /\ DOMAIN f = DOMAIN items \cup {rid}
      /\ \A r \in DOMAIN items : r # rid => f[r] = items[r]
      /\ f[rid].uid = item.uid /\ f[rid].text = item.text /\ f[rid].rev = item.rev
  <2>1. /\ DOMAIN f = DOMAIN items \cup {rid} /\ f[rid] = [item EXCEPT !.links = g]
        /\ \A r \in DOMAIN items : r # rid => f[r] = items[r]
    BY DEF Stored
  <2> HIDE DEF f, g
  <2> QED BY <2>1 DEF Item
<1>2. f[rid].links = g
  <2>1. f[rid] = [item EXCEPT !.links = g]
    BY DEF Stored
  <2> QED BY <2>1 DEF Item
<1> HIDE DEF f
<1>3. item.links \in LinkMaps /\ DOMAIN D = DOMAIN Hierarchy
  BY ParentsDomain DEF Item
<1>4. \A t \in DOMAIN item.links :
         IF t \in DOMAIN items THEN Tells(item.links[t], t, items) ELSE item.links[t].rev = None
  BY DEF Prepared, Tells
<1>5. /\ DOMAIN g = DOMAIN item.links
      /\ \A t \in DOMAIN g :
            /\ Tells(g[t], t, items)
            /\ t[1] \notin DOMAIN D \/ t \notin DOMAIN items =>
                 g[t].suspect /\ g[t].rev = item.links[t].rev
  BY <1>3, <1>4, PrepareTells
<1> HIDE DEF g
<1>6. \A t \in DOMAIN item.links :
         /\ t = rid => item.links[t].suspect
         /\ t[1] \in DOMAIN Hierarchy /\ t[1] \in Chain(Hierarchy, rid[1])
  BY <1>3 DEF ValidItemLinks, IsAncestor
<1>7. rid \in DOMAIN g => rid \notin DOMAIN items /\ DOMAIN g = {rid}
  BY <1>5, <1>6 DEF Prepared
<1>8. Acceptable(Hierarchy, rid, g)
  <2>1. rid \in DOMAIN g => g[rid].suspect /\ g[rid].rev = None
    BY <1>4, <1>5, <1>7
  <2> QED BY <1>5, <1>6, <1>7, <2>1 DEF Acceptable
<1>9. ASSUME NEW l \in Link, NEW t, Tells(l, t, items) PROVE Tells(l, t, f)
  <2>1. CASE t # rid
    BY <1>1, <1>9, <2>1 DEF Tells
  <2>2. CASE t = rid /\ rid \notin DOMAIN items
    BY <1>1, <1>9, <2>2 DEF Tells
  <2>3. CASE t = rid /\ rid \in DOMAIN items
    <3>1. ASSUME l.rev # None PROVE l.rev <= f[t].rev /\ (l.rev = f[t].rev => l.seen = Seen(f[t]))
      <4>1. l.rev <= items[rid].rev /\ (l.rev = items[rid].rev => l.seen = Seen(items[rid]))
        BY <1>9, <2>3, <3>1 DEF Tells
      <4>2. items[rid].rev <= f[rid].rev /\ (items[rid].rev = f[rid].rev => Seen(items[rid]) = Seen(f[rid]))
        BY <1>1, <2>3 DEF Prepared, Seen
      <4>3. l.rev \in Nat /\ items[rid].rev \in Nat /\ f[rid].rev \in Nat
        BY <1>1, <2>3 DEF Link, FilesOK, Item
      <4> QED BY <2>3, <4>1, <4>2, <4>3
    <3> QED BY <1>1, <2>3, <3>1 DEF Tells
  <2> QED BY <2>1, <2>2, <2>3
<1>10. ASSUME NEW r \in DOMAIN f
       PROVE  /\ r[1] \in DOMAIN Hierarchy /\ f[r].rev > None
              /\ Acceptable(Hierarchy, r, f[r].links)
              /\ \A t \in DOMAIN f[r].links :
                    Tells(f[r].links[t], t, f) \/ (t = x /\ r \in late \ {rid})
  <2>1. CASE r = rid
    <3>1. \A t \in DOMAIN g : g[t] \in Link
      <4>1. PrepareLinks(D, item.links) \in LinkMaps
        BY <1>3, PrepareLinksType DEF FilesOK
      <4> QED BY <4>1, LinksIs DEF g
    <3> QED BY <1>1, <1>2, <1>5, <1>8, <1>9, <2>1, <3>1 DEF Prepared
  <2>2. CASE r # rid
    <3>1. r \in DOMAIN items /\ f[r] = items[r]
      BY <1>1, <2>2
    <3>2. \A t \in DOMAIN items[r].links : items[r].links[t] \in Link
      BY <3>1, LinksIs DEF FilesOK, Item
    <3> QED BY <1>9, <2>2, <3>1, <3>2 DEF Linked
  <2> QED BY <2>1, <2>2
<1> QED BY <1>10 DEF Linked, f

LEMMA AgentSaves == Types /\ AgentLinks /\ SaveItem("mcp") => AgentLinks'
<1> SUFFICES ASSUME Types, AgentLinks, SaveItem("mcp") PROVE AgentLinks'
  OBVIOUS
<1> DEFINE rid == Current("mcp").rid
           item == Current("mcp").item
<1>1. call["mcp"] # <<>> /\ Current("mcp").op = "save" /\ UNCHANGED <<docs, cache>>
  BY DEF SaveItem, Doing
<1>2. /\ rid \in Rid /\ item \in Item /\ ~Sweeping(call["mcp"])
      /\ Prepared(Hierarchy, rid, item, items)
      /\ Gone(call["mcp"]) = <<>> /\ Late(call["mcp"], items) = {}
      /\ Linked(Hierarchy, items, <<>>, {})
      /\ ParentsIn(cache["mcp"]) = Hierarchy /\ ParentsIn(docs) = Hierarchy
  <2>1. ~Sweeping(call["mcp"])
    BY <1>1, AgentEffect
  <2> QED BY <1>1, <2>1, AgentEffect, EffectIs, NotSweeping DEF Working
<1>3. CASE /\ ValidItemLinks(cache["mcp"], rid, item.links)
           /\ items' = Stored(cache["mcp"], rid, item) /\ Continue("mcp", <<>>)
  <2>1. rid # <<>>
    <3>1. rid \in Rid
      BY <1>2
    <3> HIDE DEF rid, item
    <3>2. PICK p \in Prefix, n \in 1 .. MaxId : rid = <<p, n>>
      BY <3>1 DEF Rid
    <3> QED BY <3>2
  <2>2. Linked(Hierarchy, items', <<>>, {})
    <3>1. Linked(Hierarchy, Stored(cache["mcp"], rid, item), <<>>, {} \ {rid})
      <4> HIDE DEF rid, item
      <4> QED BY <1>2, <1>3, <2>1, StoringTells DEF Types
    <3> QED BY <1>3, <3>1
  <2> QED BY <1>1, <1>2, <1>3, <2>2, AgentGoesOn
<1>4. CASE Raise("mcp") /\ UNCHANGED items
  BY <1>1, <1>2, <1>4, AgentRaises
<1> QED BY <1>3, <1>4 DEF SaveItem, StoreItem

\* A bump changes no parent.
LEMMA BumpedParents ==
    ASSUME NEW D, IsDocuments(D), NEW p \in DOMAIN D, NEW E, IsDocuments(E),
           ParentsIn(E) = ParentsIn(D)
    PROVE  /\ ParentsIn([D EXCEPT ![p] = [D[p] EXCEPT !.rev = @ + 1]]) = ParentsIn(D)
           /\ ParentsIn(With(E, p, [D[p] EXCEPT !.rev = @ + 1])) = ParentsIn(D)
<1> DEFINE d == [D[p] EXCEPT !.rev = @ + 1]
           A == [D EXCEPT ![p] = d]
           B == With(E, p, d)
<1>1. d.parent = D[p].parent
  BY DEF IsDocuments, Document
<1>2. DOMAIN A = DOMAIN D /\ \A q \in DOMAIN D : A[q] = IF q = p THEN d ELSE D[q]
  OBVIOUS
<1>3. DOMAIN E = DOMAIN D /\ \A q \in DOMAIN D : E[q].parent = D[q].parent
  <2>1. \A q \in DOMAIN D : ParentsIn(E)[q] = ParentsIn(D)[q]
    OBVIOUS
  <2> QED BY <2>1, ParentsDomain DEF ParentsIn
<1>4. DOMAIN B = DOMAIN D /\ \A q \in DOMAIN D : B[q] = IF q = p THEN d ELSE E[q]
  BY <1>3 DEF With
<1> HIDE DEF d, A, B
<1>5. \A q \in DOMAIN D : A[q].parent = D[q].parent /\ B[q].parent = D[q].parent
  BY <1>1, <1>2, <1>3, <1>4
<1>6. ParentsIn(A) = ParentsIn(D) /\ ParentsIn(B) = ParentsIn(D)
  BY <1>2, <1>4, <1>5 DEF ParentsIn
<1> QED BY <1>6 DEF A, B, d

LEMMA AgentBumps == Types /\ AgentLinks /\ BumpDocument("mcp") => AgentLinks'
<1> SUFFICES ASSUME Types, AgentLinks, BumpDocument("mcp") PROVE AgentLinks'
  OBVIOUS
<1> DEFINE p == Current("mcp").prefix
           D == cache["mcp"]
           bumped == [D[p] EXCEPT !.rev = @ + 1]
<1>1. call["mcp"] # <<>> /\ Current("mcp").op = "bump" /\ UNCHANGED items
  BY DEF BumpDocument, Doing
<1>2. /\ cache' = [cache EXCEPT !["mcp"][p] = bumped] /\ docs' = With(docs, p, bumped)
      /\ Continue("mcp", <<>>)
  BY DEF BumpDocument
<1>3. p \in DOMAIN D /\ IsDocuments(D) /\ IsDocuments(docs) /\ ParentsIn(docs) = ParentsIn(D)
      /\ ParentsIn(D) = Hierarchy
  BY <1>1, AgentEffect, HeadTypes DEF Types, FilesOK, Services
<1>4. cache'["mcp"] = [D EXCEPT ![p] = bumped]
  BY <1>2 DEF Types, ServicesOK, Services
<1>5. ParentsIn(docs') = Hierarchy /\ ParentsIn(cache'["mcp"]) = Hierarchy
  <2> HIDE DEF D, p
  <2> QED BY <1>2, <1>3, <1>4, BumpedParents
<1>6. Linked(Hierarchy, items', <<>>, {})
  <2>1. ~Sweeping(call["mcp"])
    BY <1>1, AgentEffect
  <2> QED BY <1>1, <2>1, AgentEffect, NotSweeping
<1> QED BY <1>1, <1>2, <1>5, <1>6, AgentGoesOn
-------------------------------------------------------------------------------
(* Deleting, and the sweep that follows                                        *)

LEMMA LinkedMore ==
    ASSUME NEW parents, NEW f, NEW x, NEW late, NEW more, Linked(parents, f, x, late),
           \A r \in DOMAIN f : r \in late => r \in more
    PROVE  Linked(parents, f, x, more)
BY DEF Linked

\* The call goes on with a sweep of the links to rid.
LEMMA AgentSweepsOn ==
    ASSUME Types, AgentLinks, call["mcp"] # <<>>,
           NEW rid \in Rid, NEW todo \in SUBSET Prefix, NEW ids \in SUBSET Rid,
           Continue("mcp", Sweep(rid, todo, ids)), UNCHANGED <<docs, cache>>,
           rid \notin DOMAIN items', ids \subseteq DOMAIN items',
           Linked(Hierarchy, items', rid, {r \in DOMAIN items' : r[1] \in todo \/ r \in ids})
    PROVE  AgentLinks'
<1> DEFINE q == call["mcp"]
           rest == Tail(q)
           e == [op |-> "sweep", rid |-> rid, todo |-> todo, ids |-> ids]
           plan == <<e>> \o rest
<1>1. q \in Seq(Effects) /\ q # <<>> /\ \A i \in DOMAIN q : i > 1 => q[i].op = "bump"
  BY DEF Types, ServicesOK, Services, Underway, AgentLinks, Working
<1>2. OnlyBumps(rest)
  BY <1>1, LeftBumps
<1>3. call'["mcp"] = plan /\ call'["gui"] = call["gui"]
  <2>1. call' = [call EXCEPT !["mcp"] = <<e>> \o Tail(call["mcp"])]
    BY DEF Continue, Sweep
  <2> HIDE DEF e
  <2> QED BY <2>1 DEF Types, ServicesOK, Services
<1>4. e \in Effects /\ e.op = "sweep" /\ e.rid = rid /\ e.todo = todo /\ e.ids = ids
  BY DEF Effects
<1> HIDE DEF e, q, rest
<1>5. <<e>> \in Seq(Effects) /\ Len(<<e>>) = 1 /\ <<e>>[1] = e
  BY <1>4, OneEffect
<1>6. plan # <<>> /\ plan[1] = e /\ \A i \in DOMAIN plan : i > 1 => plan[i].op = "bump"
  BY <1>2, <1>5, ThenBumps
<1> HIDE DEF plan
<1>7. Sweeping(plan) /\ Working(Hierarchy, plan, items')
  BY <1>4, <1>6 DEF Sweeping, Working
<1>8. /\ Gone(plan) = rid
      /\ Late(plan, items') = {r \in DOMAIN items' : r[1] \in todo \/ r \in ids}
  BY <1>4, <1>6, <1>7 DEF Gone, Late
<1>9. ParentsIn(docs) = Hierarchy /\ ParentsIn(cache["mcp"]) = Hierarchy
  BY AgentEffect
<1> QED BY <1>3, <1>7, <1>8, <1>9 DEF AgentLinks

LEMMA AgentDeletesFile == Types /\ AgentLinks /\ DeleteFile("mcp") => AgentLinks'
<1> SUFFICES ASSUME Types, AgentLinks, DeleteFile("mcp") PROVE AgentLinks'
  OBVIOUS
<1> DEFINE rid == Current("mcp").rid
           D == cache["mcp"]
<1>1. call["mcp"] # <<>> /\ Current("mcp").op = "deleteItem" /\ UNCHANGED <<docs, cache>>
  BY DEF DeleteFile, Doing
<1>2. ~Sweeping(call["mcp"])
  BY <1>1, AgentEffect
<1>3. /\ rid \in Rid /\ Linked(Hierarchy, items, <<>>, {})
      /\ ParentsIn(D) = Hierarchy /\ ParentsIn(docs) = Hierarchy
      /\ DOMAIN D = DOMAIN Hierarchy /\ DOMAIN D \in SUBSET Prefix
  <2>1. Gone(call["mcp"]) = <<>> /\ Late(call["mcp"], items) = {}
    BY <1>2, NotSweeping
  <2> QED BY <1>1, <2>1, AgentEffect, EffectIs DEF IsDocuments
<1>4. CASE /\ items' = Without(items, rid)
           /\ Continue("mcp", Sweep(rid, DocumentsToSweep(cache["mcp"], rid), {}))
  <2>1. /\ DOMAIN items' = DOMAIN items \ {rid}
        /\ \A r \in DOMAIN items' : items'[r] = items[r]
    BY <1>4, RestrictIs DEF Without
  <2> DEFINE late == {r \in DOMAIN items' : r[1] \in DOMAIN D \/ r \in {}}
  <2>2. ASSUME NEW r \in DOMAIN items', NEW t \in DOMAIN items'[r].links
        PROVE  Tells(items'[r].links[t], t, items') \/ (t = rid /\ r \in late)
    <3>1. r \in DOMAIN items /\ items'[r] = items[r]
      BY <2>1
    <3>2. r \in late /\ Tells(items[r].links[t], t, items)
      BY <1>3, <2>1, <3>1 DEF Linked
    <3>3. CASE t # rid
      BY <2>1, <3>1, <3>2, <3>3 DEF Tells
    <3> QED BY <3>2, <3>3
  <2>3. Linked(Hierarchy, items', rid, late)
    <3> HIDE DEF late
    <3> QED BY <1>3, <2>1, <2>2 DEF Linked
  <2>4. Continue("mcp", Sweep(rid, DOMAIN D, {})) /\ rid \notin DOMAIN items'
    BY <1>4, <2>1 DEF DocumentsToSweep
  <2> HIDE DEF rid, D
  <2> QED BY <1>1, <1>3, <2>3, <2>4, AgentSweepsOn
<1>5. CASE Raise("mcp") /\ UNCHANGED items
  BY <1>1, <1>2, <1>5, AgentRaises
<1>6. CASE Continue("mcp", <<>>) /\ UNCHANGED items
  BY <1>1, <1>3, <1>6, AgentGoesOn
<1> QED BY <1>4, <1>5, <1>6 DEF DeleteFile

\* A sweep under way.
LEMMA AgentSweep ==
    ASSUME Types, AgentLinks, call["mcp"] # <<>>, Current("mcp").op = "sweep"
    PROVE  /\ Current("mcp").rid \in Rid /\ Current("mcp").rid \notin DOMAIN items
           /\ Current("mcp").todo \in SUBSET Prefix
           /\ Current("mcp").ids \in SUBSET Rid /\ Current("mcp").ids \subseteq DOMAIN items
           /\ Linked(Hierarchy, items, Current("mcp").rid,
                     {r \in DOMAIN items : r[1] \in Current("mcp").todo \/ r \in Current("mcp").ids})
<1>1. Sweeping(call["mcp"]) /\ Current("mcp") = call["mcp"][1]
  BY AgentEffect
<1>2. /\ Gone(call["mcp"]) = Current("mcp").rid
      /\ Late(call["mcp"], items) =
           {r \in DOMAIN items : r[1] \in Current("mcp").todo \/ r \in Current("mcp").ids}
  BY <1>1 DEF Gone, Late
<1> QED BY <1>1, <1>2, AgentEffect, EffectIs DEF Working

LEMMA AgentSweepsDocument == Types /\ AgentLinks /\ SweepDocument("mcp") => AgentLinks'
<1> SUFFICES ASSUME Types, AgentLinks, SweepDocument("mcp") PROVE AgentLinks'
  OBVIOUS
<1> DEFINE rid == Current("mcp").rid
           todo == Current("mcp").todo
           late == {r \in DOMAIN items : r[1] \in todo}
<1>1. /\ call["mcp"] # <<>> /\ Current("mcp").op = "sweep" /\ Current("mcp").ids = {}
      /\ UNCHANGED <<docs, items, cache>>
  BY DEF SweepDocument, Doing
<1>2. /\ rid \in Rid /\ rid \notin DOMAIN items /\ todo \in SUBSET Prefix
      /\ Linked(Hierarchy, items, rid, late)
  <2>1. late = {r \in DOMAIN items : r[1] \in Current("mcp").todo \/ r \in Current("mcp").ids}
    BY <1>1
  <2> QED BY <1>1, <2>1, AgentSweep
<1>3. ASSUME NEW p \in todo, Continue("mcp", Sweep(rid, todo \ {p}, RidsOf(p)))
      PROVE  AgentLinks'
  <2>1. /\ RidsOf(p) \in SUBSET Rid /\ RidsOf(p) \subseteq DOMAIN items
        /\ todo \ {p} \in SUBSET Prefix
    BY <1>2 DEF RidsOf, Types, FilesOK
  <2>2. late = {r \in DOMAIN items' : r[1] \in todo \ {p} \/ r \in RidsOf(p)}
    BY <1>1 DEF RidsOf
  <2>3. Linked(Hierarchy, items', rid, late) /\ rid \notin DOMAIN items'
    BY <1>1, <1>2
  <2>4. RidsOf(p) \subseteq DOMAIN items'
    BY <1>1, <2>1
  <2> DEFINE ids == RidsOf(p)
             left == todo \ {p}
  <2>5. /\ Linked(Hierarchy, items', rid, {r \in DOMAIN items' : r[1] \in left \/ r \in ids})
        /\ Continue("mcp", Sweep(rid, left, ids)) /\ ids \subseteq DOMAIN items'
        /\ ids \in SUBSET Rid /\ left \in SUBSET Prefix
    BY <1>3, <2>1, <2>2, <2>3, <2>4
  <2> HIDE DEF rid, ids, left, late, todo
  <2> QED BY <1>1, <1>2, <2>3, <2>5, AgentSweepsOn
<1>4. CASE todo = {} /\ Continue("mcp", <<>>)
  <2>1. Linked(Hierarchy, items', <<>>, {})
    BY <1>1, <1>2, <1>4 DEF Linked
  <2>2. ParentsIn(docs') = Hierarchy /\ ParentsIn(cache'["mcp"]) = Hierarchy
    BY <1>1, AgentEffect
  <2> QED BY <1>1, <1>4, <2>1, <2>2, AgentGoesOn
<1> QED BY <1>1, <1>3, <1>4 DEF SweepDocument

LEMMA AgentSweepsItem == Types /\ AgentLinks /\ SweptAtOnce("mcp") => AgentLinks'
<1> SUFFICES ASSUME Types, AgentLinks, SweptAtOnce("mcp") PROVE AgentLinks'
  OBVIOUS
<1> DEFINE target == Current("mcp").rid
           todo == Current("mcp").todo
           ids == Current("mcp").ids
           D == cache["mcp"]
           late == {r \in DOMAIN items : r[1] \in todo \/ r \in ids}
<1>1. /\ call["mcp"] # <<>> /\ Current("mcp").op = "sweep" /\ UNCHANGED <<docs, cache>>
  BY DEF SweptAtOnce, Doing
<1>2. /\ target \in Rid /\ target \notin DOMAIN items /\ todo \in SUBSET Prefix
      /\ ids \in SUBSET Rid /\ ids \subseteq DOMAIN items
      /\ Linked(Hierarchy, items, target, late)
      /\ ParentsIn(D) = Hierarchy /\ DOMAIN D = DOMAIN Hierarchy
  BY <1>1, AgentSweep, AgentEffect
<1>3. PICK r \in ids :
         LET linked == r \in DOMAIN items /\ target \in DOMAIN items[r].links
             kept == Without(items[r].links, target)
             next == Sweep(target, todo, ids \ {r})
         IN
         \/ ~linked /\ Continue("mcp", next) /\ UNCHANGED items
         \/ /\ linked /\ ValidItemLinks(D, r, kept)
            /\ items' = Stored(D, r, [items[r] EXCEPT !.links = kept])
            /\ Continue("mcp", next)
         \/ r \notin DOMAIN items \/ (linked /\ ~ValidItemLinks(D, r, kept))
  BY DEF SweptAtOnce
<1> DEFINE kept == Without(items[r].links, target)
           item == [items[r] EXCEPT !.links = kept]
           left == ids \ {r}
<1>4. /\ r \in DOMAIN items /\ r \in Rid /\ items[r] \in Item /\ items[r].links \in LinkMaps
      /\ items[r].rev > None /\ r[1] \in DOMAIN Hierarchy /\ r # target
      /\ Acceptable(Hierarchy, r, items[r].links)
  BY <1>2 DEF Linked, Types, FilesOK, Item
<1>5. /\ DOMAIN kept = DOMAIN items[r].links \ {target}
      /\ \A t \in DOMAIN kept : kept[t] = items[r].links[t]
  BY RestrictIs DEF Without
<1>6. kept \in LinkMaps
  BY <1>4, LinksWithout
<1> HIDE DEF kept
<1>7. \A t \in DOMAIN kept : Tells(kept[t], t, items)
  BY <1>2, <1>4, <1>5 DEF Linked
<1>8. target \in DOMAIN items[r].links => r \notin DOMAIN kept
  BY <1>4, <1>5 DEF Acceptable
<1>9. left \in SUBSET Rid
  BY <1>2
<1>10. CASE /\ target \notin DOMAIN items[r].links
            /\ Continue("mcp", Sweep(target, todo, left)) /\ UNCHANGED items
  <2> DEFINE rest == {z \in DOMAIN items' : z[1] \in todo \/ z \in left}
  <2>1. ASSUME NEW z \in DOMAIN items, NEW t \in DOMAIN items[z].links
        PROVE  Tells(items[z].links[t], t, items) \/ (t = target /\ z \in rest)
    <3>1. Tells(items[z].links[t], t, items) \/ (t = target /\ z \in late)
      BY <1>2 DEF Linked
    <3>2. z # r /\ z \in late => z \in rest
      BY <1>10
    <3> QED BY <1>10, <3>1, <3>2, <1>5, <1>7
  <2>2. Linked(Hierarchy, items', target, rest)
    <3> HIDE DEF rest, late
    <3> QED BY <1>2, <1>10, <2>1 DEF Linked
  <2>3. target \notin DOMAIN items' /\ left \subseteq DOMAIN items'
    BY <1>2, <1>10
  <2>4. Continue("mcp", Sweep(target, todo, left))
    BY <1>10
  <2> HIDE DEF target, todo, left
  <2> QED BY <1>1, <1>2, <1>9, <2>2, <2>3, <2>4, AgentSweepsOn
<1>11. CASE /\ target \in DOMAIN items[r].links /\ ValidItemLinks(D, r, kept)
            /\ items' = Stored(D, r, item) /\ Continue("mcp", Sweep(target, todo, left))
  <2>1. /\ item \in Item /\ item.links = kept /\ item.rev = items[r].rev
        /\ Seen(item) = Seen(items[r])
    <3>1. item \in Item
      BY <1>4, <1>6, ItemLinks
    <3> QED BY <1>4, <3>1 DEF Item, Seen
  <2> HIDE DEF item
  <2>2. item.rev \in Nat
    BY <2>1 DEF Item
  <2>3. Prepared(Hierarchy, r, item, items)
    BY <1>4, <1>7, <1>8, <1>11, <2>1, <2>2 DEF Prepared
  <2>4. Linked(Hierarchy, Stored(D, r, item), target, late \ {r})
    <3>1. ValidItemLinks(D, r, item.links)
      BY <1>11, <2>1
    <3> HIDE DEF late, target, D
    <3> QED BY <1>2, <1>4, <2>1, <2>3, <3>1, StoringTells DEF Types
  <2>5. DOMAIN items' = DOMAIN items
    BY <1>4, <1>11 DEF Stored
  <2> DEFINE rest == {z \in DOMAIN items' : z[1] \in todo \/ z \in left}
  <2>6. Linked(Hierarchy, items', target, rest)
    <3>1. \A z \in DOMAIN items' : z \in late \ {r} => z \in rest
      BY <2>5
    <3>2. Linked(Hierarchy, items', target, late \ {r})
      BY <1>11, <2>4
    <3> HIDE DEF rest, late
    <3> QED BY <3>1, <3>2, LinkedMore
  <2>7. target \notin DOMAIN items' /\ left \subseteq DOMAIN items'
    BY <1>2, <2>5
  <2>8. Continue("mcp", Sweep(target, todo, left))
    BY <1>11
  <2> HIDE DEF target, todo, left
  <2> QED BY <1>1, <1>2, <1>9, <2>6, <2>7, <2>8, AgentSweepsOn
<1>12. ASSUME target \in DOMAIN items[r].links, ~ValidItemLinks(D, r, kept) PROVE FALSE
  <2>1. ASSUME NEW t \in DOMAIN kept
        PROVE  /\ t # r /\ t[1] \in DOMAIN D /\ t[1] \in Chain(Hierarchy, r[1])
               /\ t \notin DOMAIN items => kept[t].suspect
    BY <1>2, <1>4, <1>5, <1>7, <1>8, <1>12 DEF Acceptable, Tells
  <2> QED BY <1>2, <1>12, <2>1 DEF ValidItemLinks, IsAncestor
<1> QED BY <1>3, <1>4, <1>10, <1>11, <1>12 DEF kept

-------------------------------------------------------------------------------
(* The agent alone: links tell the truth                                       *)

\* The links of the directory the agent starts with tell the truth, and are ones
\* that save_item accepts.
StartsTrue == Linked(Hierarchy, InitialItems, <<>>, {})

LEMMA AgentInit == StartsTrue /\ Init => AgentLinks
<1> SUFFICES ASSUME StartsTrue, Init PROVE AgentLinks
  OBVIOUS
<1>1. /\ docs = InitialDocs /\ items = InitialItems /\ call["gui"] = <<>>
      /\ call["mcp"] = <<>> /\ cache["mcp"] = NotLoaded
  BY DEF Init, Services
<1>2. ~Sweeping(<<>>) /\ Working(Hierarchy, <<>>, items)
  BY NoBumps, BumpsWork
<1>3. Gone(<<>>) = <<>> /\ Late(<<>>, items) = {}
  BY <1>2 DEF Gone, Late
<1> QED BY <1>1, <1>2, <1>3 DEF AgentLinks, StartsTrue, Hierarchy

\* The GUI is idle, and stays so.
LEMMA NoUser == AgentAlone /\ User => FALSE
<1> SUFFICES ASSUME AgentAlone, User PROVE FALSE
  OBVIOUS
<1>1. ASSUME NEW e \in Editors, OpenEditor(e) \/ NewRequirement(e) \/ SaveEditor(e)
      PROVE  FALSE
  BY <1>1 DEF OpenEditor, NewRequirement, SaveEditor, Begin, AgentAlone
<1>2. ASSUME CloneRequirement PROVE FALSE
  BY <1>2 DEF CloneRequirement, Begin, AgentAlone
<1>3. ASSUME CopyRequirement PROVE FALSE
  BY <1>3 DEF CopyRequirement, Begin, AgentAlone
<1>4. ASSUME MoveRequirement PROVE FALSE
  BY <1>4, ZenonT(60) DEF MoveRequirement, Begin, AgentAlone
<1>5. ASSUME DeleteRequirement("delete", "gui") PROVE FALSE
  BY <1>5 DEF DeleteRequirement, Begin, AgentAlone
<1>6. ASSUME CreateDocument PROVE FALSE
  BY <1>6 DEF CreateDocument, Begin, AgentAlone
<1>7. ASSUME ReparentDocument PROVE FALSE
  BY <1>7 DEF ReparentDocument, Begin, AgentAlone
<1>8. ASSUME DeleteDocument PROVE FALSE
  BY <1>8 DEF DeleteDocument, Begin, AgentAlone
<1> QED BY <1>1, <1>2, <1>3, <1>4, <1>5, <1>6, <1>7, <1>8 DEF User

LEMMA NoGuiEffect == AgentLinks /\ Effect("gui") => FALSE
BY DEF AgentLinks, Effect, SaveItem, BumpDocument, DeleteFile, SweepDocument, SweepItem, SweepSave,
       UnlinkFile, SaveDocument, DropContents, RemoveDirectory, RefreshDocuments,
       EditorSaved, Doing

LEMMA AgentEffects == Types /\ SweptOK /\ Undisturbed /\ AgentLinks /\ Effect("mcp") => AgentLinks'
<1> SUFFICES ASSUME Types, SweptOK, Undisturbed, AgentLinks, Effect("mcp") PROVE AgentLinks'
  OBVIOUS
<1>1. ASSUME \/ UnlinkFile("mcp") \/ SaveDocument("mcp") \/ DropContents("mcp")
             \/ RemoveDirectory("mcp") \/ RefreshDocuments("mcp") \/ EditorSaved("mcp")
      PROVE  FALSE
  <2>1. /\ call["mcp"] # <<>>
        /\ Current("mcp").op \in {"unlink", "writeDocument", "dropDocument", "removeTree",
                                  "refresh", "closeEditor"}
    BY <1>1 DEF UnlinkFile, SaveDocument, DropContents, RemoveDirectory, RefreshDocuments,
                EditorSaved, Doing
  <2>2. Current("mcp").op \in {"save", "bump", "deleteItem", "sweep"}
    BY <2>1, AgentEffect
  <2> QED BY <2>1, <2>2
<1>2. CASE SweepItem("mcp") \/ SweepSave("mcp")
  BY <1>2, SweepsAtOnce, AgentSweepsItem DEF AgentLinks, Services
<1> QED BY <1>1, <1>2, AgentSaves, AgentBumps, AgentDeletesFile, AgentSweepsDocument DEF Effect

LEMMA AgentStep ==
    AgentAlone /\ Types /\ SweptOK /\ Undisturbed /\ AgentLinks /\ [Next]_vars => AgentLinks'
<1> SUFFICES ASSUME AgentAlone, Types, SweptOK, Undisturbed, AgentLinks, [Next]_vars
             PROVE  AgentLinks'
  OBVIOUS
<1>1. CASE Tool
  BY <1>1, AgentCreates, AgentUpdates, AgentSetsLinks, AgentLinksUp, AgentDeletes,
     AgentLists DEF Tool
<1>2. CASE User
  BY <1>2, NoUser
<1>3. ASSUME NEW s \in Services, Effect(s) PROVE AgentLinks'
  BY <1>3, AgentEffects, NoGuiEffect DEF Services
<1>4. CASE UNCHANGED vars
  BY <1>4 DEF vars, AgentLinks
<1> QED BY <1>1, <1>2, <1>3, <1>4 DEF Next

LEMMA AgentTruth == Types /\ AgentLinks => TraceTruth
<1> SUFFICES ASSUME Types, AgentLinks, NEW r \in DOMAIN items,
                    NEW t \in DOMAIN items[r].links \cap DOMAIN items,
                    items[r].links[t].rev = items[t].rev
             PROVE  items[r].links[t].seen = Seen(items[t])
  BY DEF TraceTruth
<1>1. Tells(items[r].links[t], t, items)
  <2>1. t # Gone(call["mcp"])
    BY DEF AgentLinks, Working, Gone, Sweeping, Types, FilesOK, Rid
  <2> QED BY <2>1 DEF AgentLinks, Linked
<1>2. items[t].rev # None /\ items[t].rev \in Nat
  BY DEF AgentLinks, Linked, None, Types, FilesOK, Item
<1> QED BY <1>1, <1>2 DEF Tells

\* In a store that only the agent's tools change, a link that will be shown as sound
\* was made when its target was this requirement with this statement, in every state
\* of every number of creations, edits, links and deletions: a deletion leaves no
\* link with a revision that the next owner of the number could reach.
THEOREM LinksTellTheTruth ==
    ASSUME AgentAlone, StartsTrue
    PROVE  Spec => []TraceTruth
<1>1. Init => AgentLinks
  BY AgentInit
<1>2. Types /\ SweptOK /\ Undisturbed /\ AgentLinks /\ [Next]_vars => AgentLinks'
  BY AgentStep
<1>3. Types /\ AgentLinks => TraceTruth
  BY AgentTruth
<1>4. Spec => []Undisturbed
  BY AlwaysUndisturbed DEF AgentAlone, OneHand, Touches, Removes, Copying, Services
<1> QED BY <1>1, <1>2, <1>3, <1>4, AlwaysTypes, PTL DEF Spec

-------------------------------------------------------------------------------
(* A new statement raises the revision                                         *)

\* One editor window, and no other operation takes a revision along to a new place.
OneEditor == /\ \A d, e \in Editors : d = e
             /\ Uses \cap (Creating \cup {"copy", "move"}) = {}
Storer == IF OneEditor THEN "gui" ELSE Writer
StartsRevised == \A r \in DOMAIN InitialItems : InitialItems[r].rev > 0

Revised(f) == \A r \in DOMAIN f : f[r].rev > 0

\* Each save of the plan q is a later version of what it replaces, and saves of one
\* file agree.
Orderly(q, f) ==
    \A i \in DOMAIN q : q[i].op = "save" =>
        /\ q[i].item.rev > 0
        /\ q[i].rid \in DOMAIN f => Follows(q[i].item, f[q[i].rid])
        /\ \A j \in DOMAIN q : q[j].op = "save" /\ q[j].rid = q[i].rid =>
                  q[j].item.rev = q[i].item.rev /\ q[j].item.text = q[i].item.text

\* All that is left of the plan q is to close the window e, perhaps after a bump.
Closes(q, e) ==
    /\ \E i \in DOMAIN q : q[i].op = "closeEditor" /\ q[i].editor = e
    /\ \A i \in DOMAIN q : q[i].op \in {"bump", "closeEditor"}

\* The window e holds h: what is no older than the file and the saves of the plan q,
\* or q closes it.
UpToDate(q, e, h, f) ==
    /\ h.item.rev > 0
    /\ \/ Closes(q, e)
       \/ /\ h.rid \in DOMAIN f => f[h.rid].rev <= h.item.rev
          /\ \/ \A i \in DOMAIN q : q[i].op = "save" /\ q[i].rid = h.rid =>
                                       q[i].item.rev <= h.item.rev
             \/ q # <<>> /\ q[1].op = "save" /\ Closes(Tail(q), e)

Rising ==
    /\ Revised(items)
    /\ Orderly(call[Storer], items)
    /\ \A s \in Services : s # Storer => ReadOnly(call[s])
    /\ \A e \in Editors : editor[e] # <<>> =>
          OneEditor /\ UpToDate(call["gui"], e, editor[e][1], items)

NoSaves(q) == \A i \in DOMAIN q : q[i].op # "save"

LEMMA StorerIs ==
    ASSUME OneWriter \/ OneEditor
    PROVE  /\ Storer \in Services
           /\ \A op \in Creating : op \in Uses => Storer = "mcp"
           /\ \A op \in Copying : op \in Uses => Storer = "gui"
           /\ \A op \in {"edit", "new"} : op \in Uses => OneEditor /\ Storer = "gui"
           /\ \A op \in {"copy", "move"} : op \in Uses => ~OneEditor
<1>1. Storer \in Services
  BY DEF Storer, Writer, Services
<1>2. ASSUME NEW op \in Creating, op \in Uses PROVE Storer = "mcp"
  <2>1. ~OneEditor
    BY <1>2 DEF OneEditor
  <2> QED BY <1>2, <2>1, WhoWrites DEF Storer
<1>3. ASSUME NEW op \in Copying, op \in Uses PROVE Storer = "gui"
  BY <1>3, WhoWrites DEF Storer
<1>4. ASSUME NEW op \in {"edit", "new"}, op \in Uses PROVE OneEditor /\ Storer = "gui"
  BY <1>4 DEF OneWriter, Storer
<1>5. ASSUME NEW op \in {"copy", "move"}, op \in Uses PROVE ~OneEditor
  BY <1>5 DEF OneEditor
<1> QED BY <1>1, <1>2, <1>3, <1>4, <1>5

LEMMA NothingOrderly == \A f : Orderly(<<>>, f) /\ NoSaves(<<>>)
<1>1. DOMAIN <<>> = {}
  OBVIOUS
<1> QED BY <1>1 DEF Orderly, NoSaves

LEMMA ReadingOrderly ==
    ASSUME NEW q, ReadOnly(q)
    PROVE  NoSaves(q) /\ \A f : Orderly(q, f)
BY DEF ReadOnly, NoSaves, Orderly

\* A plan that goes on with effects that save nothing.
LEMMA OrderlyMore ==
    ASSUME NEW a \in Seq(Effects), NEW b \in Seq(Effects), NoSaves(b), NEW f, Orderly(a, f)
    PROVE  a \o b \in Seq(Effects) /\ Orderly(a \o b, f)
<1> DEFINE c == a \o b
<1>1. c \in Seq(Effects) /\ \A i \in DOMAIN c : c[i].op = "save" => i \in DOMAIN a /\ c[i] = a[i]
  BY Joined DEF NoSaves
<1> HIDE DEF c
<1>2. Orderly(c, f)
  BY <1>1 DEF Orderly
<1> QED BY <1>1, <1>2 DEF c

LEMMA OrderlySave ==
    ASSUME NEW rid \in Rid, NEW item \in Item, item.rev > 0, NEW f,
           rid \in DOMAIN f => Follows(item, f[rid])
    PROVE  Save(rid, item) \in Seq(Effects) /\ Orderly(Save(rid, item), f)
<1> DEFINE q == Save(rid, item)
<1>1. q \in Seq(Effects) /\ DOMAIN q = {1} /\ q[1].rid = rid /\ q[1].item = item
  BY SaveIs
<1> HIDE DEF q
<1>2. Orderly(q, f)
  BY <1>1 DEF Orderly
<1> QED BY <1>1, <1>2 DEF q

\* Files that stay keep their revision and statement.
Fades(f, g) ==
    /\ DOMAIN g \subseteq DOMAIN f
    /\ \A r \in DOMAIN g : g[r].rev = f[r].rev /\ g[r].text = f[r].text

LEMMA FadesSame == ASSUME UNCHANGED items PROVE Fades(items, items')
BY DEF Fades

LEMMA OrderlyRest ==
    ASSUME NEW q, NEW c, NEW n, Remains(q, c, n), NEW f, Orderly(q, f), NEW g, Fades(f, g)
    PROVE  Orderly(c, g)
<1>1. \A i \in DOMAIN c : c[i].op = "save" => \E k \in DOMAIN q : c[i] = q[k]
  BY DEF Remains
<1>2. ASSUME NEW i \in DOMAIN c, c[i].op = "save"
      PROVE  /\ c[i].item.rev > 0
             /\ c[i].rid \in DOMAIN g => Follows(c[i].item, g[c[i].rid])
             /\ \A j \in DOMAIN c : c[j].op = "save" /\ c[j].rid = c[i].rid =>
                       c[j].item.rev = c[i].item.rev /\ c[j].item.text = c[i].item.text
  <2>1. PICK k \in DOMAIN q : c[i] = q[k]
    BY <1>1, <1>2
  <2>2. c[i].item.rev > 0 /\ (c[i].rid \in DOMAIN g => Follows(c[i].item, g[c[i].rid]))
    BY <1>2, <2>1 DEF Orderly, Fades, Follows
  <2>3. ASSUME NEW j \in DOMAIN c, c[j].op = "save", c[j].rid = c[i].rid
        PROVE  c[j].item.rev = c[i].item.rev /\ c[j].item.text = c[i].item.text
    <3>1. PICK m \in DOMAIN q : c[j] = q[m]
      BY <1>1, <2>3
    <3> QED BY <1>2, <2>1, <2>3, <3>1 DEF Orderly
  <2> QED BY <2>2, <2>3
<1> QED BY <1>2 DEF Orderly

\* A save has been performed.
LEMMA OrderlySaved ==
    ASSUME NEW q, NEW c, NEW n, Remains(q, c, n), q[1].op = "save", q[1].item.rev \in Nat,
           NEW f, Orderly(q, f), Revised(f), NEW g,
           DOMAIN g = DOMAIN f \cup {q[1].rid},
           g[q[1].rid].rev = q[1].item.rev, g[q[1].rid].text = q[1].item.text,
           \A r \in DOMAIN f : r # q[1].rid => g[r] = f[r]
    PROVE  Orderly(c, g) /\ Revised(g)
<1>1. \A i \in DOMAIN c : c[i].op = "save" => \E k \in DOMAIN q : c[i] = q[k]
  BY DEF Remains
<1>2. 1 \in DOMAIN q
  BY DEF Remains
<1>3. ASSUME NEW i \in DOMAIN c, c[i].op = "save"
      PROVE  /\ c[i].item.rev > 0
             /\ c[i].rid \in DOMAIN g => Follows(c[i].item, g[c[i].rid])
             /\ \A j \in DOMAIN c : c[j].op = "save" /\ c[j].rid = c[i].rid =>
                       c[j].item.rev = c[i].item.rev /\ c[j].item.text = c[i].item.text
  <2>1. PICK k \in DOMAIN q : c[i] = q[k]
    BY <1>1, <1>3
  <2>2. c[i].item.rev > 0
    BY <1>3, <2>1 DEF Orderly
  <2>3. ASSUME c[i].rid = q[1].rid PROVE Follows(c[i].item, g[c[i].rid])
    <3>1. c[i].item.rev = q[1].item.rev /\ c[i].item.text = q[1].item.text
      BY <1>2, <1>3, <2>1, <2>3 DEF Orderly
    <3> QED BY <2>3, <3>1 DEF Follows
  <2>4. ASSUME c[i].rid # q[1].rid, c[i].rid \in DOMAIN g PROVE Follows(c[i].item, g[c[i].rid])
    BY <1>3, <2>1, <2>4 DEF Orderly
  <2>5. ASSUME NEW j \in DOMAIN c, c[j].op = "save", c[j].rid = c[i].rid
        PROVE  c[j].item.rev = c[i].item.rev /\ c[j].item.text = c[i].item.text
    <3>1. PICK m \in DOMAIN q : c[j] = q[m]
      BY <1>1, <2>5
    <3> QED BY <1>3, <2>1, <2>5, <3>1 DEF Orderly
  <2> QED BY <2>2, <2>3, <2>4, <2>5
<1>4. Revised(g)
  BY <1>2 DEF Revised, Orderly
<1> QED BY <1>3, <1>4 DEF Orderly

\* The window while the plan goes on.
LEMMA UpToDateRest ==
    ASSUME NEW q, NEW c, NEW n, Remains(q, c, n), q[1].op # "save", NEW e, NEW h, NEW f,
           UpToDate(q, e, h, f), NEW g, Fades(f, g), Closes(q, e) => Closes(c, e)
    PROVE  UpToDate(c, e, h, g)
<1>1. \A i \in DOMAIN c : c[i].op = "save" => \E k \in DOMAIN q : c[i] = q[k]
  BY DEF Remains
<1>2. h.item.rev > 0
  BY DEF UpToDate
<1>3. ASSUME ~Closes(q, e)
      PROVE  /\ h.rid \in DOMAIN g => g[h.rid].rev <= h.item.rev
             /\ \A i \in DOMAIN c : c[i].op = "save" /\ c[i].rid = h.rid => c[i].item.rev <= h.item.rev
  <2>1. h.rid \in DOMAIN f => f[h.rid].rev <= h.item.rev
    BY <1>3 DEF UpToDate
  <2>2. \A i \in DOMAIN q : q[i].op = "save" /\ q[i].rid = h.rid => q[i].item.rev <= h.item.rev
    BY <1>3 DEF UpToDate
  <2> QED BY <1>1, <2>1, <2>2 DEF Fades
<1> QED BY <1>2, <1>3 DEF UpToDate

LEMMA ClosesTail ==
    ASSUME NEW q \in Seq(Effects), q # <<>>, NEW e, Closes(q, e),
           q[1].op = "closeEditor" => q[1].editor # e
    PROVE  Closes(<<>> \o Tail(q), e)
<1> DEFINE c == <<>> \o Tail(q)
<1>1. <<>> \in Seq(Effects) /\ Len(<<>>) = 0 /\ DOMAIN <<>> = {} /\ DOMAIN q \subseteq Nat \ {0}
  OBVIOUS
<1>2. /\ \A i \in DOMAIN c : \E k \in DOMAIN q : c[i] = q[k]
      /\ \A k \in DOMAIN q : k > 1 => \E i \in DOMAIN c : c[i] = q[k]
  <2>1. \A k \in DOMAIN q : k > 1 => k + Len(<<>>) - 1 \in DOMAIN c /\ c[k + Len(<<>>) - 1] = q[k]
    BY <1>1, RestIndex
  <2>2. \A i \in DOMAIN c : i - Len(<<>>) + 1 \in DOMAIN q /\ c[i] = q[i - Len(<<>>) + 1]
    BY <1>1, LeftOver
  <2> QED BY <2>1, <2>2
<1> HIDE DEF c
<1>3. PICK k \in DOMAIN q : q[k].op = "closeEditor" /\ q[k].editor = e
  BY DEF Closes
<1>4. k > 1
  <2>1. k # 1
    BY <1>3
  <2> QED BY <1>1, <2>1
<1>5. Closes(c, e)
  BY <1>2, <1>3, <1>4 DEF Closes
<1> QED BY <1>5 DEF c

\* A call that begins finds its service idle, so that a window is no older than the files.
Fresh(h, f) == h.item.rev > 0 /\ (h.rid \in DOMAIN f => f[h.rid].rev <= h.item.rev)

LEMMA IdleFresh ==
    ASSUME NEW e, NEW h, NEW f, UpToDate(<<>>, e, h, f)
    PROVE  Fresh(h, f)
<1>1. DOMAIN <<>> = {}
  OBVIOUS
<1>2. ~Closes(<<>>, e)
  BY <1>1 DEF Closes
<1> QED BY <1>2 DEF UpToDate, Fresh

LEMMA FreshUpToDate ==
    ASSUME NEW h, NEW f, Fresh(h, f), NEW q, NEW e,
           \A i \in DOMAIN q : q[i].op = "save" => q[i].item.rev <= h.item.rev
    PROVE  UpToDate(q, e, h, f)
BY DEF Fresh, UpToDate

\* The state after a step that leaves the plan c to the service s.
LEMMA RisingFrom ==
    ASSUME Types, Rising, NEW s \in Services, NEW c, call' = [call EXCEPT ![s] = c],
           OneWriter \/ OneEditor, Revised(items'),
           s = Storer => Orderly(c, items'),
           s # Storer => ReadOnly(c) /\ Orderly(call[Storer], items'),
           \A e \in Editors : editor'[e] # <<>> =>
               /\ OneEditor
               /\ s = "gui" => UpToDate(c, e, editor'[e][1], items')
               /\ s # "gui" => UpToDate(call["gui"], e, editor'[e][1], items')
    PROVE  Rising'
<1>1. call'[s] = c /\ \A z \in Services : z # s => call'[z] = call[z]
  BY DEF Types, ServicesOK
<1>2. Storer \in Services /\ "gui" \in Services
  BY StorerIs DEF Services
<1>3. Orderly(call'[Storer], items')
  BY <1>1, <1>2
<1>4. \A z \in Services : z # Storer => ReadOnly(call'[z])
  BY <1>1 DEF Rising
<1>5. \A e \in Editors : editor'[e] # <<>> =>
         OneEditor /\ UpToDate(call'["gui"], e, editor'[e][1], items')
  BY <1>1, <1>2
<1> QED BY <1>3, <1>4, <1>5 DEF Rising

LEMMA RisingBegin ==
    ASSUME Types, Rising, OneWriter \/ OneEditor, NEW s \in Services, NEW op, NEW D, NEW plan,
           Begin(op, s, D, plan), UNCHANGED editor,
           s = Storer => Orderly(plan, items), s # Storer => ReadOnly(plan),
           s = "gui" => \A e \in Editors : editor[e] # <<>> /\ OneEditor /\ Fresh(editor[e][1], items) =>
                            UpToDate(plan, e, editor[e][1], items)
    PROVE  Rising'
<1>1. call' = [call EXCEPT ![s] = plan] /\ items' = items /\ editor' = editor /\ call[s] = <<>>
  BY DEF Begin
<1>2. ASSUME NEW e \in Editors, editor[e] # <<>>
      PROVE  /\ OneEditor
             /\ s = "gui" => UpToDate(plan, e, editor[e][1], items)
             /\ s # "gui" => UpToDate(call["gui"], e, editor[e][1], items)
  <2>1. OneEditor /\ UpToDate(call["gui"], e, editor[e][1], items)
    BY <1>2 DEF Rising
  <2>2. s = "gui" => Fresh(editor[e][1], items)
    BY <1>1, <2>1, IdleFresh
  <2> QED BY <1>2, <2>1, <2>2
<1>3. Revised(items) /\ Orderly(call[Storer], items)
  BY DEF Rising
<1> QED BY <1>1, <1>2, <1>3, RisingFrom

LEMMA RisingBeginReading ==
    ASSUME Types, Rising, OneWriter \/ OneEditor, NEW s \in Services, NEW op, NEW D, NEW plan,
           Begin(op, s, D, plan), UNCHANGED editor, ReadOnly(plan)
    PROVE  Rising'
<1>1. NoSaves(plan) /\ Orderly(plan, items)
  BY ReadingOrderly
<1>2. \A e \in Editors : editor[e] # <<>> /\ OneEditor /\ Fresh(editor[e][1], items) =>
          UpToDate(plan, e, editor[e][1], items)
  BY <1>1, FreshUpToDate DEF NoSaves
<1> QED BY <1>1, <1>2, RisingBegin

\* A call that saves one item and reads on.
LEMMA RisingBeginStore ==
    ASSUME Types, Rising, OneWriter \/ OneEditor, NEW s \in Services, NEW op, NEW D, s = Storer,
           NEW rid \in Rid, NEW item \in Item, item.rev > 0,
           rid \in DOMAIN items => Follows(item, items[rid]),
           NEW more \in Seq(Effects), ReadOnly(more),
           Begin(op, s, D, Save(rid, item) \o more), UNCHANGED editor,
           OneEditor => item.rev = 1
    PROVE  Rising'
<1> DEFINE a == Save(rid, item)
           plan == a \o more
<1>1. /\ a \in Seq(Effects) /\ Orderly(a, items) /\ DOMAIN a = {1} /\ a[1].item = item
      /\ NoSaves(more)
  BY OrderlySave, SaveIs, ReadingOrderly
<1> HIDE DEF a
<1>2. Orderly(plan, items)
  BY <1>1, OrderlyMore
<1>3. \A i \in DOMAIN plan : plan[i].op = "save" => plan[i].item = item
  <2>1. \A i \in DOMAIN plan : \/ i \in DOMAIN a /\ plan[i] = a[i]
                               \/ \E j \in DOMAIN more : plan[i] = more[j]
    BY <1>1, Joined
  <2> QED BY <1>1, <2>1 DEF NoSaves
<1>4. Begin(op, s, D, plan)
  BY DEF a
<1> HIDE DEF plan
<1>5. ASSUME NEW e \in Editors, editor[e] # <<>>, OneEditor, Fresh(editor[e][1], items)
      PROVE  UpToDate(plan, e, editor[e][1], items)
  <2> DEFINE h == editor[e][1]
  <2>1. h.item.rev \in Nat
    <3>1. editor[e] \in Seq([rid : Rid, item : Item])
      BY DEF Types, Held
    <3>2. h \in [rid : Rid, item : Item]
      BY <1>5, <3>1, FirstOf
    <3> QED BY <3>2 DEF Item
  <2>2. item.rev <= h.item.rev
    BY <1>5, <2>1 DEF Fresh
  <2> HIDE DEF h
  <2>3. \A i \in DOMAIN plan : plan[i].op = "save" => plan[i].item.rev <= h.item.rev
    BY <1>3, <2>2
  <2>4. Fresh(h, items)
    BY <1>5 DEF h
  <2>5. UpToDate(plan, e, h, items)
    BY <2>3, <2>4, FreshUpToDate
  <2> QED BY <2>5 DEF h
<1> QED BY <1>2, <1>4, <1>5, RisingBegin

\* The revision of an item on disk, or of one that a window holds, is a number above 0.
LEMMA HeldType ==
    ASSUME Types, NEW e \in Editors, editor[e] # <<>>
    PROVE  editor[e][1].rid \in Rid /\ editor[e][1].item \in Item
<1>1. editor[e] \in Seq([rid : Rid, item : Item])
  BY DEF Types, Held
<1>2. editor[e][1] \in [rid : Rid, item : Item]
  BY <1>1, FirstOf
<1> QED BY <1>2

LEMMA FollowsRevised ==
    ASSUME Types, Rising, NEW rid \in DOMAIN items, NEW item \in Item, Follows(item, items[rid])
    PROVE  item.rev > 0
<1>1. items[rid].rev \in Nat /\ items[rid].rev > 0 /\ item.rev \in Nat
  BY DEF Types, FilesOK, Item, Rising, Revised
<1> QED BY <1>1 DEF Follows

LEMMA RisingToolCreate == Types /\ Rising /\ (OneWriter \/ OneEditor) /\ ToolCreate => Rising'
<1> SUFFICES ASSUME Types, Rising, OneWriter \/ OneEditor, ToolCreate PROVE Rising'
  OBVIOUS
<1> DEFINE D == EnsureDocuments("mcp")
<1>1. PICK rid \in Rid, item \in Item :
        /\ rid \notin DOMAIN items /\ item.rev = 1
        /\ Begin("tool_create", "mcp", D, CreatePlan(rid, item)) /\ UNCHANGED editor
  BY ToolCreateIs
<1> HIDE DEF D
<1>2. "mcp" \in Services /\ "mcp" = Storer
  BY <1>1, StorerIs DEF Begin, Services, Creating
<1>3. Bump(rid[1]) \in Seq(Effects) /\ ReadOnly(Bump(rid[1]))
  BY PlanTypes, ReadOnlyPlans DEF Rid
<1>4. Begin("tool_create", "mcp", D, Save(rid, item) \o Bump(rid[1]))
  BY <1>1 DEF CreatePlan
<1>5. item.rev > 0
  BY <1>1
<1> QED BY <1>1, <1>2, <1>3, <1>4, <1>5, RisingBeginStore

\* The tools change items where no window is open.
LEMMA ToolsAlone ==
    ASSUME NEW op \in Creating, op \in Uses
    PROVE  ~OneEditor
BY DEF OneEditor

LEMMA RisingToolUpdate == Types /\ Rising /\ (OneWriter \/ OneEditor) /\ ToolUpdateField => Rising'
<1> SUFFICES ASSUME Types, Rising, OneWriter \/ OneEditor, ToolUpdateField PROVE Rising'
  OBVIOUS
<1> DEFINE D == EnsureDocuments("mcp")
<1>1. PICK cond \in BOOLEAN, rid \in Rid, item \in Item :
        /\ rid \in DOMAIN items /\ Follows(item, items[rid])
        /\ Begin("tool_update", "mcp", D, Save(rid, item) \o BumpIf(cond, rid[1]))
        /\ UNCHANGED editor
  BY ToolUpdateFieldIs
<1> HIDE DEF D
<1>2. "mcp" \in Services /\ "mcp" = Storer /\ ~OneEditor
  BY <1>1, StorerIs, ToolsAlone DEF Begin, Services, Creating
<1>3. BumpIf(cond, rid[1]) \in Seq(Effects) /\ ReadOnly(BumpIf(cond, rid[1]))
  BY PlanTypes, ReadOnlyPlans DEF Rid
<1>4. item.rev > 0
  BY <1>1, FollowsRevised
<1> QED BY <1>1, <1>2, <1>3, <1>4, RisingBeginStore

LEMMA RisingToolSave ==
    Types /\ Rising /\ (OneWriter \/ OneEditor) /\ (ToolSetLinks \/ ToolLink) => Rising'
<1> SUFFICES ASSUME Types, Rising, OneWriter \/ OneEditor, ToolSetLinks \/ ToolLink PROVE Rising'
  OBVIOUS
<1> DEFINE D == EnsureDocuments("mcp")
<1>1. PICK op \in Creating : \E rid \in Rid, item \in Item :
        /\ rid \in DOMAIN items /\ Follows(item, items[rid])
        /\ Begin(op, "mcp", D, Save(rid, item)) /\ UNCHANGED editor
  BY ToolSetLinksIs, ToolLinkIs DEF Creating
<1> HIDE DEF D
<1>2. PICK rid \in Rid, item \in Item :
        /\ rid \in DOMAIN items /\ Follows(item, items[rid])
        /\ Begin(op, "mcp", D, Save(rid, item)) /\ UNCHANGED editor
  BY <1>1
<1>3. "mcp" \in Services /\ "mcp" = Storer /\ ~OneEditor
  BY <1>2, StorerIs, ToolsAlone DEF Begin, Services
<1>4. item.rev > 0
  BY <1>2, FollowsRevised
<1>5. Orderly(Save(rid, item), items)
  BY <1>2, <1>4, OrderlySave
<1> QED BY <1>2, <1>3, <1>5, RisingBegin

LEMMA RisingDeleteRequirement ==
    \A op, s : /\ s \in Services /\ Types /\ Rising /\ (OneWriter \/ OneEditor)
               /\ DeleteRequirement(op, s)
               => Rising'
<1> SUFFICES ASSUME NEW op, NEW s \in Services, Types, Rising, OneWriter \/ OneEditor,
                    DeleteRequirement(op, s)
             PROVE  Rising'
  OBVIOUS
<1> DEFINE D == EnsureDocuments(s)
<1>1. PICK rid \in DOMAIN items : Begin(op, s, D, DeletePlan(rid)) /\ UNCHANGED editor
  BY DEF DeleteRequirement
<1> HIDE DEF D
<1>2. rid \in Rid /\ rid[1] \in Prefix
  BY DEF Types, FilesOK, Rid
<1>3. /\ DeleteItem(rid, TRUE) \in Seq(Effects) /\ ReadOnly(DeleteItem(rid, TRUE))
      /\ Bump(rid[1]) \in Seq(Effects) /\ ReadOnly(Bump(rid[1]))
  BY <1>2, PlanTypes, ReadOnlyPlans
<1>4. ReadOnly(DeletePlan(rid))
  BY <1>3, ReadOnlyJoined DEF DeletePlan
<1> QED BY <1>1, <1>4, RisingBeginReading

LEMMA RisingClone == Types /\ Rising /\ (OneWriter \/ OneEditor) /\ CloneRequirement => Rising'
<1> SUFFICES ASSUME Types, Rising, OneWriter \/ OneEditor, CloneRequirement PROVE Rising'
  OBVIOUS
<1> DEFINE D == EnsureDocuments("gui")
<1>1. PICK rid \in Rid, item \in Item :
        /\ rid \notin DOMAIN items /\ item.rev = 1
        /\ Begin("clone", "gui", D, CreatePlan(rid, item)) /\ UNCHANGED editor
  BY CloneRequirementIs
<1> HIDE DEF D
<1>2. "gui" \in Services /\ "gui" = Storer
  BY <1>1, StorerIs DEF Begin, Services, Copying
<1>3. Bump(rid[1]) \in Seq(Effects) /\ ReadOnly(Bump(rid[1]))
  BY PlanTypes, ReadOnlyPlans DEF Rid
<1>4. Begin("clone", "gui", D, Save(rid, item) \o Bump(rid[1]))
  BY <1>1 DEF CreatePlan
<1>5. item.rev > 0
  BY <1>1
<1> QED BY <1>1, <1>2, <1>3, <1>4, <1>5, RisingBeginStore

LEMMA RisingCopy == Types /\ Rising /\ (OneWriter \/ OneEditor) /\ CopyRequirement => Rising'
<1> SUFFICES ASSUME Types, Rising, OneWriter \/ OneEditor, CopyRequirement PROVE Rising'
  OBVIOUS
<1> DEFINE D == EnsureDocuments("gui")
<1>1. PICK rid \in Rid, item \in Item :
        /\ rid \notin DOMAIN items
        /\ item.rev = 1 \/ \E r \in DOMAIN items : item.rev = items[r].rev
        /\ Begin("copy", "gui", D, CreatePlan(rid, item) \o Refresh) /\ UNCHANGED editor
  BY CopyRequirementIs
<1> HIDE DEF D
<1>2. "gui" \in Services /\ "gui" = Storer /\ ~OneEditor
  BY <1>1, StorerIs DEF Begin, Services, Copying
<1>3. /\ Bump(rid[1]) \in Seq(Effects) /\ ReadOnly(Bump(rid[1]))
      /\ Refresh \in Seq(Effects) /\ ReadOnly(Refresh)
  BY PlanTypes, ReadOnlyPlans DEF Rid
<1>4. item.rev > 0
  BY <1>1 DEF Rising, Revised
<1> DEFINE a == Save(rid, item)
           b == Bump(rid[1])
           c == a \o b
           plan == c \o Refresh
<1>5. a \in Seq(Effects) /\ Orderly(a, items)
  BY <1>1, <1>4, OrderlySave
<1> HIDE DEF a
<1>6. c \in Seq(Effects) /\ Orderly(c, items)
  BY <1>3, <1>5, OrderlyMore, ReadingOrderly
<1>7. Begin("copy", "gui", D, plan)
  BY <1>1 DEF CreatePlan, a
<1> HIDE DEF c
<1>8. Orderly(plan, items)
  BY <1>3, <1>6, OrderlyMore, ReadingOrderly
<1> HIDE DEF plan
<1> QED BY <1>1, <1>2, <1>7, <1>8, RisingBegin

\* A move saves the new file, and its referrers as they are but for the link.
LEMMA MoveOrderly ==
    ASSUME Types, Rising, NEW rid \in DOMAIN items, NEW new \in Rid, new \notin DOMAIN items,
           NEW item \in Item, items[rid].rev = item.rev, NEW q, Redirects(q, rid, new)
    PROVE  Save(new, item) \o q \in Seq(Effects) /\ Orderly(Save(new, item) \o q, items)
<1> DEFINE a == Save(new, item)
           c == a \o q
           n == Len(a)
<1>1. /\ a \in Seq(Effects) /\ DOMAIN a = {1} /\ a[1].op = "save" /\ a[1].rid = new
      /\ a[1].item = item /\ q \in Seq(Effects)
  BY SaveIs DEF Redirects
<1> HIDE DEF a
<1>2. /\ c \in Seq(Effects)
      /\ \A i \in DOMAIN c : \/ i \in DOMAIN a /\ c[i] = a[i]
                             \/ \E j \in DOMAIN q : c[i] = q[j]
  BY <1>1, Joined
<1> HIDE DEF c, n
<1>3. item.rev > 0 /\ \A r \in DOMAIN items : items[r].rev > 0 /\ items[r].rev \in Nat
  BY DEF Rising, Revised, Types, FilesOK, Item
<1>4. ASSUME NEW i \in DOMAIN c
      PROVE  \/ c[i].rid = new /\ c[i].item = item
             \/ /\ c[i].rid # new /\ c[i].rid \in DOMAIN items
                /\ items[c[i].rid].rev = c[i].item.rev /\ items[c[i].rid].text = c[i].item.text
  BY <1>1, <1>2 DEF Redirects
<1>5. Orderly(c, items)
  BY <1>3, <1>4 DEF Orderly, Follows
<1> QED BY <1>2, <1>5 DEF c, a

LEMMA RisingMove == Types /\ Rising /\ (OneWriter \/ OneEditor) /\ MoveRequirement => Rising'
<1> SUFFICES ASSUME Types, Rising, OneWriter \/ OneEditor, MoveRequirement PROVE Rising'
  OBVIOUS
<1> DEFINE D == EnsureDocuments("gui")
<1>1. PICK redirect \in Seq(Effects), rid \in Rid, new \in Rid, item \in Item :
         /\ rid \in DOMAIN items /\ items[rid].rev = item.rev
         /\ new \notin DOMAIN items
         /\ Redirects(redirect, rid, new)
         /\ Begin("move", "gui", D, MovePlan(rid, new, item, redirect) \o Refresh)
         /\ UNCHANGED editor
  BY MoveRequirementIs
<1> HIDE DEF D
<1>2. "gui" \in Services /\ "gui" = Storer /\ ~OneEditor
  BY <1>1, StorerIs DEF Begin, Services, Copying
<1> DEFINE a == Save(new, item) \o redirect
           b1 == Bump(rid[1])
           b2 == Bump(new[1])
           b3 == Unlink(rid)
<1>3. a \in Seq(Effects) /\ Orderly(a, items)
  BY <1>1, MoveOrderly
<1>4. b1 \in Seq(Effects) /\ NoSaves(b1) /\ b2 \in Seq(Effects) /\ NoSaves(b2)
  BY PlanTypes, ReadOnlyPlans, ReadingOrderly DEF Rid
<1>5. b3 \in Seq(Effects) /\ NoSaves(b3)
  <2>1. b3 \in Seq(Effects)
    BY SteadyUnlink DEF SteadyPlan
  <2>2. NoSaves(b3)
    BY DEF NoSaves, Unlink
  <2> QED BY <2>1, <2>2
<1>6. Refresh \in Seq(Effects) /\ NoSaves(Refresh)
  BY PlanTypes, ReadOnlyPlans, ReadingOrderly
<1>7. MovePlan(rid, new, item, redirect) = ((a \o b1) \o b2) \o b3
  BY DEF MovePlan
<1> HIDE DEF a, b1, b2, b3
<1> DEFINE c == a \o b1
           d == c \o b2
           e == d \o b3
           plan == e \o Refresh
<1>8. c \in Seq(Effects) /\ Orderly(c, items)
  BY <1>3, <1>4, OrderlyMore
<1>9. Begin("move", "gui", D, plan)
  BY <1>1, <1>7
<1> HIDE DEF c
<1>10. d \in Seq(Effects) /\ Orderly(d, items)
  BY <1>4, <1>8, OrderlyMore
<1> HIDE DEF d
<1>11. e \in Seq(Effects) /\ Orderly(e, items)
  BY <1>5, <1>10, OrderlyMore
<1> HIDE DEF e
<1>12. Orderly(plan, items)
  BY <1>6, <1>11, OrderlyMore
<1> HIDE DEF plan
<1> QED BY <1>1, <1>2, <1>9, <1>12, RisingBegin

LEMMA RisingDocuments ==
    /\ Types /\ Rising /\ (OneWriter \/ OneEditor)
    /\ CreateDocument \/ ReparentDocument \/ DeleteDocument
    => Rising'
<1> SUFFICES ASSUME Types, Rising, OneWriter \/ OneEditor
             PROVE  CreateDocument \/ ReparentDocument \/ DeleteDocument => Rising'
  OBVIOUS
<1> DEFINE D == EnsureDocuments("gui")
<1>1. IsDocuments(D) /\ "gui" \in Services
  BY Documents DEF Types, Services
<1>2. Refresh \in Seq(Effects) /\ ReadOnly(Refresh)
  BY PlanTypes, ReadOnlyPlans
<1>3. ASSUME NEW E, NEW op, NEW p \in Prefix, NEW d \in Document, UNCHANGED editor,
             Begin(op, "gui", E, WriteDocument(p, d) \o Refresh)
      PROVE  Rising'
  <2>1. ReadOnly(WriteDocument(p, d) \o Refresh)
    BY <1>2, PlanTypes, ReadOnlyPlans, ReadOnlyJoined
  <2> QED BY <1>1, <1>3, <2>1, RisingBeginReading
<1>4. ASSUME CreateDocument PROVE Rising'
  <2>1. PICK p \in Prefix \ DOMAIN D, parent \in DOMAIN D \cup {NoDoc} :
          /\ Begin("create_document", "gui", D,
                   WriteDocument(p, [parent |-> parent, rev |-> 1]) \o Refresh)
          /\ UNCHANGED editor
    BY <1>4 DEF CreateDocument
  <2> HIDE DEF D
  <2>2. [parent |-> parent, rev |-> 1] \in Document
    BY <1>1 DEF Document, IsDocuments
  <2> QED BY <1>3, <2>1, <2>2
<1>5. ASSUME ReparentDocument PROVE Rising'
  <2>1. PICK p \in DOMAIN D, parent \in DOMAIN D \cup {NoDoc} :
          LET moved == [D[p] EXCEPT !.parent = parent] IN
          /\ Begin("reparent", "gui", [D EXCEPT ![p] = moved], WriteDocument(p, moved) \o Refresh)
          /\ UNCHANGED editor
    BY <1>5 DEF ReparentDocument
  <2> DEFINE moved == [D[p] EXCEPT !.parent = parent]
             E == [D EXCEPT ![p] = moved]
  <2>2. Begin("reparent", "gui", E, WriteDocument(p, moved) \o Refresh) /\ UNCHANGED editor
    BY <2>1
  <2> HIDE DEF D, E
  <2>3. p \in Prefix /\ moved \in Document
    BY <1>1 DEF Document, IsDocuments
  <2> QED BY <1>3, <2>2, <2>3
<1>6. ASSUME DeleteDocument PROVE Rising'
  <2>1. PICK p \in DOMAIN D :
          /\ Begin("delete_document", "gui", D, DropDocument(p) \o Refresh)
          /\ UNCHANGED editor
    BY <1>6 DEF DeleteDocument
  <2> HIDE DEF D
  <2>2. p \in Prefix
    BY <1>1 DEF IsDocuments
  <2>3. DropDocument(p) \in Seq(Effects)
    BY <2>2, DropIs
  <2>4. ReadOnly(DropDocument(p) \o Refresh)
    BY <1>2, <2>3, ReadOnlyPlans, ReadOnlyJoined
  <2> QED BY <1>1, <2>1, <2>4, RisingBeginReading
<1> QED BY <1>4, <1>5, <1>6

\* What a window takes: an item as the file has it, or a new one.
LEMMA RisingHolds ==
    ASSUME Types, Rising, OneWriter \/ OneEditor, OneEditor, NEW e \in Editors, NEW h,
           editor' = [editor EXCEPT ![e] = <<h>>], Fresh(h, items),
           UNCHANGED items, call["gui"] = <<>>, call' = [call EXCEPT !["gui"] = <<>>]
    PROVE  Rising'
<1>1. \A d \in Editors : d = e
  BY DEF OneEditor
<1>2. editor'[e] = <<h>> /\ <<h>>[1] = h
  BY DEF Types
<1>3. DOMAIN <<>> = {} /\ "gui" \in Services
  BY DEF Services
<1>4. UpToDate(<<>>, e, h, items)
  BY <1>3, FreshUpToDate
<1>5. Revised(items) /\ Orderly(call[Storer], items)
  BY DEF Rising
<1>6. Orderly(<<>>, items) /\ ReadOnly(<<>>)
  BY NothingOrderly, NothingSafe
<1>7. Revised(items')
  BY <1>5 DEF Revised
<1> DEFINE c == <<>>
<1>8. call' = [call EXCEPT !["gui"] = c] /\ Orderly(c, items') /\ ReadOnly(c)
      /\ Orderly(call[Storer], items')
  BY <1>5, <1>6
<1>9. \A d \in Editors : UpToDate(c, d, editor'[d][1], items')
  BY <1>1, <1>2, <1>4
<1> HIDE DEF c
<1> QED BY <1>3, <1>7, <1>8, <1>9, RisingFrom

LEMMA RisingOpenEditor ==
    \A e : e \in Editors /\ Types /\ Rising /\ (OneWriter \/ OneEditor) /\ OpenEditor(e) => Rising'
<1> SUFFICES ASSUME NEW e \in Editors, Types, Rising, OneWriter \/ OneEditor, OpenEditor(e)
             PROVE  Rising'
  OBVIOUS
<1> DEFINE D == EnsureDocuments("gui")
<1>1. PICK rid \in DOMAIN items :
        /\ "edit" \in Uses
        /\ call["gui"] = <<>>
        /\ editor' = [editor EXCEPT ![e] = <<[rid |-> rid, item |-> Loaded(D, rid)]>>]
        /\ UNCHANGED <<items, call>>
  BY DEF OpenEditor
<1> HIDE DEF D
<1> DEFINE h == [rid |-> rid, item |-> Loaded(D, rid)]
<1>2. h.rid = rid /\ h.item = Loaded(D, rid)
  OBVIOUS
<1>3. editor' = [editor EXCEPT ![e] = <<h>>]
  BY <1>1
<1> HIDE DEF h
<1>4. h.item.rev = items[rid].rev /\ items[rid].rev \in Nat /\ items[rid].rev > 0
  BY <1>2, LoadedType DEF Types, FilesOK, Item, Rising, Revised
<1>5. Fresh(h, items)
  BY <1>2, <1>4 DEF Fresh
<1>6. OneEditor
  BY <1>1, StorerIs
<1>7. call' = [call EXCEPT !["gui"] = <<>>]
  BY <1>1 DEF Types, ServicesOK
<1> QED BY <1>1, <1>3, <1>5, <1>6, <1>7, RisingHolds

LEMMA RisingNewRequirement ==
    \A e : /\ e \in Editors /\ Types /\ Rising /\ (OneWriter \/ OneEditor) /\ NewRequirement(e)
           => Rising'
<1> SUFFICES ASSUME NEW e \in Editors, Types, Rising, OneWriter \/ OneEditor, NewRequirement(e)
             PROVE  Rising'
  OBVIOUS
<1> DEFINE D == EnsureDocuments("gui")
<1>1. IsDocuments(D) /\ "gui" \in Services
  BY Documents DEF Types, Services
<1>2. PICK p \in DOMAIN D, text \in Text :
        /\ Begin("new", "gui", D, <<>>)
        /\ editor' = [editor EXCEPT ![e] =
               <<[rid |-> <<p, NextItemId(p)>>,
                  item |-> [uid |-> calls, text |-> text, rev |-> 1, links |-> <<>>]]>>]
  BY DEF NewRequirement
<1> HIDE DEF D
<1> DEFINE rid == <<p, NextItemId(p)>>
           h == [rid |-> rid,
                 item |-> [uid |-> calls, text |-> text, rev |-> 1, links |-> <<>>]]
<1>3. rid \notin DOMAIN items
  <2>1. p \in Prefix
    BY <1>1 DEF IsDocuments
  <2> QED BY <2>1, NextItemIdType DEF Types, FilesOK
<1>4. editor' = [editor EXCEPT ![e] = <<h>>]
  BY <1>2
<1> HIDE DEF rid
<1>5. h.rid = rid /\ h.item.rev = 1
  OBVIOUS
<1> HIDE DEF h
<1>6. Fresh(h, items)
  BY <1>3, <1>5 DEF Fresh
<1>7. OneEditor /\ call["gui"] = <<>> /\ call' = [call EXCEPT !["gui"] = <<>>] /\ items' = items
  BY <1>2, StorerIs DEF Begin
<1> QED BY <1>4, <1>6, <1>7, RisingHolds

\* What the window saves follows the file, and then the window is closed.
LEMMA PayloadFollows ==
    ASSUME NEW rid, NEW held \in Item, NEW text \in Text, held.rev > 0,
           rid \in DOMAIN items => items[rid] \in Item /\ items[rid].rev <= held.rev
    PROVE  /\ PayloadToSave(rid, held, text).rev > 0
           /\ rid \in DOMAIN items => Follows(PayloadToSave(rid, held, text), items[rid])
<1> DEFINE raise == /\ rid \in DOMAIN items /\ held.rev = items[rid].rev
                    /\ text # items[rid].text
           more == IF raise THEN 1 ELSE 0
<1>1. more \in {0, 1} /\ (raise => more = 1)
  OBVIOUS
<1>2. PayloadToSave(rid, held, text) = [held EXCEPT !.text = text, !.rev = held.rev + more]
  BY DEF PayloadToSave, Item
<1>3. PayloadToSave(rid, held, text).text = text /\ PayloadToSave(rid, held, text).rev = held.rev + more
  BY <1>2 DEF Item
<1>4. held.rev \in Nat /\ (rid \in DOMAIN items => items[rid].rev \in Nat)
  BY DEF Item
<1> HIDE DEF more
<1>5. PayloadToSave(rid, held, text).rev > 0
  BY <1>1, <1>3, <1>4
<1>6. ASSUME rid \in DOMAIN items PROVE Follows(PayloadToSave(rid, held, text), items[rid])
  BY <1>1, <1>3, <1>4, <1>6 DEF Follows
<1> QED BY <1>5, <1>6

LEMMA SaveFirst ==
    ASSUME NEW S, NEW x \in S, NEW b \in Seq(S), NEW c \in Seq(S)
    PROVE  /\ (<<x>> \o b) \o c # <<>> /\ ((<<x>> \o b) \o c)[1] = x
           /\ Tail((<<x>> \o b) \o c) = b \o c
<1>1. (<<x>> \o b) \o c = <<x>> \o (b \o c)
  OBVIOUS
<1>2. b \o c \in Seq(S)
  OBVIOUS
<1> QED BY <1>1, <1>2

LEMMA BumpThenClose ==
    ASSUME NEW b \in Seq(Effects), \A i \in DOMAIN b : b[i].op = "bump", NEW e \in Editors
    PROVE  Closes(b \o CloseEditor(e), e)
<1> DEFINE x == [op |-> "closeEditor", editor |-> e]
           a == <<x>>
           c == b \o a
           n == Len(b)
<1>1. x \in Effects /\ x.op = "closeEditor" /\ x.editor = e
  BY DEF Effects
<1> HIDE DEF x
<1>2. a \in Seq(Effects) /\ DOMAIN a = {1} /\ a[1] = x /\ Len(a) = 1
  BY <1>1, OneEffect
<1> HIDE DEF a
<1>3. /\ c \in Seq(Effects) /\ Len(c) = n + Len(a) /\ n \in Nat /\ DOMAIN b = 1 .. n
      /\ \A i \in DOMAIN c : \/ i \in DOMAIN b /\ c[i] = b[i]
                             \/ /\ i \notin DOMAIN b /\ i - n \in DOMAIN a /\ c[i] = a[i - n]
  <2>1. b \in Seq(Effects) /\ a \in Seq(Effects)
    BY <1>2
  <2> QED BY <2>1, Joined
<1> HIDE DEF c, n
<1>4. \A i \in DOMAIN c : c[i].op \in {"bump", "closeEditor"}
  BY <1>1, <1>2, <1>3
<1>5. n + 1 \in DOMAIN c /\ n + 1 \notin DOMAIN b
  BY <1>2, <1>3
<1>6. c[n + 1] = x
  BY <1>2, <1>3, <1>5
<1>7. Closes(c, e)
  BY <1>1, <1>4, <1>5, <1>6 DEF Closes
<1>8. c = b \o CloseEditor(e)
  BY DEF c, a, x, CloseEditor
<1> QED BY <1>7, <1>8

LEMMA RisingSaveEditor ==
    \A e : e \in Editors /\ Types /\ Rising /\ (OneWriter \/ OneEditor) /\ SaveEditor(e) => Rising'
<1> SUFFICES ASSUME NEW e \in Editors, Types, Rising, OneWriter \/ OneEditor, SaveEditor(e)
             PROVE  Rising'
  OBVIOUS
<1> DEFINE rid == editor[e][1].rid
           held == editor[e][1].item
           D == DocumentsWith("gui", rid[1])
<1>1. PICK text \in Text :
        Begin("edit", "gui", D,
              Save(rid, PayloadToSave(rid, held, text))
              \o BumpIf(BumpsDocument(rid, text), rid[1]) \o CloseEditor(e))
  BY DEF SaveEditor
<1>2. editor[e] # <<>> /\ UNCHANGED editor
  BY DEF SaveEditor
<1> DEFINE item == PayloadToSave(rid, held, text)
           cond == BumpsDocument(rid, text)
           plan == Save(rid, item) \o BumpIf(cond, rid[1]) \o CloseEditor(e)
<1>3. rid \in Rid /\ held \in Item
  BY <1>2, HeldType
<1>4. Begin("edit", "gui", D, plan) /\ call["gui"] = <<>> /\ "edit" \in Uses
  BY <1>1 DEF Begin
<1>5. OneEditor /\ "gui" = Storer /\ "gui" \in Services
  BY <1>4, StorerIs DEF Services
<1>6. Fresh(editor[e][1], items)
  BY <1>2, <1>4, IdleFresh DEF Rising
<1>7. item \in Item /\ item.rev > 0 /\ (rid \in DOMAIN items => Follows(item, items[rid]))
  BY <1>3, <1>6, PayloadType, PayloadFollows DEF Fresh, Types, FilesOK
<1> HIDE DEF D, item, cond, held
<1>8. rid[1] \in Prefix /\ editor[e][1].rid = rid
  BY <1>3 DEF Rid
<1> HIDE DEF rid
<1> DEFINE a == Save(rid, item)
           b1 == BumpIf(cond, rid[1])
           b2 == CloseEditor(e)
<1>9. a \in Seq(Effects) /\ Orderly(a, items)
  BY <1>3, <1>7, OrderlySave
<1>10. b1 \in Seq(Effects) /\ NoSaves(b1)
  <2>1. SteadyPlan([x \in {rid[1]} |-> x], b1)
    BY <1>8, SteadyBumpIf
  <2> QED BY <2>1, ReadOnlyPlans, ReadingOrderly DEF SteadyPlan
<1>11. b2 \in Seq(Effects) /\ NoSaves(b2)
  <2>1. b2 \in Seq(Effects)
    BY SteadyClose DEF SteadyPlan
  <2>2. NoSaves(b2)
    BY DEF NoSaves, CloseEditor
  <2> QED BY <2>1, <2>2
<1>12. \A i \in DOMAIN b1 : b1[i].op = "bump"
  BY DEF BumpIf, Bump
<1>13. plan = (a \o b1) \o b2 /\ Closes(b1 \o b2, e)
  BY <1>10, <1>12, BumpThenClose
<1>14. plan # <<>> /\ plan[1].op = "save" /\ Tail(plan) = b1 \o b2
  <2> DEFINE x == [op |-> "save", rid |-> rid, item |-> item]
  <2>1. x \in Effects /\ x.op = "save"
    BY <1>3, <1>7 DEF Effects
  <2>2. plan = (<<x>> \o b1) \o b2
    BY DEF Save
  <2> HIDE DEF x, b1, b2, plan
  <2> QED BY <1>10, <1>11, <2>1, <2>2, SaveFirst
<1> HIDE DEF a, b1, b2, plan
<1> DEFINE c == a \o b1
<1>15. c \in Seq(Effects) /\ Orderly(c, items)
  BY <1>9, <1>10, OrderlyMore
<1>16. plan = c \o b2
  BY <1>13
<1> HIDE DEF c
<1>17. Orderly(plan, items)
  BY <1>11, <1>15, <1>16, OrderlyMore
<1>18. UpToDate(plan, e, editor[e][1], items)
  BY <1>6, <1>13, <1>14 DEF UpToDate, Fresh
<1>19. \A d \in Editors : d = e
  BY <1>5 DEF OneEditor
<1> QED BY <1>2, <1>4, <1>5, <1>17, <1>18, <1>19, RisingBegin

LEMMA OrderlyFades ==
    ASSUME NEW q, NEW f, Orderly(q, f), NEW g, Fades(f, g)
    PROVE  Orderly(q, g)
BY DEF Orderly, Fades, Follows

LEMMA RevisedFades ==
    ASSUME NEW f, Revised(f), NEW g, Fades(f, g)
    PROVE  Revised(g)
BY DEF Revised, Fades

LEMMA UpToDateFades ==
    ASSUME NEW q, NEW e, NEW h, NEW f, UpToDate(q, e, h, f), NEW g, Fades(f, g)
    PROVE  UpToDate(q, e, h, g)
<1>1. (h.rid \in DOMAIN f => f[h.rid].rev <= h.item.rev)
          => (h.rid \in DOMAIN g => g[h.rid].rev <= h.item.rev)
  BY DEF Fades
<1> QED BY <1>1 DEF UpToDate

\* A service's call goes on with more before what is left, or without it: no effect but
\* a save, and the close of a window, stores or changes what the windows hold.
LEMMA RisingOn ==
    ASSUME Types, Rising, OneWriter \/ OneEditor, NEW s \in Services, call[s] # <<>>,
           call[s][1].op # "save", NEW more \in Seq(Effects), ReadOnly(more),
           Continue(s, more), Fades(items, items'),
           \A e \in Editors : editor'[e] # <<>> =>
               /\ editor'[e] = editor[e]
               /\ Closes(call[s], e) => Closes(more \o Tail(call[s]), e)
    PROVE  Rising'
<1> DEFINE q == call[s]
           c == more \o Tail(q)
<1>1. q \in Seq(Effects) /\ q # <<>>
  BY HeadTypes
<1>2. call' = [call EXCEPT ![s] = c]
  BY DEF Continue
<1>3. q[1].op # "save"
  OBVIOUS
<1>4. \A e \in Editors : editor'[e] # <<>> =>
          editor'[e] = editor[e] /\ (Closes(q, e) => Closes(c, e))
  OBVIOUS
<1>5. (s = Storer => Orderly(q, items)) /\ (s # Storer => ReadOnly(q)) /\ Orderly(call[Storer], items)
  BY DEF Rising
<1>6. \A e \in Editors : editor[e] # <<>> =>
         /\ OneEditor /\ UpToDate(call["gui"], e, editor[e][1], items)
         /\ s = "gui" => UpToDate(q, e, editor[e][1], items)
  BY DEF Rising
<1> HIDE DEF q, c
<1>7. Remains(q, c, Len(more))
  BY <1>1, RestStores DEF c
<1>8. s = Storer => Orderly(c, items')
  BY <1>5, <1>7, OrderlyRest
<1>9. s # Storer => ReadOnly(c) /\ Orderly(call[Storer], items')
  <2>1. ReadOnly(q) => ReadOnly(c)
    BY <1>7 DEF Remains, ReadOnly
  <2>2. Orderly(call[Storer], items')
    BY <1>5, OrderlyFades
  <2> QED BY <1>5, <2>1, <2>2
<1>10. ASSUME NEW e \in Editors, editor'[e] # <<>>
       PROVE  /\ OneEditor
              /\ s = "gui" => UpToDate(c, e, editor'[e][1], items')
              /\ s # "gui" => UpToDate(call["gui"], e, editor'[e][1], items')
  <2>1. editor'[e] = editor[e] /\ (Closes(q, e) => Closes(c, e))
    BY <1>4, <1>10
  <2> DEFINE h == editor[e][1]
  <2>2. /\ OneEditor /\ UpToDate(call["gui"], e, h, items)
        /\ s = "gui" => UpToDate(q, e, h, items)
    BY <1>6, <1>10, <2>1
  <2> HIDE DEF h
  <2>3. UpToDate(call["gui"], e, h, items')
    BY <2>2, UpToDateFades
  <2>4. s = "gui" => UpToDate(c, e, h, items')
    BY <1>3, <1>7, <2>1, <2>2, UpToDateRest
  <2> QED BY <2>1, <2>2, <2>3, <2>4 DEF h
<1>11. Revised(items')
  BY RevisedFades DEF Rising
<1> QED BY <1>2, <1>8, <1>9, <1>10, <1>11, RisingFrom

\* An exception: the plan was more than the close of the window.
LEMMA RisingRaise ==
    ASSUME Types, Rising, OneWriter \/ OneEditor, NEW s \in Services, call[s] # <<>>,
           call[s][1].op \notin {"bump", "closeEditor"}, Raise(s), UNCHANGED <<items, editor>>
    PROVE  Rising'
<1>1. call' = [call EXCEPT ![s] = <<>>]
  BY DEF Raise
<1>2. Orderly(<<>>, items') /\ ReadOnly(<<>>)
  BY NothingOrderly, NothingSafe
<1>3. Revised(items) /\ Orderly(call[Storer], items)
  BY DEF Rising
<1>4. 1 \in DOMAIN call[s]
  BY HeadTypes, LeftOver
<1>5. ASSUME NEW e \in Editors, editor[e] # <<>>
      PROVE  /\ OneEditor
             /\ s = "gui" => UpToDate(<<>>, e, editor[e][1], items)
             /\ s # "gui" => UpToDate(call["gui"], e, editor[e][1], items)
  <2>1. OneEditor /\ UpToDate(call["gui"], e, editor[e][1], items)
    BY <1>5 DEF Rising
  <2>2. ASSUME s = "gui" PROVE UpToDate(<<>>, e, editor[e][1], items)
    <3>1. ~Closes(call["gui"], e)
      BY <1>4, <2>2 DEF Closes
    <3>2. Fresh(editor[e][1], items)
      BY <2>1, <3>1 DEF UpToDate, Fresh
    <3>3. DOMAIN <<>> = {}
      OBVIOUS
    <3> QED BY <3>2, <3>3, FreshUpToDate
  <2> QED BY <2>1, <2>2
<1>6. items' = items /\ editor' = editor
  OBVIOUS
<1> DEFINE c == <<>>
<1>7. /\ call' = [call EXCEPT ![s] = c] /\ Orderly(c, items') /\ ReadOnly(c)
      /\ Orderly(call[Storer], items') /\ Revised(items')
  BY <1>1, <1>2, <1>3, <1>6
<1>8. \A e \in Editors : editor'[e] # <<>> =>
         /\ OneEditor
         /\ s = "gui" => UpToDate(c, e, editor'[e][1], items')
         /\ s # "gui" => UpToDate(call["gui"], e, editor'[e][1], items')
  BY <1>5, <1>6
<1> HIDE DEF c
<1> QED BY <1>7, <1>8, RisingFrom

\* ... where the windows stay and the plan does not close one.
LEMMA RisingOnOpen ==
    ASSUME Types, Rising, OneWriter \/ OneEditor, NEW s \in Services, call[s] # <<>>,
           call[s][1].op \notin {"save", "bump", "closeEditor"},
           NEW more \in Seq(Effects), ReadOnly(more),
           Continue(s, more), Fades(items, items'), UNCHANGED editor
    PROVE  Rising'
<1>1. 1 \in DOMAIN call[s]
  BY HeadTypes, LeftOver
<1>2. \A e \in Editors : ~Closes(call[s], e)
  BY <1>1 DEF Closes
<1> QED BY <1>2, RisingOn

\* Storing an item touches its place only, which then has the item's version.
Versioned(g, f, rid, item) ==
    /\ DOMAIN g = DOMAIN f \cup {rid}
    /\ g[rid].rev = item.rev /\ g[rid].text = item.text
    /\ \A r \in DOMAIN f : r # rid => g[r] = f[r]

LEMMA StoredVersion ==
    ASSUME NEW D, NEW rid, NEW item \in Item
    PROVE  Versioned(Stored(D, rid, item), items, rid, item)
<1> DEFINE new == [item EXCEPT !.links = PrepareLinks(D, item.links)]
<1>1. Stored(D, rid, item) = [r \in DOMAIN items \cup {rid} |-> IF r = rid THEN new ELSE items[r]]
  BY DEF Stored
<1>2. new.rev = item.rev /\ new.text = item.text
  BY DEF Item
<1> HIDE DEF new
<1> QED BY <1>1, <1>2 DEF Versioned

\* Storing an item with other links changes neither its revision nor its statement.
LEMMA SweptFades ==
    ASSUME Types, NEW r \in DOMAIN items, NEW links \in LinkMaps, NEW D,
           items' = Stored(D, r, [items[r] EXCEPT !.links = links])
    PROVE  Fades(items, items')
<1> DEFINE item == [items[r] EXCEPT !.links = links]
<1>1. items[r] \in Item /\ r \in Rid
  BY DEF Types, FilesOK
<1>2. item \in Item /\ item.rev = items[r].rev /\ item.text = items[r].text
  BY <1>1, ItemLinks DEF Item
<1> DEFINE g == Stored(D, r, item)
<1>3. items' = g /\ g = Stored(D, r, item)
  OBVIOUS
<1> HIDE DEF item, g
<1>4. Versioned(Stored(D, r, item), items, r, item)
  BY <1>2, StoredVersion
<1> QED BY <1>2, <1>3, <1>4 DEF Versioned, Fades

\* No effect but a save changes a revision or a statement.
LEMMA EffectFades ==
    ASSUME Types, NEW s \in Services,
           \/ DeleteFile(s) \/ UnlinkFile(s) \/ RemoveDirectory(s) \/ SweptAtOnce(s)
           \/ UNCHANGED items
    PROVE  Fades(items, items')
<1>1. ASSUME NEW S, items' = Restrict(items, DOMAIN items \ S) PROVE Fades(items, items')
  <2>1. DOMAIN items' = DOMAIN items \ S /\ \A r \in DOMAIN items' : items'[r] = items[r]
    BY <1>1, RestrictIs
  <2> QED BY <2>1 DEF Fades
<1>2. CASE DeleteFile(s) \/ UnlinkFile(s) \/ RemoveDirectory(s)
  <2>1. UNCHANGED items \/ \E S : items' = Restrict(items, DOMAIN items \ S)
    BY <1>2 DEF DeleteFile, UnlinkFile, RemoveDirectory, Without
  <2> QED BY <1>1, <2>1, FadesSame
<1>3. CASE SweptAtOnce(s)
  <2> DEFINE kept(r) == Without(items[r].links, Current(s).rid)
  <2>1. \/ UNCHANGED items
        \/ \E r \in DOMAIN items :
               items' = Stored(cache[s], r, [items[r] EXCEPT !.links = kept(r)])
    BY <1>3 DEF SweptAtOnce
  <2>2. ASSUME NEW r \in DOMAIN items,
               items' = Stored(cache[s], r, [items[r] EXCEPT !.links = kept(r)])
        PROVE  Fades(items, items')
    <3> DEFINE links == kept(r)
    <3>1. items[r] \in Item /\ items[r].links \in LinkMaps
      BY DEF Types, FilesOK, Item
    <3>2. links \in LinkMaps /\ items' = Stored(cache[s], r, [items[r] EXCEPT !.links = links])
      BY <2>2, <3>1, LinksWithout
    <3> HIDE DEF links
    <3> QED BY <3>2, SweptFades
  <2> QED BY <2>1, <2>2, FadesSame
<1>4. CASE UNCHANGED items
  BY <1>4, FadesSame
<1> QED BY <1>2, <1>3, <1>4

LEMMA RisingDeleteFile ==
    \A s \in Services : Types /\ Rising /\ (OneWriter \/ OneEditor) /\ DeleteFile(s) => Rising'
<1> SUFFICES ASSUME NEW s \in Services, Types, Rising, OneWriter \/ OneEditor, DeleteFile(s)
             PROVE  Rising'
  OBVIOUS
<1> DEFINE rid == Current(s).rid
           more == Sweep(rid, DocumentsToSweep(cache[s], rid), {})
<1>1. /\ call[s] # <<>> /\ Current(s).op = "deleteItem"
      /\ call[s][1].op \notin {"save", "bump", "closeEditor"} /\ UNCHANGED editor
  BY HeadTypes DEF DeleteFile, Doing
<1>2. rid \in Rid /\ IsDocuments(cache[s])
  BY <1>1, HeadTypes, EffectIs
<1>3. Fades(items, items')
  BY EffectFades
<1>4. CASE Continue(s, more)
  <2>1. DocumentsToSweep(cache[s], rid) \in SUBSET Prefix /\ {} \in SUBSET Rid
    BY <1>2 DEF DocumentsToSweep, IsDocuments
  <2>2. more \in Seq(Effects) /\ ReadOnly(more)
    BY <1>2, <2>1, SweepIs, ReadOnlyPlans
  <2>3. Continue(s, more)
    BY <1>4
  <2> HIDE DEF more
  <2> QED BY <1>1, <1>3, <2>2, <2>3, RisingOnOpen
<1>5. CASE Raise(s) /\ UNCHANGED items
  BY <1>1, <1>5, RisingRaise
<1>6. CASE Continue(s, <<>>)
  <2>1. <<>> \in Seq(Effects) /\ ReadOnly(<<>>)
    BY NothingSafe
  <2> QED BY <1>1, <1>3, <1>6, <2>1, RisingOnOpen
<1> QED BY <1>4, <1>5, <1>6 DEF DeleteFile

LEMMA RisingSweepDocument ==
    \A s \in Services : Types /\ Rising /\ (OneWriter \/ OneEditor) /\ SweepDocument(s) => Rising'
<1> SUFFICES ASSUME NEW s \in Services, Types, Rising, OneWriter \/ OneEditor, SweepDocument(s)
             PROVE  Rising'
  OBVIOUS
<1>1. /\ call[s] # <<>> /\ Current(s).op = "sweep"
      /\ call[s][1].op \notin {"save", "bump", "closeEditor"} /\ UNCHANGED editor
  BY HeadTypes DEF SweepDocument, Doing
<1>2. Current(s).rid \in Rid /\ Current(s).todo \subseteq Prefix
  BY <1>1, HeadTypes, EffectIs
<1>3. Fades(items, items')
  BY EffectFades DEF SweepDocument
<1>4. ASSUME NEW p \in Current(s).todo,
             Continue(s, Sweep(Current(s).rid, Current(s).todo \ {p}, RidsOf(p)))
      PROVE  Rising'
  <2>1. RidsOf(p) \in SUBSET Rid /\ Current(s).todo \ {p} \in SUBSET Prefix
    BY <1>2 DEF RidsOf, Types, FilesOK
  <2> DEFINE more == Sweep(Current(s).rid, Current(s).todo \ {p}, RidsOf(p))
  <2>2. more \in Seq(Effects) /\ ReadOnly(more)
    BY <1>2, <2>1, SweepIs, ReadOnlyPlans
  <2>3. Continue(s, more)
    BY <1>4
  <2> HIDE DEF more
  <2> QED BY <1>1, <1>3, <2>2, <2>3, RisingOnOpen
<1>5. CASE Continue(s, <<>>)
  <2>1. <<>> \in Seq(Effects) /\ ReadOnly(<<>>)
    BY NothingSafe
  <2> QED BY <1>1, <1>3, <1>5, <2>1, RisingOnOpen
<1> QED BY <1>4, <1>5 DEF SweepDocument

LEMMA RisingSweepItem ==
    \A s \in Services : Types /\ Rising /\ (OneWriter \/ OneEditor) /\ SweptAtOnce(s) => Rising'
<1> SUFFICES ASSUME NEW s \in Services, Types, Rising, OneWriter \/ OneEditor, SweptAtOnce(s)
             PROVE  Rising'
  OBVIOUS
<1> DEFINE target == Current(s).rid
<1>1. /\ call[s] # <<>> /\ Current(s).op = "sweep"
      /\ call[s][1].op \notin {"save", "bump", "closeEditor"} /\ UNCHANGED editor
  BY HeadTypes DEF SweptAtOnce, Doing
<1>2. target \in Rid /\ Current(s).todo \in SUBSET Prefix /\ Current(s).ids \in SUBSET Rid
  BY <1>1, HeadTypes, EffectIs
<1>3. PICK r \in Current(s).ids :
         \/ Continue(s, Sweep(target, Current(s).todo, Current(s).ids \ {r}))
         \/ Raise(s) /\ UNCHANGED items
  BY DEF SweptAtOnce
<1> DEFINE next == Sweep(target, Current(s).todo, Current(s).ids \ {r})
<1>4. Current(s).ids \ {r} \in SUBSET Rid
  BY <1>2
<1>5. next \in Seq(Effects) /\ ReadOnly(next)
  BY <1>2, <1>4, SweepIs, ReadOnlyPlans
<1>6. Fades(items, items')
  BY EffectFades
<1>7. Continue(s, next) \/ (Raise(s) /\ UNCHANGED items)
  BY <1>3
<1> HIDE DEF next
<1> QED BY <1>1, <1>5, <1>6, <1>7, RisingOnOpen, RisingRaise

LEMMA RisingOther ==
    \A s \in Services :
        /\ Types /\ Rising /\ (OneWriter \/ OneEditor)
        /\ \/ UnlinkFile(s) \/ RemoveDirectory(s) \/ SaveDocument(s) \/ RefreshDocuments(s)
           \/ DropContents(s)
        => Rising'
<1> SUFFICES ASSUME NEW s \in Services, Types, Rising, OneWriter \/ OneEditor,
                    \/ UnlinkFile(s) \/ RemoveDirectory(s) \/ SaveDocument(s) \/ RefreshDocuments(s)
                    \/ DropContents(s)
             PROVE  Rising'
  OBVIOUS
<1>1. /\ call[s] # <<>> /\ call[s][1].op \notin {"save", "bump", "closeEditor"}
      /\ Current(s).op # "save" /\ UNCHANGED editor
  BY HeadTypes DEF UnlinkFile, RemoveDirectory, SaveDocument, RefreshDocuments, DropContents, Doing
<1>2. Fades(items, items')
  BY EffectFades DEF SaveDocument, RefreshDocuments, DropContents
<1>3. CASE DropContents(s)
  <2>1. PICK more \in Seq(Effects) :
           /\ Continue(s, more)
           /\ \A i \in DOMAIN more : more[i].op \notin {"bump", "save", "unlink"}
    BY <1>3, DropContentsIs
  <2>2. ReadOnly(more)
    BY <2>1 DEF ReadOnly
  <2> QED BY <1>1, <1>2, <2>1, <2>2, RisingOnOpen
<1>4. CASE Continue(s, <<>>)
  <2>1. <<>> \in Seq(Effects) /\ ReadOnly(<<>>)
    BY NothingSafe
  <2> QED BY <1>1, <1>2, <1>4, <2>1, RisingOnOpen
<1> QED BY <1>3, <1>4 DEF UnlinkFile, RemoveDirectory, SaveDocument, RefreshDocuments

\* A bump, or the close of the window, goes on to what is left.
LEMMA RisingFinish ==
    \A s \in Services :
        Types /\ Rising /\ (OneWriter \/ OneEditor) /\ (BumpDocument(s) \/ EditorSaved(s)) => Rising'
<1> SUFFICES ASSUME NEW s \in Services, Types, Rising, OneWriter \/ OneEditor,
                    BumpDocument(s) \/ EditorSaved(s)
             PROVE  Rising'
  OBVIOUS
<1>1. /\ call[s] # <<>> /\ call[s] \in Seq(Effects) /\ call[s][1].op # "save"
      /\ call[s][1] = Current(s) /\ Current(s).op # "save" /\ Continue(s, <<>>)
  BY HeadTypes DEF BumpDocument, EditorSaved, Doing
<1>2. Fades(items, items')
  BY EffectFades DEF BumpDocument, EditorSaved
<1>3. ASSUME NEW e \in Editors, editor'[e] # <<>>
      PROVE  editor'[e] = editor[e] /\ (call[s][1].op = "closeEditor" => call[s][1].editor # e)
  <2>1. CASE BumpDocument(s)
    BY <1>1, <2>1 DEF BumpDocument, Doing
  <2>2. CASE EditorSaved(s)
    <3>1. editor' = [editor EXCEPT ![Current(s).editor] = <<>>]
      BY <2>2 DEF EditorSaved
    <3> QED BY <1>1, <1>3, <3>1 DEF Types
  <2> QED BY <2>1, <2>2
<1>4. <<>> \in Seq(Effects) /\ ReadOnly(<<>>)
  BY NothingSafe
<1>5. \A e \in Editors : editor'[e] # <<>> =>
         editor'[e] = editor[e] /\ (Closes(call[s], e) => Closes(<<>> \o Tail(call[s]), e))
  BY <1>1, <1>3, ClosesTail
<1> DEFINE more == <<>>
<1>6. /\ more \in Seq(Effects) /\ ReadOnly(more) /\ Continue(s, more)
      /\ \A e \in Editors : editor'[e] # <<>> =>
            editor'[e] = editor[e] /\ (Closes(call[s], e) => Closes(more \o Tail(call[s]), e))
  BY <1>1, <1>4, <1>5
<1> HIDE DEF more
<1> QED BY <1>1, <1>2, <1>6, RisingOn

LEMMA RisingSaveItem ==
    \A s \in Services : Types /\ Rising /\ (OneWriter \/ OneEditor) /\ SaveItem(s) => Rising'
<1> SUFFICES ASSUME NEW s \in Services, Types, Rising, OneWriter \/ OneEditor, SaveItem(s)
             PROVE  Rising'
  OBVIOUS
<1> DEFINE rid == Current(s).rid
           item == Current(s).item
           q == call[s]
           c == <<>> \o Tail(q)
<1>1. /\ q \in Seq(Effects) /\ q # <<>> /\ q[1] = Current(s) /\ q[1].op = "save"
      /\ q[1].rid = rid /\ q[1].item = item /\ UNCHANGED editor
  BY HeadTypes DEF SaveItem, Doing
<1>2. rid \in Rid /\ item \in Item /\ item.rev \in Nat
  BY <1>1, HeadTypes, EffectIs DEF Item
<1>3. CASE Raise(s) /\ UNCHANGED <<items, alive, changed>>
  BY <1>1, <1>3, RisingRaise
<1>4. CASE items' = Stored(cache[s], rid, item) /\ Continue(s, <<>>)
  <2>1. Versioned(items', items, rid, item)
    <3> DEFINE g == Stored(cache[s], rid, item)
    <3>1. g = Stored(cache[s], rid, item) /\ items' = g
      BY <1>4
    <3> HIDE DEF g, rid, item
    <3>2. Versioned(Stored(cache[s], rid, item), items, rid, item)
      BY <1>2, StoredVersion
    <3> QED BY <3>1, <3>2
  <2>2. s = Storer
    <3>1. 1 \in DOMAIN q
      BY <1>1, LeftOver
    <3> QED BY <1>1, <3>1 DEF Rising, ReadOnly
  <2>3. call' = [call EXCEPT ![s] = c]
    BY <1>4 DEF Continue
  <2>4. Orderly(q, items) /\ Revised(items)
    BY <2>2 DEF Rising
  <2>5. <<>> \in Seq(Effects) /\ Len(<<>>) = 0 /\ 1 \in DOMAIN q
    BY <1>1, LeftOver
  <2>6. c = Tail(q)
    BY <1>1
  <2>7. \A e \in Editors : editor[e] # <<>> =>
           OneEditor /\ s = "gui" /\ UpToDate(q, e, editor[e][1], items)
    BY <2>2 DEF Rising, Storer
  <2> HIDE DEF q, rid, item, c
  <2>8. Remains(q, c, 0)
    BY <1>1, <2>5, RestStores, NothingSafe DEF c
  <2>9. Orderly(c, items') /\ Revised(items')
    <3>1. q[1].op = "save" /\ q[1].item.rev \in Nat
      BY <1>1, <1>2
    <3>2. /\ DOMAIN items' = DOMAIN items \cup {q[1].rid}
          /\ items'[q[1].rid].rev = q[1].item.rev /\ items'[q[1].rid].text = q[1].item.text
          /\ \A r \in DOMAIN items : r # q[1].rid => items'[r] = items[r]
      BY <1>1, <2>1 DEF Versioned
    <3> QED BY <2>4, <2>8, <3>1, <3>2, OrderlySaved
  <2>10. ASSUME NEW e \in Editors, editor[e] # <<>> PROVE UpToDate(c, e, editor[e][1], items')
    <3> DEFINE h == editor[e][1]
    <3>1. UpToDate(q, e, h, items) /\ ~Closes(q, e)
      BY <1>1, <2>5, <2>7, <2>10 DEF Closes
    <3> HIDE DEF h
    <3>2. CASE Closes(Tail(q), e)
      <4>1. UpToDate(c, e, h, items')
        BY <2>6, <3>1, <3>2 DEF UpToDate
      <4> QED BY <4>1 DEF h
    <3>3. CASE \A i \in DOMAIN q : q[i].op = "save" /\ q[i].rid = h.rid => q[i].item.rev <= h.item.rev
      <4>1. h.rid \in DOMAIN items' => items'[h.rid].rev <= h.item.rev
        BY <1>1, <2>1, <2>5, <3>1, <3>3 DEF UpToDate, Versioned
      <4>2. \A i \in DOMAIN c : c[i].op = "save" /\ c[i].rid = h.rid => c[i].item.rev <= h.item.rev
        BY <2>8, <3>3 DEF Remains
      <4>3. UpToDate(c, e, h, items')
        BY <3>1, <4>1, <4>2 DEF UpToDate
      <4> QED BY <4>3 DEF h
    <3> QED BY <3>1, <3>2, <3>3 DEF UpToDate
  <2>11. \A e \in Editors : editor'[e] # <<>> =>
            /\ OneEditor
            /\ s = "gui" => UpToDate(c, e, editor'[e][1], items')
            /\ s # "gui" => UpToDate(call["gui"], e, editor'[e][1], items')
    BY <1>1, <2>7, <2>10
  <2>12. /\ s = Storer => Orderly(c, items')
         /\ s # Storer => ReadOnly(c) /\ Orderly(call[Storer], items')
    BY <2>2, <2>9
  <2>13. Revised(items')
    BY <2>9
  <2> QED BY <2>3, <2>11, <2>12, <2>13, RisingFrom
<1> QED BY <1>3, <1>4 DEF SaveItem, StoreItem

LEMMA RisingInit == StartsRevised /\ Init => Rising
<1> SUFFICES ASSUME StartsRevised, Init PROVE Rising
  OBVIOUS
<1>1. Revised(items)
  BY DEF Init, StartsRevised, Revised
<1>2. \A s \in Services : call[s] = <<>>
  BY DEF Init
<1>3. Storer \in Services
  BY DEF Storer, Writer, Services
<1>4. \A e \in Editors : editor[e] = <<>>
  BY DEF Init
<1> QED BY <1>1, <1>2, <1>3, <1>4, NothingOrderly, NothingSafe DEF Rising

LEMMA RisingUnchanged ==
    ASSUME Rising, UNCHANGED <<items, call, editor>>
    PROVE  Rising'
BY DEF Rising, Revised, Orderly, Follows, ReadOnly, UpToDate, Closes

LEMMA RisingStep ==
    Types /\ SweptOK /\ Undisturbed /\ Rising /\ (OneWriter \/ OneEditor) /\ [Next]_vars => Rising'
<1> SUFFICES ASSUME Types, SweptOK, Undisturbed, Rising, OneWriter \/ OneEditor, [Next]_vars
             PROVE  Rising'
  OBVIOUS
<1>1. CASE Tool
  <2>1. CASE ToolListDocument
    BY <2>1, RisingUnchanged DEF ToolListDocument
  <2> QED BY <1>1, <2>1, RisingToolCreate, RisingToolUpdate, RisingToolSave,
             RisingDeleteRequirement DEF Tool, Services
<1>2. CASE User
  BY <1>2, RisingOpenEditor, RisingNewRequirement, RisingSaveEditor, RisingClone, RisingCopy,
     RisingMove, RisingDeleteRequirement, RisingDocuments DEF User, Services
<1>3. ASSUME NEW s \in Services, Effect(s) PROVE Rising'
  <2>1. CASE SweepItem(s) \/ SweepSave(s)
    BY <2>1, SweepsAtOnce, RisingSweepItem, RisingUnchanged
  <2> QED BY <1>3, <2>1, RisingSaveItem, RisingDeleteFile, RisingSweepDocument, RisingOther,
             RisingFinish DEF Effect
<1>4. CASE UNCHANGED vars
  BY <1>4, RisingUnchanged DEF vars
<1> QED BY <1>1, <1>2, <1>3, <1>4 DEF Next

\* The one step that changes a statement is a save, and it follows the file.
LEMMA StatementStep ==
    ASSUME Types, SweptOK, Undisturbed, Rising, [Next]_vars
    PROVE  \A r \in DOMAIN items \cap DOMAIN items' :
              items'[r].text # items[r].text => items'[r].rev > items[r].rev
<1>1. CASE Fades(items, items')
  BY <1>1 DEF Fades
<1>2. ASSUME NEW s \in Services, SaveItem(s), ~UNCHANGED items
      PROVE  \A r \in DOMAIN items \cap DOMAIN items' :
                items'[r].text # items[r].text => items'[r].rev > items[r].rev
  <2> DEFINE rid == Current(s).rid
             item == Current(s).item
             q == call[s]
  <2>1. /\ q \in Seq(Effects) /\ q # <<>> /\ 1 \in DOMAIN q /\ q[1].op = "save"
        /\ q[1].rid = rid /\ q[1].item = item /\ rid \in Rid /\ item \in Item
    BY <1>2, HeadTypes, EffectIs, LeftOver DEF SaveItem, Doing
  <2>2. Orderly(q, items)
    BY <2>1 DEF Rising, ReadOnly
  <2>3. rid \in DOMAIN items => Follows(item, items[rid])
    BY <2>1, <2>2 DEF Orderly
  <2> DEFINE g == Stored(cache[s], rid, item)
  <2>4. items' = g /\ g = Stored(cache[s], rid, item)
    BY <1>2 DEF SaveItem, StoreItem
  <2>5. item.rev \in Nat /\ (rid \in DOMAIN items => items[rid].rev \in Nat)
    BY <2>1 DEF Types, FilesOK, Item
  <2> HIDE DEF g, rid, item, q
  <2>6. Versioned(Stored(cache[s], rid, item), items, rid, item)
    BY <2>1, StoredVersion
  <2>7. Versioned(g, items, rid, item)
    BY <2>4, <2>6
  <2> QED BY <2>3, <2>4, <2>5, <2>7 DEF Versioned, Follows
<1>3. CASE UNCHANGED items
  BY <1>3, FadesSame, <1>1
<1>4. ASSUME NEW s \in Services, Effect(s), ~SaveItem(s) PROVE Fades(items, items')
  <2>1. CASE SweepItem(s) \/ SweepSave(s)
    BY <2>1, SweepsAtOnce, EffectFades
  <2> QED BY <1>4, <2>1, EffectFades DEF Effect, BumpDocument, SweepDocument, SaveDocument,
             DropContents, RefreshDocuments, EditorSaved
<1>5. UNCHANGED items \/ \E s \in Services : Effect(s)
  BY ZenonT(60) DEF Next, Tool, User, ToolCreate, ToolUpdateField, ToolSetLinks, ToolLink,
     DeleteRequirement, ToolListDocument, OpenEditor, NewRequirement, SaveEditor,
     CloneRequirement, CopyRequirement, MoveRequirement, CreateDocument, ReparentDocument,
     DeleteDocument, Begin, vars
<1> QED BY <1>1, <1>2, <1>3, <1>4, <1>5

\* A new statement of a requirement comes with a higher revision, so that links made
\* before become suspect: where one of the two services stores and deletes, from no
\* window, or from one by a user who also clones; both may change documents.  Under two
\* windows, or a tool's edit under an open one or under a deletion's sweep, a new
\* statement may be saved with an old revision, or an old one put back.
THEOREM StatementsRaiseRevisions ==
    ASSUME OneWriter \/ OneEditor, OneHand, StartsRevised
    PROVE  Spec => StatementRaisesRevision
<1>1. Init => Rising
  BY RisingInit
<1>2. Types /\ SweptOK /\ Undisturbed /\ Rising /\ [Next]_vars => Rising'
  BY RisingStep
<1>3. Types /\ SweptOK /\ Undisturbed /\ Rising /\ [Next]_vars =>
         [\A r \in DOMAIN items \cap DOMAIN items' :
             items'[r].text # items[r].text => items'[r].rev > items[r].rev]_vars
  BY StatementStep
<1>4. Spec => []Undisturbed
  BY AlwaysUndisturbed
<1> QED BY <1>1, <1>2, <1>3, <1>4, AlwaysTypes, PTL DEF Spec, StatementRaisesRevision

-------------------------------------------------------------------------------
(* The GUI alone: where its call is, and what the files and counters are then  *)

GuiAlone ==
    Uses \subseteq {"clone", "copy", "move", "delete", "create_document", "delete_document"}

\* Links lead to other requirements, in the documents above; only to x, which is gone,
\* may the files in late still have one.
Anchored(D, f, x, late) ==
    \A r \in DOMAIN f :
        /\ r[1] \in DOMAIN D
        /\ \A t \in DOMAIN f[r].links :
             /\ t # r /\ t[1] \in DOMAIN D /\ IsAncestor(D, r[1], t[1])
             /\ t \in DOMAIN f \/ (t = x /\ r \in late)
Unbroken(D, f) == Anchored(D, f, <<>>, {})

\* The revisions of the documents P count the changes, but that the documents behind
\* have one to count yet and those ahead have counted one that is to come.
Even(P, D, n, behind, ahead) ==
    \A p \in P : D[p].rev + (IF p \in behind THEN 1 ELSE 0)
                 = 1 + n[p] + (IF p \in ahead THEN 1 ELSE 0)

\* The disk has the documents of the cache, and perhaps one that is new.
Ahead(D, E, n) ==
    /\ \A p \in DOMAIN D : p \in DOMAIN E /\ E[p] = D[p]
    /\ \A p \in Prefix : p \notin DOMAIN D => n[p] = 0 /\ (p \in DOMAIN E => E[p].rev = 1)

\* A plan that from number k + 1 on only drops documents and reads them again.
Quiet(q, k) == \A i \in DOMAIN q : i > k => q[i].op \in {"dropDocument", "refresh"}

Resting(D, q, f, n) == Quiet(q, 0) /\ Unbroken(D, f) /\ Even(DOMAIN D, D, n, {}, {})

\* A document is about to be written that is not there.
Writing(D, q, f, n) ==
    /\ q # <<>> /\ q[1].op = "writeDocument" /\ Quiet(q, 1)
    /\ q[1].prefix \notin DOMAIN D /\ q[1].doc.rev = 1
    /\ Unbroken(D, f) /\ Even(DOMAIN D, D, n, {}, {})

\* A change of one document and its bump, which must not be lost between the two.
BumpNext(q, p) == Len(q) >= 2 /\ q[2].op = "bump" /\ q[2].prefix = p /\ Quiet(q, 2)

Adding(D, q, f, n) ==
    /\ q # <<>> /\ q[1].op = "save" /\ BumpNext(q, q[1].rid[1])
    /\ q[1].rid \notin DOMAIN f /\ q[1].rid[1] \in DOMAIN D
    /\ DOMAIN q[1].item.links \subseteq DOMAIN f
    /\ Unbroken(D, f) /\ Even(DOMAIN D, D, n, {}, {})

Deleting(D, q, f, n) ==
    /\ q # <<>> /\ q[1].op = "deleteItem" /\ BumpNext(q, q[1].rid[1])
    /\ q[1].rid \in DOMAIN f
    /\ Unbroken(D, f) /\ Even(DOMAIN D, D, n, {}, {})

\* The item is gone, and the sweep has no link of any other to object to.
Swept(D, q, f) ==
    /\ q[1].rid \notin DOMAIN f /\ q[1].ids \subseteq DOMAIN f
    /\ Anchored(D, f, q[1].rid, Late(q, f))

Clearing(D, q, f, n) ==
    /\ Sweeping(q) /\ BumpNext(q, q[1].rid[1]) /\ Swept(D, q, f)
    /\ Even(DOMAIN D, D, n, {q[1].rid[1]}, {})

Bumping(D, q, f, n) ==
    /\ q # <<>> /\ q[1].op = "bump" /\ Quiet(q, 1)
    /\ Unbroken(D, f) /\ Even(DOMAIN D, D, n, {q[1].prefix}, {})

\* The items of document p are deleted, each followed by its sweep, and then p, which
\* has no documents below it, at number k.
Emptying(D, q, f, n, p, k) ==
    /\ q[k].op = "removeTree" /\ q[k].prefix = p /\ Quiet(q, k)
    /\ \A i \in DOMAIN q : i < k =>
         /\ (q[i].op = "deleteItem" /\ ~q[i].must) \/ (i = 1 /\ q[i].op = "sweep")
         /\ q[i].rid[1] = p
    /\ \A r \in DOMAIN f : r[1] = p =>
         \E i \in DOMAIN q : i < k /\ q[i].op = "deleteItem" /\ q[i].rid = r
    /\ \A c \in DOMAIN D : D[c].parent # p
    /\ IF Sweeping(q) THEN Swept(D, q, f) ELSE Unbroken(D, f)
    /\ Even(DOMAIN D \ {p}, D, n, {}, {})

\* What is left of the move of rid to new, from the end: read the documents, unlink rid
\* and bump its new document and its old one; and before these, the files that are saved.
\* The first is new, unless it has been; the others have the statement they had and links
\* save_item accepts.  None links to rid, and no file that is not among them does.
MoveLeft(q, rid, new) ==
    LET m == Len(q) IN
    /\ m >= 2
    /\ q[m].op = "refresh"
    /\ q[m - 1].op = "unlink" /\ q[m - 1].rid = rid
    /\ m >= 3 => q[m - 2].op = "bump" /\ q[m - 2].prefix = new[1]
    /\ m >= 4 => q[m - 3].op = "bump" /\ q[m - 3].prefix = rid[1]
    /\ \A i \in DOMAIN q : i + 4 <= m => q[i].op = "save"
Rewrites(D, f, e, rid, new) ==
    /\ e.rid \in DOMAIN f \ {rid} /\ e.item.text = f[e.rid].text
    /\ \A t \in DOMAIN e.item.links :
         /\ t \in (DOMAIN f \cup {new}) \ {e.rid, rid}
         /\ t[1] \in DOMAIN D /\ IsAncestor(D, e.rid[1], t[1])
Moving(D, q, f, n, rid, new) ==
    LET m == Len(q) IN
    /\ MoveLeft(q, rid, new)
    /\ rid \in DOMAIN f /\ rid[1] # new[1] /\ new[1] \in DOMAIN D
    /\ Unbroken(D, f)
    /\ new \notin DOMAIN f =>
         m > 4 /\ q[1].rid = new /\ DOMAIN q[1].item.links \subseteq DOMAIN f \ {rid}
    /\ \A i \in DOMAIN q : i + 4 <= m =>
         (i = 1 /\ new \notin DOMAIN f) \/ Rewrites(D, f, q[i], rid, new)
    /\ \A r \in DOMAIN f \ {rid} : rid \in DOMAIN f[r].links =>
         \E i \in DOMAIN q : i + 4 <= m /\ q[i].rid = r
    /\ Even(DOMAIN D, D, n, IF new \in DOMAIN f /\ m >= 3 THEN {new[1]} ELSE {},
            IF m <= 3 THEN {rid[1]} ELSE {})

Works(D, q, f, n) ==
    \/ Resting(D, q, f, n) \/ Writing(D, q, f, n) \/ Adding(D, q, f, n)
    \/ Deleting(D, q, f, n) \/ Clearing(D, q, f, n) \/ Bumping(D, q, f, n)
    \/ \E p \in Prefix, k \in DOMAIN q : Emptying(D, q, f, n, p, k)
    \/ \E rid, new \in Rid : Moving(D, q, f, n, rid, new)
GuiWorks ==
    /\ call["mcp"] = <<>> /\ Ahead(cache["gui"], docs, changed)
    /\ Works(cache["gui"], call["gui"], items, changed)

-------------------------------------------------------------------------------
(* Chains of parents                                                           *)

\* What holds of 0 and of the successor of each number it holds of, up to n.
LEMMA CountedUp ==
    ASSUME NEW n \in Nat, NEW S, 0 \in S, \A i \in 0 .. n : i \in S /\ i < n => i + 1 \in S
    PROVE  0 .. n \subseteq S
<1> SUFFICES ASSUME NEW k \in 0 .. n, k \notin S PROVE FALSE
  OBVIOUS
<1> DEFINE B == {i \in 0 .. n : i \notin S}
<1>1. B \in SUBSET Nat /\ B # {}
  OBVIOUS
<1>2. PICK m \in B : \A i \in B : m <= i
  <2> HIDE DEF B
  <2> QED BY <1>1, Minimum
<1>3. m # 0 /\ m \in 0 .. n /\ m \notin S
  OBVIOUS
<1>4. m - 1 \in 0 .. n /\ m - 1 \notin B
  BY <1>2, <1>3
<1> QED BY <1>3, <1>4

\* A walk up the parents from p, n steps long.
Above(parents, x) == IF x \in DOMAIN parents THEN parents[x] ELSE NoDoc
Walk(parents, p, n, up) ==
    /\ up = [i \in 0 .. n |-> up[i]] /\ up[0] = p
    /\ \A i \in 1 .. n : up[i] = Above(parents, up[i - 1])

LEMMA Walks ==
    ASSUME NEW parents, NEW p, NEW n \in Nat
    PROVE  \E up : Walk(parents, p, n, up)
<1> DEFINE T == {m \in 0 .. n : \E up : Walk(parents, p, m, up)}
<1>1. 0 \in T
  <2> DEFINE up == [i \in 0 .. 0 |-> p]
  <2>1. Walk(parents, p, 0, up)
    BY DEF Walk
  <2> QED BY <2>1
<1>2. ASSUME NEW m \in 0 .. n, m \in T, m < n PROVE m + 1 \in T
  <2>1. PICK up : Walk(parents, p, m, up)
    BY <1>2
  <2> DEFINE more == [i \in 0 .. (m + 1) |-> IF i = m + 1 THEN Above(parents, up[m]) ELSE up[i]]
  <2>2. more[0] = p
    BY <2>1 DEF Walk
  <2>3. ASSUME NEW i \in 1 .. (m + 1) PROVE more[i] = Above(parents, more[i - 1])
    <3>1. CASE i = m + 1
      BY <3>1
    <3>2. CASE i # m + 1
      <4>1. i \in 1 .. m /\ i - 1 \in 0 .. m /\ i - 1 # m + 1
        BY <3>2
      <4>2. up[i] = Above(parents, up[i - 1])
        BY <2>1, <4>1 DEF Walk
      <4> QED BY <3>2, <4>1, <4>2
    <3> QED BY <3>1, <3>2
  <2>4. more = [i \in 0 .. (m + 1) |-> more[i]]
    OBVIOUS
  <2> HIDE DEF more
  <2>5. Walk(parents, p, m + 1, more)
    BY <2>2, <2>3, <2>4 DEF Walk
  <2> QED BY <1>2, <2>5
<1> HIDE DEF T
<1>3. 0 .. n \subseteq T
  BY <1>1, <1>2, CountedUp
<1> QED BY <1>3 DEF T

LEMMA ChainWalks ==
    ASSUME NEW parents, NEW p
    PROVE  LET n == Cardinality(Prefix)
           IN  n \in Nat /\ \E up : /\ Walk(parents, p, n, up)
                                    /\ Chain(parents, p) = {up[i] : i \in 0 .. n} \ {NoDoc}
<1> DEFINE n == Cardinality(Prefix)
           IsUp(up) == up = [i \in 0 .. n |->
               IF i = 0 THEN p ELSE IF up[i - 1] \in DOMAIN parents THEN parents[up[i - 1]] ELSE NoDoc]
           up == CHOOSE u : IsUp(u)
<1>1. n \in Nat
  BY FS_CardinalityType, StoreAssumption
<1>2. Chain(parents, p) = {up[i] : i \in 0 .. n} \ {NoDoc}
  BY DEF Chain
<1> HIDE DEF n
<1>3. PICK v : Walk(parents, p, n, v)
  BY <1>1, Walks
<1>4. IsUp(v)
  <2>1. \A i \in 0 .. n : v[i] = IF i = 0 THEN p ELSE Above(parents, v[i - 1])
    <3> SUFFICES ASSUME NEW i \in 0 .. n
                 PROVE  v[i] = IF i = 0 THEN p ELSE Above(parents, v[i - 1])
      OBVIOUS
    <3>1. i # 0 => i \in 1 .. n
      BY <1>1
    <3> QED BY <1>3, <3>1 DEF Walk
  <2>2. v = [i \in 0 .. n |-> v[i]]
    BY <1>3 DEF Walk
  <2> QED BY <2>1, <2>2 DEF Above
<1>5. IsUp(up)
  <2> HIDE DEF IsUp
  <2> QED BY <1>4
<1> HIDE DEF up
<1>6. \A i \in 0 .. n : up[i] = IF i = 0 THEN p ELSE Above(parents, up[i - 1])
  BY <1>5 DEF Above
<1>7. up = [i \in 0 .. n |-> up[i]]
  BY <1>5
<1> HIDE DEF IsUp
<1>8. up[0] = p /\ \A i \in 1 .. n : up[i] = Above(parents, up[i - 1])
  <2>1. 0 \in 0 .. n /\ \A i \in 1 .. n : i \in 0 .. n /\ i # 0
    BY <1>1
  <2> QED BY <1>6, <2>1
<1>9. Walk(parents, p, n, up)
  BY <1>7, <1>8 DEF Walk
<1> QED BY <1>1, <1>2, <1>9 DEF n

\* Where the parents of D are those of E too, the chains of D are part of those of E.
LEMMA ChainGrows ==
    ASSUME NEW D, NEW E, \A x \in DOMAIN D : x \in DOMAIN E /\ E[x].parent = D[x].parent,
           NoDoc \notin DOMAIN D, NEW p, NEW a, IsAncestor(D, p, a)
    PROVE  IsAncestor(E, p, a)
<1> DEFINE n == Cardinality(Prefix)
<1>1. n \in Nat
  BY FS_CardinalityType, StoreAssumption
<1>2. PICK u : /\ Walk(ParentsIn(D), p, n, u)
               /\ Chain(ParentsIn(D), p) = {u[i] : i \in 0 .. n} \ {NoDoc}
  BY ChainWalks
<1>3. PICK v : /\ Walk(ParentsIn(E), p, n, v)
               /\ Chain(ParentsIn(E), p) = {v[i] : i \in 0 .. n} \ {NoDoc}
  BY ChainWalks
<1>4. \A x \in DOMAIN D : Above(ParentsIn(D), x) = Above(ParentsIn(E), x)
  BY DEF Above, ParentsIn
<1>5. \A x : x \notin DOMAIN D => Above(ParentsIn(D), x) = NoDoc
  BY DEF Above, ParentsIn
<1> DEFINE S == {i \in 0 .. n : u[i] = NoDoc \/ u[i] = v[i]}
<1> HIDE DEF n
<1>6. 0 \in S
  BY <1>1, <1>2, <1>3 DEF Walk
<1>7. ASSUME NEW i \in 0 .. n, i \in S, i < n PROVE i + 1 \in S
  <2>1. i + 1 \in 1 .. n /\ i + 1 \in 0 .. n /\ (i + 1) - 1 = i
    BY <1>1, <1>7
  <2>2. u[i + 1] = Above(ParentsIn(D), u[i]) /\ v[i + 1] = Above(ParentsIn(E), v[i])
    BY <1>2, <1>3, <2>1 DEF Walk
  <2>3. CASE u[i] \in DOMAIN D
    BY <1>4, <1>7, <2>1, <2>2, <2>3
  <2>4. CASE u[i] \notin DOMAIN D
    BY <1>5, <2>1, <2>2, <2>4
  <2> QED BY <2>3, <2>4
<1>8. 0 .. n \subseteq S
  <2> HIDE DEF S
  <2> QED BY <1>1, <1>6, <1>7, CountedUp
<1>9. PICK i \in 0 .. n : a = u[i] /\ a # NoDoc
  BY <1>2 DEF IsAncestor
<1>10. a = v[i]
  BY <1>8, <1>9
<1> QED BY <1>3, <1>9, <1>10 DEF IsAncestor

\* A document that is the parent of none is on no chain but its own.
LEMMA ChainStays ==
    ASSUME NEW D, NEW x \in Prefix, \A c \in DOMAIN D : D[c].parent # x,
           NEW p, p # x, NEW a, IsAncestor(D, p, a)
    PROVE  a # x /\ IsAncestor(Without(D, x), p, a)
<1> DEFINE n == Cardinality(Prefix)
           E == Without(D, x)
<1>1. n \in Nat /\ x # NoDoc
  BY FS_CardinalityType, StoreAssumption
<1>2. PICK u : /\ Walk(ParentsIn(D), p, n, u)
               /\ Chain(ParentsIn(D), p) = {u[i] : i \in 0 .. n} \ {NoDoc}
  BY ChainWalks
<1>3. PICK v : /\ Walk(ParentsIn(E), p, n, v)
               /\ Chain(ParentsIn(E), p) = {v[i] : i \in 0 .. n} \ {NoDoc}
  BY ChainWalks
<1>4. DOMAIN E = DOMAIN D \ {x} /\ \A y \in DOMAIN E : E[y] = D[y]
  BY RestrictIs DEF Without
<1> HIDE DEF E
<1>5. \A y : y # x => Above(ParentsIn(D), y) = Above(ParentsIn(E), y)
  BY <1>4 DEF Above, ParentsIn
<1>6. \A y : Above(ParentsIn(D), y) # x
  BY <1>1 DEF Above, ParentsIn
<1> DEFINE S == {i \in 0 .. n : u[i] # x /\ u[i] = v[i]}
<1> HIDE DEF n
<1>7. 0 \in S
  BY <1>1, <1>2, <1>3 DEF Walk
<1>8. ASSUME NEW i \in 0 .. n, i \in S, i < n PROVE i + 1 \in S
  <2>1. i + 1 \in 1 .. n /\ i + 1 \in 0 .. n /\ (i + 1) - 1 = i
    BY <1>1, <1>8
  <2>2. u[i + 1] = Above(ParentsIn(D), u[i]) /\ v[i + 1] = Above(ParentsIn(E), v[i])
    BY <1>2, <1>3, <2>1 DEF Walk
  <2> QED BY <1>5, <1>6, <1>8, <2>1, <2>2
<1>9. 0 .. n \subseteq S
  <2> HIDE DEF S
  <2> QED BY <1>1, <1>7, <1>8, CountedUp
<1>10. PICK i \in 0 .. n : a = u[i] /\ a # NoDoc
  BY <1>2 DEF IsAncestor
<1>11. a = v[i] /\ a # x
  BY <1>9, <1>10
<1> QED BY <1>3, <1>10, <1>11 DEF IsAncestor, E

-------------------------------------------------------------------------------
(* Where a call goes on                                                        *)

LEMMA TailIs ==
    ASSUME NEW q \in Seq(Effects), q # <<>>
    PROVE  /\ Tail(q) \in Seq(Effects) /\ Len(Tail(q)) = Len(q) - 1
           /\ Len(q) \in Nat \ {0} /\ DOMAIN q = 1 .. Len(q) /\ DOMAIN Tail(q) = 1 .. (Len(q) - 1)
           /\ 1 \in DOMAIN q /\ q[1] \in Effects
           /\ \A i \in DOMAIN Tail(q) : i + 1 \in DOMAIN q /\ Tail(q)[i] = q[i + 1]
           /\ \A i \in DOMAIN q : i > 1 => i - 1 \in DOMAIN Tail(q) /\ Tail(q)[i - 1] = q[i]
<1> DEFINE t == Tail(q)
<1>1. /\ t \in Seq(Effects) /\ Len(t) = Len(q) - 1 /\ Len(q) \in Nat \ {0}
      /\ DOMAIN q = 1 .. Len(q) /\ DOMAIN t = 1 .. Len(t)
  OBVIOUS
<1>2. \A i \in 1 .. Len(t) : t[i] = q[i + 1]
  OBVIOUS
<1> HIDE DEF t
<1>3. 1 \in DOMAIN q /\ q[1] \in Effects
  BY <1>1
<1>4. \A i \in DOMAIN t : i + 1 \in DOMAIN q /\ t[i] = q[i + 1]
  BY <1>1, <1>2
<1>5. ASSUME NEW i \in DOMAIN q, i > 1 PROVE i - 1 \in DOMAIN t /\ t[i - 1] = q[i]
  <2>1. i - 1 \in 1 .. Len(t) /\ (i - 1) + 1 = i
    BY <1>1, <1>5
  <2>2. t[i - 1] = q[(i - 1) + 1]
    BY <1>2, <2>1
  <2> QED BY <1>1, <2>1, <2>2
<1> QED BY <1>1, <1>3, <1>4, <1>5 DEF t

\* The first effect of a plan in the place of what is done.
LEMMA HeadReplaced ==
    ASSUME NEW q \in Seq(Effects), q # <<>>, NEW e \in Effects
    PROVE  LET c == <<e>> \o Tail(q)
           IN  /\ c \in Seq(Effects) /\ c # <<>> /\ Len(c) = Len(q) /\ DOMAIN c = DOMAIN q
               /\ c[1] = e /\ \A i \in DOMAIN q : i > 1 => c[i] = q[i]
<1> DEFINE c == <<e>> \o Tail(q)
           t == Tail(q)
<1>1. /\ t \in Seq(Effects) /\ Len(t) = Len(q) - 1 /\ DOMAIN t = 1 .. (Len(q) - 1)
      /\ Len(q) \in Nat \ {0} /\ DOMAIN q = 1 .. Len(q)
      /\ \A i \in DOMAIN q : i > 1 => i - 1 \in DOMAIN t /\ t[i - 1] = q[i]
  BY TailIs
<1> HIDE DEF t
<1>2. <<e>> \in Seq(Effects) /\ Len(<<e>>) = 1 /\ <<e>>[1] = e
  OBVIOUS
<1> DEFINE h == <<e>>
<1> HIDE DEF h
<1>3. /\ h \o t \in Seq(Effects) /\ Len(h \o t) = Len(h) + Len(t)
      /\ \A i \in 1 .. Len(h) + Len(t) : (h \o t)[i] = IF i <= Len(h) THEN h[i] ELSE t[i - Len(h)]
  BY <1>1, <1>2 DEF h
<1>4. Len(h) = 1 /\ h[1] = e
  BY <1>2 DEF h
<1> DEFINE d == h \o t
<1>5. /\ d \in Seq(Effects) /\ Len(d) = Len(q) /\ DOMAIN d = DOMAIN q /\ d[1] = e
  BY <1>1, <1>3, <1>4
<1>6. ASSUME NEW i \in DOMAIN q, i > 1 PROVE d[i] = q[i]
  <2>1. d[i] = t[i - 1]
    BY <1>1, <1>3, <1>4, <1>6
  <2> QED BY <1>1, <1>6, <2>1
<1>7. d = c
  BY DEF h, t
<1>8. d # <<>>
  BY <1>1, <1>5
<1> QED BY <1>5, <1>6, <1>7, <1>8

LEMMA NoneThen == \A q \in Seq(Effects) : <<>> \o q = q
OBVIOUS

LEMMA GuiContinues ==
    ASSUME Types, call["gui"] # <<>>, NEW more, Continue("gui", more)
    PROVE  /\ call'["gui"] = more \o Tail(call["gui"]) /\ call'["mcp"] = call["mcp"]
           /\ more = <<>> => call'["gui"] = Tail(call["gui"])
<1>1. call["gui"] \in Seq(Effects)
  BY DEF Types, ServicesOK, Services, Underway
<1>2. Tail(call["gui"]) \in Seq(Effects)
  BY <1>1, TailIs
<1>3. call'["gui"] = more \o Tail(call["gui"]) /\ call'["mcp"] = call["mcp"]
  BY DEF Continue, Types, ServicesOK, Services
<1> QED BY <1>2, <1>3, NoneThen

\* The effect the GUI's call has come to.
LEMMA GuiHead ==
    ASSUME Types, GuiWorks, call["gui"] # <<>>
    PROVE  /\ Current("gui") = call["gui"][1] /\ Current("gui") \in Effects
           /\ call["gui"] \in Seq(Effects) /\ "gui" \in Services
           /\ IsDocuments(cache["gui"]) /\ IsDocuments(docs)
           /\ Current("gui").op = "bump" => Current("gui").prefix \in DOMAIN cache["gui"]
           /\ Works(cache["gui"], call["gui"], items, changed)
           /\ Ahead(cache["gui"], docs, changed) /\ call["mcp"] = <<>>
<1>1. "gui" \in Services
  BY DEF Services
<1> QED BY <1>1, HeadTypes DEF GuiWorks, Types, FilesOK

\* With no plan left, all is counted and all links resolve.
LEMMA IdleRests ==
    ASSUME NEW D, NEW f, NEW n, Works(D, <<>>, f, n)
    PROVE  Unbroken(D, f) /\ Even(DOMAIN D, D, n, {}, {})
<1>1. DOMAIN <<>> = {} /\ Len(<<>>) = 0
  OBVIOUS
<1>2. \A rid, new : ~ Moving(D, <<>>, f, n, rid, new)
  BY <1>1 DEF Moving, MoveLeft
<1>3. ~ (Writing(D, <<>>, f, n) \/ Adding(D, <<>>, f, n) \/ Deleting(D, <<>>, f, n)
         \/ Clearing(D, <<>>, f, n) \/ Bumping(D, <<>>, f, n))
  BY DEF Writing, Adding, Deleting, Clearing, Sweeping, Bumping
<1> QED BY <1>1, <1>2, <1>3 DEF Works, Resting

LEMMA RestsIdle ==
    ASSUME NEW D, NEW f, NEW n, Unbroken(D, f), Even(DOMAIN D, D, n, {}, {})
    PROVE  Works(D, <<>>, f, n)
<1>1. DOMAIN <<>> = {}
  OBVIOUS
<1>2. Quiet(<<>>, 0)
  BY <1>1 DEF Quiet
<1> QED BY <1>2 DEF Works, Resting

\* The effect at the head tells where the call is.
EmptyingFrom(D, q, f, n) == \E p \in Prefix, k \in DOMAIN q : Emptying(D, q, f, n, p, k)
MovingFrom(D, q, f, n) == \E rid, new \in Rid : Moving(D, q, f, n, rid, new)

LEMMA EmptyingHead ==
    ASSUME NEW q \in Seq(Effects), q # <<>>, NEW D, NEW f, NEW n, NEW p, NEW k \in DOMAIN q,
           Emptying(D, q, f, n, p, k)
    PROVE  /\ k = 1 => q[1].op = "removeTree" /\ q[1].prefix = p
           /\ k > 1 => /\ q[1].op \in {"deleteItem", "sweep"} /\ q[1].rid[1] = p
                       /\ q[1].op = "deleteItem" => ~q[1].must
           /\ k >= 1
<1>1. 1 \in DOMAIN q /\ k >= 1
  BY TailIs
<1> QED BY <1>1 DEF Emptying

LEMMA MovingHead ==
    ASSUME NEW q \in Seq(Effects), q # <<>>, NEW D, NEW f, NEW n, NEW rid, NEW new,
           Moving(D, q, f, n, rid, new)
    PROVE  LET m == Len(q)
           IN  /\ m \in Nat /\ (m = 2 \/ m = 3 \/ m = 4 \/ m > 4)
               /\ m = 2 => q[1].op = "unlink"
               /\ m = 3 \/ m = 4 => q[1].op = "bump"
               /\ m > 4 => q[1].op = "save"
               /\ q[1].op \in {"save", "bump", "unlink"}
<1> DEFINE m == Len(q)
<1>1. m \in Nat /\ 1 \in DOMAIN q /\ m >= 2 /\ DOMAIN q = 1 .. m
  BY TailIs DEF Moving, MoveLeft
<1>2. /\ m = 2 => q[1].op = "unlink"
      /\ m = 3 => q[1].op = "bump"
      /\ m = 4 => q[1].op = "bump"
  BY <1>1 DEF Moving, MoveLeft
<1>3. m > 4 => q[1].op = "save"
  BY <1>1 DEF Moving, MoveLeft
<1>4. m = 2 \/ m = 3 \/ m = 4 \/ m > 4
  BY <1>1
<1> HIDE DEF m
<1> QED BY <1>1, <1>2, <1>3, <1>4 DEF m

LEMMA HeadTells ==
    ASSUME NEW q \in Seq(Effects), q # <<>>, NEW D, NEW f, NEW n, Works(D, q, f, n)
    PROVE  /\ q[1].op = "save" => Adding(D, q, f, n) \/ MovingFrom(D, q, f, n)
           /\ q[1].op = "bump" => Bumping(D, q, f, n) \/ MovingFrom(D, q, f, n)
           /\ q[1].op = "unlink" => MovingFrom(D, q, f, n)
           /\ q[1].op = "deleteItem" => Deleting(D, q, f, n) \/ EmptyingFrom(D, q, f, n)
           /\ q[1].op = "sweep" => Clearing(D, q, f, n) \/ EmptyingFrom(D, q, f, n)
           /\ q[1].op = "writeDocument" => Writing(D, q, f, n)
           /\ q[1].op \in {"dropDocument", "refresh"} => Resting(D, q, f, n)
           /\ q[1].op = "removeTree" => EmptyingFrom(D, q, f, n)
           /\ q[1].op # "closeEditor"
<1>1. 1 \in DOMAIN q
  BY TailIs
<1>2. Resting(D, q, f, n) => q[1].op \in {"dropDocument", "refresh"}
  BY <1>1 DEF Resting, Quiet
<1>3. EmptyingFrom(D, q, f, n) => q[1].op \in {"removeTree", "deleteItem", "sweep"}
  <2> SUFFICES ASSUME NEW p \in Prefix, NEW k \in DOMAIN q, Emptying(D, q, f, n, p, k)
               PROVE  q[1].op \in {"removeTree", "deleteItem", "sweep"}
    BY DEF EmptyingFrom
  <2>1. k = 1 \/ k > 1
    BY TailIs
  <2> QED BY <2>1, EmptyingHead
<1>4. MovingFrom(D, q, f, n) => q[1].op \in {"save", "bump", "unlink"}
  BY MovingHead DEF MovingFrom
<1>5. /\ Writing(D, q, f, n) => q[1].op = "writeDocument"
      /\ Adding(D, q, f, n) => q[1].op = "save"
      /\ Deleting(D, q, f, n) => q[1].op = "deleteItem"
      /\ Clearing(D, q, f, n) => q[1].op = "sweep"
      /\ Bumping(D, q, f, n) => q[1].op = "bump"
  BY DEF Writing, Adding, Deleting, Clearing, Sweeping, Bumping
<1>6. \/ Resting(D, q, f, n) \/ Writing(D, q, f, n) \/ Adding(D, q, f, n)
      \/ Deleting(D, q, f, n) \/ Clearing(D, q, f, n) \/ Bumping(D, q, f, n)
      \/ EmptyingFrom(D, q, f, n) \/ MovingFrom(D, q, f, n)
  BY DEF Works, EmptyingFrom, MovingFrom
<1> QED BY <1>2, <1>3, <1>4, <1>5, <1>6

\* What is quiet stays so.
LEMMA QuietTail ==
    ASSUME NEW q \in Seq(Effects), q # <<>>, NEW k \in Nat, Quiet(q, k)
    PROVE  Quiet(Tail(q), IF k = 0 THEN 0 ELSE k - 1)
<1>1. ASSUME NEW i \in DOMAIN Tail(q), i > (IF k = 0 THEN 0 ELSE k - 1)
      PROVE  Tail(q)[i].op \in {"dropDocument", "refresh"}
  <2>1. i + 1 \in DOMAIN q /\ Tail(q)[i] = q[i + 1] /\ i \in Nat
    BY TailIs
  <2>2. i + 1 > k
    BY <1>1, <2>1
  <2> QED BY <2>1, <2>2 DEF Quiet
<1> QED BY <1>1 DEF Quiet

\* A change is made, and its bump comes next.
LEMMA BumpComes ==
    ASSUME NEW q \in Seq(Effects), q # <<>>, NEW p, BumpNext(q, p), NEW D, NEW f, NEW n,
           Unbroken(D, f), Even(DOMAIN D, D, n, {p}, {})
    PROVE  Works(D, Tail(q), f, n)
<1>1. Len(q) \in Nat /\ Len(q) >= 2 /\ 1 \in DOMAIN Tail(q) /\ Tail(q)[1] = q[2] /\ Tail(q) # <<>>
  <2>1. Len(q) \in Nat /\ 2 \in DOMAIN q /\ 2 > 1 /\ 2 - 1 = 1
    BY TailIs DEF BumpNext
  <2>2. 1 \in DOMAIN Tail(q) /\ Tail(q)[1] = q[2]
    BY <2>1, TailIs
  <2>3. DOMAIN <<>> = {}
    OBVIOUS
  <2>4. Tail(q) # <<>>
    BY <2>2, <2>3
  <2> QED BY <2>1, <2>2, <2>4 DEF BumpNext
<1>2. Quiet(Tail(q), 1)
  BY QuietTail DEF BumpNext
<1>3. Bumping(D, Tail(q), f, n)
  BY <1>1, <1>2 DEF Bumping, BumpNext
<1> QED BY <1>3 DEF Works

LEMMA RestComes ==
    ASSUME NEW q \in Seq(Effects), q # <<>>, Quiet(q, 1), NEW D, NEW f, NEW n,
           Unbroken(D, f), Even(DOMAIN D, D, n, {}, {})
    PROVE  Works(D, Tail(q), f, n)
<1>1. Quiet(Tail(q), 0)
  BY QuietTail
<1> QED BY <1>1 DEF Works, Resting

-------------------------------------------------------------------------------
(* Documents that are written, read and removed                                *)

\* Reading the documents again, there may be one more.
LEMMA ReadingRests ==
    ASSUME NEW D, NEW E, IsDocuments(D), IsDocuments(E), NEW f, NEW n, Ahead(D, E, n),
           Unbroken(D, f), Even(DOMAIN D, D, n, {}, {})
    PROVE  Ahead(E, E, n) /\ Unbroken(E, f) /\ Even(DOMAIN E, E, n, {}, {})
<1>1. /\ DOMAIN D \subseteq Prefix /\ DOMAIN E \subseteq Prefix /\ NoDoc \notin DOMAIN D
      /\ \A x \in DOMAIN D : x \in DOMAIN E /\ E[x] = D[x]
  BY StoreAssumption DEF IsDocuments, Ahead
<1>2. Ahead(E, E, n)
  BY <1>1 DEF Ahead
<1>3. Even(DOMAIN E, E, n, {}, {})
  BY <1>1 DEF Ahead, Even
<1>4. \A p, a : IsAncestor(D, p, a) => IsAncestor(E, p, a)
  BY <1>1, ChainGrows
<1>5. Unbroken(E, f)
  BY <1>1, <1>4 DEF Unbroken, Anchored
<1> QED BY <1>2, <1>3, <1>5

LEMMA GuiRefreshes == Types /\ GuiWorks /\ RefreshDocuments("gui") => GuiWorks'
<1> SUFFICES ASSUME Types, GuiWorks, RefreshDocuments("gui") PROVE GuiWorks'
  OBVIOUS
<1> DEFINE q == call["gui"]
           D == cache["gui"]
<1>1. /\ q # <<>> /\ Current("gui").op = "refresh" /\ Continue("gui", <<>>)
      /\ cache' = [cache EXCEPT !["gui"] = docs] /\ UNCHANGED <<docs, items, changed>>
  BY DEF RefreshDocuments, Doing
<1>2. /\ q \in Seq(Effects) /\ q[1].op = "refresh" /\ Works(D, q, items, changed)
      /\ IsDocuments(D) /\ IsDocuments(docs) /\ Ahead(D, docs, changed) /\ call["mcp"] = <<>>
  BY <1>1, GuiHead
<1>3. call'["gui"] = Tail(q) /\ call'["mcp"] = <<>>
  BY <1>1, <1>2, GuiContinues
<1>4. cache'["gui"] = docs
  BY <1>1 DEF Types, ServicesOK, Services
<1> HIDE DEF q, D
<1>5. Resting(D, q, items, changed)
  BY <1>1, <1>2, HeadTells
<1>6. /\ Ahead(docs, docs, changed) /\ Unbroken(docs, items)
      /\ Even(DOMAIN docs, docs, changed, {}, {})
  BY <1>2, <1>5, ReadingRests DEF Resting
<1>7. Quiet(q, 1)
  BY <1>2, <1>5, TailIs DEF Resting, Quiet
<1>8. Works(docs, Tail(q), items, changed)
  BY <1>1, <1>2, <1>6, <1>7, RestComes
<1> QED BY <1>1, <1>3, <1>4, <1>6, <1>8 DEF GuiWorks

LEMMA GuiSavesDocument == Types /\ GuiWorks /\ SaveDocument("gui") => GuiWorks'
<1> SUFFICES ASSUME Types, GuiWorks, SaveDocument("gui") PROVE GuiWorks'
  OBVIOUS
<1> DEFINE q == call["gui"]
           D == cache["gui"]
           p == Current("gui").prefix
           d == Current("gui").doc
<1>1. /\ q # <<>> /\ Current("gui").op = "writeDocument" /\ Continue("gui", <<>>)
      /\ docs' = With(docs, p, d) /\ UNCHANGED <<cache, items, changed>>
  BY DEF SaveDocument, Doing
<1>2. /\ q \in Seq(Effects) /\ q[1].op = "writeDocument" /\ Works(D, q, items, changed)
      /\ IsDocuments(D) /\ IsDocuments(docs) /\ Ahead(D, docs, changed) /\ call["mcp"] = <<>>
      /\ p = q[1].prefix /\ d = q[1].doc
  BY <1>1, GuiHead
<1>3. call'["gui"] = Tail(q) /\ call'["mcp"] = <<>>
  BY <1>1, <1>2, GuiContinues
<1> HIDE DEF q, D, p, d
<1>4. Writing(D, q, items, changed)
  BY <1>1, <1>2, HeadTells
<1>5. Ahead(D, docs', changed)
  <2>1. p \notin DOMAIN D /\ d.rev = 1
    BY <1>2, <1>4 DEF Writing
  <2>2. /\ DOMAIN docs' = DOMAIN docs \cup {p} /\ docs'[p] = d
        /\ \A x \in DOMAIN docs : x # p => docs'[x] = docs[x]
    BY <1>1 DEF With
  <2> QED BY <1>2, <2>1, <2>2 DEF Ahead
<1>6. Works(D, Tail(q), items, changed)
  BY <1>1, <1>2, <1>4, RestComes DEF Writing
<1> QED BY <1>1, <1>3, <1>5, <1>6 DEF GuiWorks, D

\* A document without items, and that none is below, is removed.
LEMMA RemovingRests ==
    ASSUME NEW D, NEW E, NEW p \in Prefix, NEW f, NEW n \in [Prefix -> Nat], Ahead(D, E, n),
           IsDocuments(D), Unbroken(D, f), Even(DOMAIN D \ {p}, D, n, {}, {}),
           \A r \in DOMAIN f : r[1] # p, \A c \in DOMAIN D : D[c].parent # p
    PROVE  /\ Ahead(Without(D, p), Without(E, p), [n EXCEPT ![p] = 0])
           /\ Unbroken(Without(D, p), f)
           /\ Even(DOMAIN Without(D, p), Without(D, p), [n EXCEPT ![p] = 0], {}, {})
<1> DEFINE A == Without(D, p)
           B == Without(E, p)
           m == [n EXCEPT ![p] = 0]
<1>1. /\ DOMAIN A = DOMAIN D \ {p} /\ \A x \in DOMAIN A : A[x] = D[x]
      /\ DOMAIN B = DOMAIN E \ {p} /\ \A x \in DOMAIN B : B[x] = E[x]
  BY RestrictIs DEF Without
<1>2. m[p] = 0 /\ \A x \in Prefix : x # p => m[x] = n[x]
  OBVIOUS
<1>3. \A c, a : c # p /\ IsAncestor(D, c, a) => a # p /\ IsAncestor(A, c, a)
  BY ChainStays
<1>4. DOMAIN D \subseteq Prefix
  BY DEF IsDocuments
<1> HIDE DEF A, B, m
<1>5. Ahead(A, B, m)
  BY <1>1, <1>2 DEF Ahead
<1>6. Even(DOMAIN A, A, m, {}, {})
  BY <1>1, <1>2, <1>4 DEF Even
<1>7. Unbroken(A, f)
  BY <1>1, <1>3 DEF Unbroken, Anchored
<1> QED BY <1>5, <1>6, <1>7 DEF A, B, m

LEMMA GuiRemovesDirectory == Types /\ GuiWorks /\ RemoveDirectory("gui") => GuiWorks'
<1> SUFFICES ASSUME Types, GuiWorks, RemoveDirectory("gui") PROVE GuiWorks'
  OBVIOUS
<1> DEFINE q == call["gui"]
           D == cache["gui"]
           p == Current("gui").prefix
<1>1. /\ q # <<>> /\ Current("gui").op = "removeTree" /\ Continue("gui", <<>>)
      /\ docs' = Without(docs, p)
      /\ items' = Restrict(items, DOMAIN items \ RidsOf(p))
      /\ changed' = [changed EXCEPT ![p] = 0]
      /\ cache' = [cache EXCEPT !["gui"] = Without(@, p)]
  BY DEF RemoveDirectory, Doing
<1>2. /\ q \in Seq(Effects) /\ q[1].op = "removeTree" /\ Works(D, q, items, changed)
      /\ IsDocuments(D) /\ IsDocuments(docs) /\ Ahead(D, docs, changed) /\ call["mcp"] = <<>>
      /\ p = q[1].prefix /\ p \in Prefix
  BY <1>1, GuiHead, EffectIs
<1>3. call'["gui"] = Tail(q) /\ call'["mcp"] = <<>>
  BY <1>1, <1>2, GuiContinues
<1>4. cache'["gui"] = Without(D, p) /\ changed \in [Prefix -> Nat]
  BY <1>1 DEF Types, ServicesOK, Services, CountersOK
<1> HIDE DEF q, D, p
<1>5. EmptyingFrom(D, q, items, changed)
  BY <1>1, <1>2, HeadTells
<1>6. PICK x \in Prefix, k \in DOMAIN q : Emptying(D, q, items, changed, x, k)
  BY <1>5 DEF EmptyingFrom
<1>7. k = 1 /\ x = p
  <2>1. k \in Nat
    BY <1>1, <1>2, TailIs
  <2> QED BY <1>1, <1>2, <1>6, <2>1, EmptyingHead
<1>8. /\ Quiet(q, 1) /\ ~Sweeping(q) /\ Unbroken(D, items)
      /\ Even(DOMAIN D \ {p}, D, changed, {}, {})
      /\ \A c \in DOMAIN D : D[c].parent # p
  BY <1>2, <1>6, <1>7 DEF Emptying, Sweeping
<1>9. \A r \in DOMAIN items : r[1] # p
  <2>1. DOMAIN q \subseteq Nat \ {0}
    BY <1>1, <1>2, TailIs
  <2> QED BY <1>6, <1>7, <2>1 DEF Emptying
<1>10. DOMAIN items' = DOMAIN items /\ \A r \in DOMAIN items' : items'[r] = items[r]
  <2>1. RidsOf(p) = {}
    BY <1>9 DEF RidsOf
  <2> QED BY <1>1, <2>1, RestrictIs
<1>11. /\ Ahead(Without(D, p), docs', changed') /\ Unbroken(Without(D, p), items)
       /\ Even(DOMAIN Without(D, p), Without(D, p), changed', {}, {})
  BY <1>1, <1>2, <1>4, <1>8, <1>9, RemovingRests
<1>12. Unbroken(Without(D, p), items')
  BY <1>10, <1>11 DEF Unbroken, Anchored
<1>13. Works(Without(D, p), Tail(q), items', changed')
  BY <1>1, <1>2, <1>8, <1>11, <1>12, RestComes
<1> QED BY <1>3, <1>4, <1>11, <1>13 DEF GuiWorks

\* A list of the items of S has each of them.
LEMMA ListsAll ==
    ASSUME NEW S, S \subseteq Rid, NEW g \in [1 .. Cardinality(S) -> S], IsInjective(g)
    PROVE  \A r \in S : \E i \in 1 .. Cardinality(S) : g[i] = r
<1> DEFINE n == Cardinality(S)
<1>1. IsFiniteSet(S) /\ n \in Nat
  <2>1. IsFiniteSet(1 .. MaxId)
    BY FS_Interval, StoreAssumption
  <2>2. IsFiniteSet(Prefix \X (1 .. MaxId))
    BY <2>1, FS_Product, StoreAssumption
  <2>3. IsFiniteSet(S)
    BY <2>2, FS_Subset DEF Rid
  <2> QED BY <2>3, FS_CardinalityType
<1>2. Cardinality(1 .. n) = n
  <2> HIDE DEF n
  <2>1. Cardinality(1 .. n) = IF 1 > n THEN 0 ELSE n - 1 + 1
    BY <1>1, FS_Interval
  <2> QED BY <1>1, <2>1
<1>3. g \in Injection(1 .. n, S)
  BY DEF Injection
<1>4. g \in Surjection(1 .. n, S)
  <2> HIDE DEF n
  <2> QED BY <1>1, <1>2, <1>3, FS_Injection DEF n
<1> QED BY <1>4 DEF Surjection

\* The deletions of the items of a document.
Deletions(a, p, f) ==
    /\ a \in Seq(Effects)
    /\ \A i \in DOMAIN a : a[i].op = "deleteItem" /\ ~a[i].must /\ a[i].rid[1] = p
    /\ \A r \in DOMAIN f : r[1] = p => \E i \in DOMAIN a : a[i].rid = r

LEMMA DeletionsOf ==
    ASSUME Types, NEW p \in Prefix
    PROVE  LET rids == RidsOf(p)
               order == CHOOSE f \in [1..Cardinality(rids) -> rids] : IsInjective(f)
           IN  Deletions([i \in DOMAIN order |-> DeleteItem(order[i], FALSE)[1]], p, items)
<1> DEFINE rids == RidsOf(p)
           n == Cardinality(rids)
           order == CHOOSE f \in [1..n -> rids] : IsInjective(f)
           deletes == [i \in DOMAIN order |-> DeleteItem(order[i], FALSE)[1]]
<1>1. rids \subseteq Rid /\ \A r \in DOMAIN items : r[1] = p <=> r \in rids
  BY DEF RidsOf, Types, FilesOK
<1>2. n \in Nat /\ order \in [1 .. n -> rids] /\ IsInjective(order)
  BY <1>1, ListOf
<1>3. \A r \in rids : \E i \in 1 .. n : order[i] = r
  <2> HIDE DEF order, rids
  <2> QED BY <1>1, <1>2, ListsAll
<1>4. \A r \in rids : r[1] = p
  BY DEF RidsOf
<1> HIDE DEF n, order, rids
<1>5. ASSUME NEW i \in 1 .. n
      PROVE  /\ deletes[i] \in Effects /\ deletes[i].op = "deleteItem" /\ ~deletes[i].must
             /\ deletes[i].rid = order[i] /\ deletes[i].rid[1] = p
  <2>1. order[i] \in Rid /\ DOMAIN order = 1 .. n /\ order[i] \in rids
    BY <1>1, <1>2
  <2>2. deletes[i] = [op |-> "deleteItem", rid |-> order[i], must |-> FALSE]
    BY <2>1 DEF DeleteItem
  <2>3. order[i][1] = p
    BY <1>4, <2>1
  <2> HIDE DEF deletes
  <2>4. deletes[i] \in Effects
    BY <2>1, <2>2 DEF Effects
  <2> QED BY <2>2, <2>3, <2>4
<1>6. deletes = [i \in 1 .. n |-> deletes[i]]
  BY <1>2
<1> HIDE DEF deletes
<1>7. deletes \in Seq(Effects) /\ DOMAIN deletes = 1 .. n
  BY <1>2, <1>5, <1>6, Listed
<1>8. \A r \in DOMAIN items : r[1] = p => \E i \in DOMAIN deletes : deletes[i].rid = r
  BY <1>1, <1>3, <1>5, <1>7
<1>9. Deletions(deletes, p, items)
  BY <1>5, <1>7, <1>8 DEF Deletions
<1> QED BY <1>9 DEF deletes, order, n, rids

\* The deletions of all items, then that of the directory.
LEMMA EmptyingBegins ==
    ASSUME NEW q \in Seq(Effects), q # <<>>, Quiet(q, 1), NEW D, NEW f, NEW n,
           NEW p \in Prefix, NEW a, Deletions(a, p, f),
           Unbroken(D, f), Even(DOMAIN D, D, n, {}, {}), \A c \in DOMAIN D : D[c].parent # p
    PROVE  Works(D, (a \o RemoveTree(p)) \o Tail(q), f, n)
<1> DEFINE b == RemoveTree(p)
           more == a \o b
           c == more \o Tail(q)
           k == Len(a) + 1
<1>1. /\ b \in Seq(Effects) /\ DOMAIN b = {1} /\ Len(b) = 1
      /\ b[1].op = "removeTree" /\ b[1].prefix = p
  <2> DEFINE e == [op |-> "removeTree", prefix |-> p]
  <2>1. e \in Effects /\ e.op = "removeTree" /\ e.prefix = p
    BY DEF Effects
  <2>2. b = <<e>>
    BY DEF RemoveTree
  <2> HIDE DEF e, b
  <2> QED BY <2>1, <2>2, OneEffect
<1>2. a \in Seq(Effects) /\ Len(a) \in Nat /\ DOMAIN a = 1 .. Len(a)
  BY DEF Deletions
<1> HIDE DEF b
<1>3. /\ more \in Seq(Effects) /\ Len(more) = k /\ DOMAIN more = 1 .. k
      /\ \A i \in DOMAIN a : more[i] = a[i]
      /\ more[k] = b[1]
  <2> DEFINE m == a \o b
  <2>1. m \in Seq(Effects) /\ Len(m) = Len(a) + Len(b) /\ DOMAIN m = 1 .. Len(m)
    <3>1. m \in Seq(Effects) /\ Len(m) = Len(a) + Len(b)
      BY <1>1, <1>2, Joined
    <3> HIDE DEF m
    <3> QED BY <3>1
  <2>2. \A i \in 1 .. Len(m) : m[i] = IF i <= Len(a) THEN a[i] ELSE b[i - Len(a)]
    BY <1>1, <1>2
  <2> HIDE DEF m
  <2>3. \A i \in DOMAIN a : m[i] = a[i]
    BY <1>1, <1>2, <2>1, <2>2
  <2>4. m[k] = b[1]
    BY <1>1, <1>2, <2>1, <2>2
  <2> QED BY <1>1, <1>2, <2>1, <2>3, <2>4 DEF m
<1> HIDE DEF more
<1>4. /\ Tail(q) \in Seq(Effects) /\ Len(Tail(q)) \in Nat
      /\ \A i \in 1 .. Len(Tail(q)) : Tail(q)[i].op \in {"dropDocument", "refresh"}
  <2>1. /\ Tail(q) \in Seq(Effects) /\ Len(Tail(q)) \in Nat
        /\ DOMAIN Tail(q) = 1 .. Len(Tail(q))
    BY TailIs
  <2>2. Quiet(Tail(q), 0)
    BY QuietTail
  <2> QED BY <2>1, <2>2 DEF Quiet
<1> DEFINE t == Tail(q)
<1>5. /\ c \in Seq(Effects) /\ DOMAIN c = 1 .. (k + Len(t))
      /\ \A i \in 1 .. k : c[i] = more[i]
      /\ \A i \in (k + 1) .. (k + Len(t)) : c[i] = t[i - k]
  <2> DEFINE m == more \o t
  <2> HIDE DEF t
  <2>1. m \in Seq(Effects) /\ Len(m) = Len(more) + Len(t) /\ DOMAIN m = 1 .. Len(m)
    <3>1. t \in Seq(Effects)
      BY <1>4 DEF t
    <3>2. m \in Seq(Effects) /\ Len(m) = Len(more) + Len(t)
      BY <1>3, <3>1, Joined
    <3> HIDE DEF m
    <3> QED BY <3>2
  <2>2. \A i \in 1 .. Len(m) : m[i] = IF i <= Len(more) THEN more[i] ELSE t[i - Len(more)]
    BY <1>3, <1>4 DEF t
  <2>3. Len(t) \in Nat
    BY <1>4 DEF t
  <2>4. c = m
    BY DEF t
  <2> HIDE DEF m, c
  <2>5. \A i \in 1 .. k : c[i] = more[i]
    BY <1>2, <1>3, <2>1, <2>2, <2>3, <2>4
  <2>6. \A i \in (k + 1) .. (k + Len(t)) : c[i] = t[i - k]
    BY <1>2, <1>3, <2>1, <2>2, <2>3, <2>4
  <2> QED BY <1>3, <2>1, <2>4, <2>5, <2>6
<1> HIDE DEF c, t
<1>6. k \in DOMAIN c /\ k \in 1 .. k /\ c[k].op = "removeTree" /\ c[k].prefix = p /\ k \in Nat
  <2>1. Len(t) \in Nat
    BY <1>4 DEF t
  <2> QED BY <1>1, <1>2, <1>3, <1>5, <2>1
<1>7. Quiet(c, k)
  <2> SUFFICES ASSUME NEW i \in DOMAIN c, i > k PROVE c[i].op \in {"dropDocument", "refresh"}
    BY DEF Quiet
  <2>1. Len(t) \in Nat
    BY <1>4 DEF t
  <2>2. i \in (k + 1) .. (k + Len(t)) /\ i - k \in 1 .. Len(t)
    BY <1>5, <1>6, <2>1
  <2> QED BY <1>4, <1>5, <2>2 DEF t
<1>8. \A i \in DOMAIN c : i < k => i \in DOMAIN a /\ c[i] = a[i]
  <2> SUFFICES ASSUME NEW i \in DOMAIN c, i < k PROVE i \in DOMAIN a /\ c[i] = a[i]
    OBVIOUS
  <2>1. i \in 1 .. k /\ i \in DOMAIN a
    BY <1>2, <1>5
  <2> QED BY <1>3, <1>5, <2>1
<1>9. \A i \in DOMAIN a : i \in DOMAIN c /\ i < k
  <2>1. Len(t) \in Nat
    BY <1>4 DEF t
  <2> QED BY <1>2, <1>5, <2>1
<1>10. ~Sweeping(c)
  <2>1. c[1].op \in {"deleteItem", "removeTree"}
    <3>1. CASE k = 1
      BY <1>6, <3>1
    <3>2. CASE 1 < k
      <4>1. 1 \in DOMAIN a
        BY <1>2, <3>2
      <4> QED BY <1>8, <1>9, <4>1 DEF Deletions
    <3> QED BY <1>2, <3>1, <3>2
  <2> QED BY <2>1 DEF Sweeping
<1>11. Even(DOMAIN D \ {p}, D, n, {}, {})
  BY DEF Even
<1> HIDE DEF k
<1>12. Emptying(D, c, f, n, p, k)
  <2>1. \A i \in DOMAIN c : i < k =>
           /\ (c[i].op = "deleteItem" /\ ~c[i].must) \/ (i = 1 /\ c[i].op = "sweep")
           /\ c[i].rid[1] = p
    BY <1>8 DEF Deletions
  <2>2. \A r \in DOMAIN f : r[1] = p =>
           \E i \in DOMAIN c : i < k /\ c[i].op = "deleteItem" /\ c[i].rid = r
    BY <1>8, <1>9 DEF Deletions
  <2> QED BY <1>6, <1>7, <1>10, <1>11, <2>1, <2>2 DEF Emptying
<1> QED BY <1>6, <1>12 DEF Works, c, more, b, t

LEMMA GuiDrops == Types /\ GuiWorks /\ DropContents("gui") => GuiWorks'
<1> SUFFICES ASSUME Types, GuiWorks, DropContents("gui") PROVE GuiWorks'
  OBVIOUS
<1> DEFINE q == call["gui"]
           D == cache["gui"]
           p == Current("gui").prefix
           children == {c \in DOMAIN D : D[c].parent = p}
           rids == RidsOf(p)
           order == CHOOSE f \in [1..Cardinality(rids) -> rids] : IsInjective(f)
           deletes == [i \in DOMAIN order |-> DeleteItem(order[i], FALSE)[1]]
<1>1. /\ q # <<>> /\ Current("gui").op = "dropDocument"
      /\ UNCHANGED <<docs, items, cache, changed>>
  BY DEF DropContents, Doing
<1>2. \/ \E c \in children : Continue("gui", DropDocument(c) \o DropDocument(p))
      \/ children = {} /\ Continue("gui", deletes \o RemoveTree(p))
  BY DEF DropContents
<1>3. /\ q \in Seq(Effects) /\ q[1].op = "dropDocument" /\ Works(D, q, items, changed)
      /\ IsDocuments(D) /\ Ahead(D, docs, changed) /\ call["mcp"] = <<>>
      /\ p = q[1].prefix /\ p \in Prefix
  BY <1>1, GuiHead, EffectIs
<1>4. Resting(D, q, items, changed)
  <2> HIDE DEF q, D
  <2> QED BY <1>1, <1>3, HeadTells
<1>5. \A more : Continue("gui", more) =>
         call'["gui"] = more \o Tail(q) /\ call'["mcp"] = <<>>
  BY <1>1, <1>3, GuiContinues
<1>6. ASSUME NEW c \in children, Continue("gui", DropDocument(c) \o DropDocument(p))
      PROVE  GuiWorks'
  <2> DEFINE a == DropDocument(c)
             b == DropDocument(p)
             more == a \o b
  <2>1. c \in Prefix
    BY <1>3 DEF IsDocuments
  <2>2. /\ a \in Seq(Effects) /\ DOMAIN a = {1} /\ a[1].op = "dropDocument"
        /\ b \in Seq(Effects) /\ DOMAIN b = {1} /\ b[1].op = "dropDocument"
    BY <1>3, <2>1, DropIs
  <2>3. call'["gui"] = more \o Tail(q) /\ call'["mcp"] = <<>>
    BY <1>5, <1>6
  <2> HIDE DEF a, b
  <2>4. more \in Seq(Effects) /\ \A i \in DOMAIN more : more[i].op = "dropDocument"
    BY <2>2, Joined
  <2> HIDE DEF more, q, D
  <2>5. Quiet(more \o Tail(q), 0)
    <3> SUFFICES ASSUME NEW i \in DOMAIN (more \o Tail(q))
                 PROVE  (more \o Tail(q))[i].op \in {"dropDocument", "refresh"}
      BY DEF Quiet
    <3>1. DOMAIN q \subseteq Nat \ {0}
      BY <1>1, <1>3, TailIs
    <3>2. \A j \in DOMAIN q : q[j].op \in {"dropDocument", "refresh"}
      BY <1>4, <3>1 DEF Resting, Quiet
    <3> QED BY <1>1, <1>3, <2>4, <3>2, LeftOver
  <2>6. Works(D, more \o Tail(q), items, changed)
    BY <1>4, <2>5 DEF Works, Resting
  <2> QED BY <1>1, <1>3, <2>3, <2>6 DEF GuiWorks, D
<1>7. CASE children = {} /\ Continue("gui", deletes \o RemoveTree(p))
  <2>1. Deletions(deletes, p, items)
    BY <1>3, DeletionsOf
  <2>2. call'["gui"] = (deletes \o RemoveTree(p)) \o Tail(q) /\ call'["mcp"] = <<>>
    BY <1>5, <1>7
  <2>3. \A c \in DOMAIN D : D[c].parent # p
    BY <1>7
  <2> HIDE DEF deletes, p, q, D
  <2>4. Quiet(q, 1)
    BY <1>1, <1>3, <1>4, TailIs DEF Resting, Quiet
  <2>5. Works(D, (deletes \o RemoveTree(p)) \o Tail(q), items, changed)
    BY <1>1, <1>3, <1>4, <2>1, <2>3, <2>4, EmptyingBegins DEF Resting
  <2> QED BY <1>1, <1>3, <2>2, <2>5 DEF GuiWorks, D
<1> QED BY <1>2, <1>6, <1>7

-------------------------------------------------------------------------------
(* Bumps                                                                       *)

\* Document p counts one change more.
LEMMA BumpedIs ==
    ASSUME NEW D, NEW E, IsDocuments(D), NEW p \in DOMAIN D, NEW n, Ahead(D, E, n), NEW f,
           Unbroken(D, f)
    PROVE  LET d == [D[p] EXCEPT !.rev = @ + 1]
               A == [D EXCEPT ![p] = d]
           IN  /\ DOMAIN A = DOMAIN D /\ Ahead(A, With(E, p, d), n) /\ Unbroken(A, f)
               /\ \A c, a : IsAncestor(A, c, a) <=> IsAncestor(D, c, a)
               /\ A[p].rev = D[p].rev + 1 /\ A[p].rev \in Nat /\ D[p].rev \in Nat
               /\ \A x \in DOMAIN D : x # p => A[x] = D[x]
<1> DEFINE d == [D[p] EXCEPT !.rev = @ + 1]
           A == [D EXCEPT ![p] = d]
           B == With(E, p, d)
<1>1. d.parent = D[p].parent /\ d.rev = D[p].rev + 1 /\ D[p].rev \in Nat
  BY DEF IsDocuments, Document
<1>2. DOMAIN A = DOMAIN D /\ \A x \in DOMAIN D : A[x] = IF x = p THEN d ELSE D[x]
  OBVIOUS
<1>3. DOMAIN B = DOMAIN E \cup {p} /\ \A x \in DOMAIN B : B[x] = IF x = p THEN d ELSE E[x]
  BY DEF With
<1>4. ParentsIn(A) = ParentsIn(D)
  <2> HIDE DEF d, A
  <2>1. \A x \in DOMAIN D : A[x].parent = D[x].parent
    BY <1>1, <1>2
  <2> QED BY <1>2, <2>1 DEF ParentsIn
<1> HIDE DEF d, A, B
<1>5. \A c, a : IsAncestor(A, c, a) <=> IsAncestor(D, c, a)
  BY <1>4 DEF IsAncestor
<1>6. Ahead(A, B, n)
  BY <1>2, <1>3 DEF Ahead
<1>7. Unbroken(A, f)
  BY <1>2, <1>5 DEF Unbroken, Anchored
<1>8. A[p].rev = D[p].rev + 1 /\ A[p].rev \in Nat /\ \A x \in DOMAIN D : x # p => A[x] = D[x]
  BY <1>1, <1>2
<1>9. /\ DOMAIN A = DOMAIN D /\ Ahead(A, B, n) /\ Unbroken(A, f)
      /\ \A c, a : IsAncestor(A, c, a) <=> IsAncestor(D, c, a)
      /\ A[p].rev = D[p].rev + 1 /\ A[p].rev \in Nat /\ D[p].rev \in Nat
      /\ \A x \in DOMAIN D : x # p => A[x] = D[x]
  BY <1>1, <1>2, <1>5, <1>6, <1>7, <1>8
<1> QED BY <1>9 DEF d, A, B

\* The last effects of a move.
LEMMA MoveTail ==
    ASSUME NEW q \in Seq(Effects), q # <<>>, NEW rid, NEW new, MoveLeft(q, rid, new), Len(q) > 2
    PROVE  MoveLeft(Tail(q), rid, new)
<1> DEFINE m == Len(q)
           t == Tail(q)
<1>1. /\ m \in Nat /\ Len(t) = m - 1 /\ DOMAIN q = 1 .. m /\ DOMAIN t = 1 .. (m - 1)
      /\ \A i \in DOMAIN t : i + 1 \in DOMAIN q /\ t[i] = q[i + 1]
      /\ \A i \in DOMAIN q : i > 1 => i - 1 \in DOMAIN t /\ t[i - 1] = q[i]
  BY TailIs
<1>2. m > 2
  OBVIOUS
<1> HIDE DEF m, t
<1>3. t[m - 1] = q[m] /\ t[m - 2] = q[m - 1]
  <2>1. m \in DOMAIN q /\ m - 1 \in DOMAIN q /\ m > 1 /\ m - 1 > 1 /\ (m - 1) - 1 = m - 2
    BY <1>1, <1>2
  <2> QED BY <1>1, <2>1
<1>4. m - 1 >= 3 => t[m - 3] = q[m - 2]
  <2> SUFFICES ASSUME m - 1 >= 3 PROVE t[m - 3] = q[m - 2]
    OBVIOUS
  <2>1. m - 2 \in DOMAIN q /\ m - 2 > 1 /\ (m - 2) - 1 = m - 3
    BY <1>1
  <2> QED BY <1>1, <2>1
<1>5. m - 1 >= 4 => t[m - 4] = q[m - 3]
  <2> SUFFICES ASSUME m - 1 >= 4 PROVE t[m - 4] = q[m - 3]
    OBVIOUS
  <2>1. m - 3 \in DOMAIN q /\ m - 3 > 1 /\ (m - 3) - 1 = m - 4
    BY <1>1
  <2> QED BY <1>1, <2>1
<1>6. /\ q[m].op = "refresh"
      /\ q[m - 1].op = "unlink" /\ q[m - 1].rid = rid
      /\ m >= 3 => q[m - 2].op = "bump" /\ q[m - 2].prefix = new[1]
      /\ m >= 4 => q[m - 3].op = "bump" /\ q[m - 3].prefix = rid[1]
      /\ \A i \in DOMAIN q : i + 4 <= m => q[i].op = "save"
  BY DEF MoveLeft, m
<1>7. \A i \in DOMAIN t : i + 4 <= m - 1 => t[i].op = "save"
  <2> SUFFICES ASSUME NEW i \in DOMAIN t, i + 4 <= m - 1 PROVE t[i].op = "save"
    OBVIOUS
  <2>1. i + 1 \in DOMAIN q /\ t[i] = q[i + 1] /\ (i + 1) + 4 <= m
    BY <1>1
  <2> QED BY <1>6, <2>1
<1>8. (m - 1) - 1 = m - 2 /\ (m - 1) - 2 = m - 3 /\ (m - 1) - 3 = m - 4
  BY <1>1
<1>9. (m - 1 >= 3 => m >= 3) /\ (m - 1 >= 3 => m >= 4) /\ (m - 1 >= 4 => m >= 4) /\ m - 1 >= 2
  BY <1>1, <1>2
<1>10. /\ m - 1 >= 2
       /\ t[m - 1].op = "refresh"
       /\ t[(m - 1) - 1].op = "unlink" /\ t[(m - 1) - 1].rid = rid
       /\ m - 1 >= 3 => t[(m - 1) - 2].op = "bump" /\ t[(m - 1) - 2].prefix = new[1]
       /\ m - 1 >= 4 => t[(m - 1) - 3].op = "bump" /\ t[(m - 1) - 3].prefix = rid[1]
       /\ \A i \in DOMAIN t : i + 4 <= m - 1 => t[i].op = "save"
  BY <1>3, <1>4, <1>5, <1>6, <1>7, <1>8, <1>9
<1> QED BY <1>1, <1>10 DEF MoveLeft, m, t

LEMMA MovingBumps ==
    ASSUME NEW q \in Seq(Effects), q # <<>>, NEW D, NEW A, NEW f, NEW n \in [Prefix -> Nat],
           NEW rid, NEW new, Moving(D, q, f, n, rid, new), Len(q) = 3 \/ Len(q) = 4,
           IsDocuments(D), NEW p \in DOMAIN D, p = q[1].prefix,
           DOMAIN A = DOMAIN D, Unbroken(A, f),
           \A c, a : IsAncestor(A, c, a) <=> IsAncestor(D, c, a),
           A[p].rev = D[p].rev + 1, D[p].rev \in Nat,
           \A x \in DOMAIN D : x # p => A[x] = D[x]
    PROVE  Moving(A, Tail(q), f, n, rid, new)
<1> DEFINE m == Len(q)
           t == Tail(q)
<1>1. /\ m \in Nat /\ Len(t) = m - 1 /\ DOMAIN q \subseteq Nat \ {0} /\ DOMAIN t \subseteq Nat \ {0}
      /\ DOMAIN q = 1 .. m
  BY TailIs
<1>2. MoveLeft(t, rid, new)
  BY <1>1, MoveTail DEF Moving
<1>3. m >= 3 /\ ~ (m > 4) /\ (m <= 3 <=> m = 3) /\ \A i \in DOMAIN q : ~ (i + 4 <= m)
  <2> HIDE DEF t
  <2>1. m = 3 \/ m = 4
    OBVIOUS
  <2> HIDE DEF m
  <2> QED BY <1>1, <2>1
<1>4. /\ new \in DOMAIN f /\ rid \in DOMAIN f /\ rid[1] # new[1] /\ new[1] \in DOMAIN D
      /\ \A r \in DOMAIN f \ {rid} : rid \notin DOMAIN f[r].links
      /\ Even(DOMAIN D, D, n, IF new \in DOMAIN f /\ m >= 3 THEN {new[1]} ELSE {},
              IF m <= 3 THEN {rid[1]} ELSE {})
  <2>1. /\ rid \in DOMAIN f /\ rid[1] # new[1] /\ new[1] \in DOMAIN D
        /\ new \notin DOMAIN f => m > 4
        /\ \A r \in DOMAIN f \ {rid} : rid \in DOMAIN f[r].links =>
               \E i \in DOMAIN q : i + 4 <= m /\ q[i].rid = r
        /\ Even(DOMAIN D, D, n, IF new \in DOMAIN f /\ m >= 3 THEN {new[1]} ELSE {},
                IF m <= 3 THEN {rid[1]} ELSE {})
    BY DEF Moving
  <2> HIDE DEF m, t
  <2> QED BY <1>3, <2>1
<1>5. Even(DOMAIN D, D, n, {new[1]}, IF m = 3 THEN {rid[1]} ELSE {})
  <2> HIDE DEF m, t
  <2>1. (IF new \in DOMAIN f /\ m >= 3 THEN {new[1]} ELSE {}) = {new[1]}
    BY <1>3, <1>4
  <2>2. (IF m <= 3 THEN {rid[1]} ELSE {}) = (IF m = 3 THEN {rid[1]} ELSE {})
    BY <1>3
  <2> QED BY <1>4, <2>1, <2>2
<1>6. p = IF m = 3 THEN new[1] ELSE rid[1]
  <2>1. CASE m = 3
    BY <1>1, <2>1 DEF Moving, MoveLeft
  <2>2. CASE m = 4
    BY <1>1, <2>2 DEF Moving, MoveLeft
  <2> QED BY <2>1, <2>2
<1>7. Even(DOMAIN A, A, n, IF m = 4 THEN {new[1]} ELSE {}, {rid[1]})
  <2> SUFFICES ASSUME NEW x \in DOMAIN D
               PROVE  A[x].rev + (IF x \in (IF m = 4 THEN {new[1]} ELSE {}) THEN 1 ELSE 0)
                      = 1 + n[x] + (IF x \in {rid[1]} THEN 1 ELSE 0)
    BY DEF Even
  <2>1. D[x].rev \in Nat /\ n[x] \in Nat
    BY DEF IsDocuments, Document
  <2>2. D[x].rev + (IF x = new[1] THEN 1 ELSE 0)
        = 1 + n[x] + (IF m = 3 /\ x = rid[1] THEN 1 ELSE 0)
    BY <1>5 DEF Even
  <2> HIDE DEF m, t
  <2>3. m = 3 \/ m = 4
    BY DEF m
  <2>4. CASE m = 3
    <3>1. p = new[1] /\ ~ (m = 4)
      BY <1>6, <2>4
    <3> QED BY <1>4, <2>1, <2>2, <2>4, <3>1
  <2>5. CASE m = 4
    <3>1. p = rid[1] /\ ~ (m = 3)
      BY <1>6, <2>5
    <3> QED BY <1>4, <2>1, <2>2, <2>5, <3>1
  <2> QED BY <2>3, <2>4, <2>5
<1> HIDE DEF m, t
<1>8. m = 3 \/ m = 4
  BY DEF m
<1>9. \A i \in DOMAIN t : ~ (i + 4 <= Len(t))
  BY <1>1, <1>8
<1>10. Even(DOMAIN A, A, n, IF new \in DOMAIN f /\ Len(t) >= 3 THEN {new[1]} ELSE {},
            IF Len(t) <= 3 THEN {rid[1]} ELSE {})
  <2>1. CASE m = 3
    BY <1>1, <1>7, <2>1
  <2>2. CASE m = 4
    BY <1>1, <1>4, <1>7, <2>2
  <2> QED BY <1>8, <2>1, <2>2
<1>11. Moving(A, t, f, n, rid, new)
  BY <1>2, <1>4, <1>9, <1>10 DEF Moving
<1> QED BY <1>11 DEF t

LEMMA GuiBumps == Types /\ GuiWorks /\ BumpDocument("gui") => GuiWorks'
<1> SUFFICES ASSUME Types, GuiWorks, BumpDocument("gui") PROVE GuiWorks'
  OBVIOUS
<1> DEFINE q == call["gui"]
           D == cache["gui"]
           p == Current("gui").prefix
           d == [D[p] EXCEPT !.rev = @ + 1]
           A == [D EXCEPT ![p] = d]
<1>1. /\ q # <<>> /\ Current("gui").op = "bump" /\ Continue("gui", <<>>)
      /\ cache' = [cache EXCEPT !["gui"][p] = d] /\ docs' = With(docs, p, d)
      /\ UNCHANGED <<items, changed>>
  BY DEF BumpDocument, Doing
<1>2. /\ q \in Seq(Effects) /\ q[1].op = "bump" /\ Works(D, q, items, changed)
      /\ IsDocuments(D) /\ Ahead(D, docs, changed) /\ call["mcp"] = <<>>
      /\ p = q[1].prefix /\ p \in DOMAIN D
  BY <1>1, GuiHead
<1>3. call'["gui"] = Tail(q) /\ call'["mcp"] = <<>>
  BY <1>1, <1>2, GuiContinues
<1>4. cache'["gui"] = A /\ changed \in [Prefix -> Nat]
  BY <1>1 DEF Types, ServicesOK, Services, CountersOK
<1>5. ASSUME Unbroken(D, items)
      PROVE  /\ DOMAIN A = DOMAIN D /\ Ahead(A, docs', changed) /\ Unbroken(A, items)
             /\ \A c, a : IsAncestor(A, c, a) <=> IsAncestor(D, c, a)
             /\ A[p].rev = D[p].rev + 1 /\ A[p].rev \in Nat /\ D[p].rev \in Nat
             /\ \A x \in DOMAIN D : x # p => A[x] = D[x]
  <2> HIDE DEF p, D
  <2>1. IsDocuments(D) /\ p \in DOMAIN D /\ Ahead(D, docs, changed) /\ Unbroken(D, items)
    BY <1>2, <1>5
  <2>2. /\ DOMAIN A = DOMAIN D /\ Ahead(A, With(docs, p, d), changed) /\ Unbroken(A, items)
        /\ \A c, a : IsAncestor(A, c, a) <=> IsAncestor(D, c, a)
        /\ A[p].rev = D[p].rev + 1 /\ A[p].rev \in Nat /\ D[p].rev \in Nat
        /\ \A x \in DOMAIN D : x # p => A[x] = D[x]
    BY <2>1, BumpedIs
  <2> HIDE DEF A, d
  <2> QED BY <1>1, <2>2
<1> HIDE DEF q, D, p, d, A
<1>6. CASE Bumping(D, q, items, changed)
  <2>1. Unbroken(D, items) /\ Quiet(q, 1) /\ Even(DOMAIN D, D, changed, {p}, {})
    BY <1>2, <1>6 DEF Bumping
  <2>2. Even(DOMAIN A, A, changed, {}, {})
    <3> SUFFICES ASSUME NEW x \in DOMAIN D PROVE A[x].rev + 0 = 1 + changed[x] + 0
      BY <1>5, <2>1 DEF Even
    <3>1. D[x].rev \in Nat /\ changed[x] \in Nat
      BY <1>2, <1>4 DEF IsDocuments, Document
    <3>2. D[x].rev + (IF x = p THEN 1 ELSE 0) = 1 + changed[x]
      BY <2>1, <3>1 DEF Even
    <3> QED BY <1>5, <2>1, <3>1, <3>2
  <2>3. Works(A, Tail(q), items, changed)
    BY <1>1, <1>2, <1>5, <2>1, <2>2, RestComes
  <2> QED BY <1>1, <1>3, <1>4, <1>5, <2>1, <2>3 DEF GuiWorks
<1>7. CASE MovingFrom(D, q, items, changed)
  <2>1. PICK rid \in Rid, new \in Rid : Moving(D, q, items, changed, rid, new)
    BY <1>7 DEF MovingFrom
  <2>2. (Len(q) = 3 \/ Len(q) = 4) /\ Unbroken(D, items)
    BY <1>1, <1>2, <2>1, MovingHead DEF Moving
  <2>3. Moving(A, Tail(q), items, changed, rid, new)
    <3>1. /\ q \in Seq(Effects) /\ q # <<>> /\ IsDocuments(D) /\ p \in DOMAIN D
          /\ p = q[1].prefix /\ changed \in [Prefix -> Nat]
      BY <1>1, <1>2, <1>4
    <3>2. /\ DOMAIN A = DOMAIN D /\ Unbroken(A, items)
          /\ \A c, a : IsAncestor(A, c, a) <=> IsAncestor(D, c, a)
          /\ A[p].rev = D[p].rev + 1 /\ D[p].rev \in Nat
          /\ \A x \in DOMAIN D : x # p => A[x] = D[x]
      BY <1>5, <2>2
    <3> QED BY <2>1, <2>2, <3>1, <3>2, MovingBumps
  <2>4. Works(A, Tail(q), items, changed)
    BY <2>3 DEF Works
  <2> QED BY <1>1, <1>3, <1>4, <1>5, <2>2, <2>4 DEF GuiWorks
<1> QED BY <1>1, <1>2, <1>6, <1>7, HeadTells

-------------------------------------------------------------------------------
(* Deletions, and the sweeps that follow them                                  *)

\* A sweep comes in the place of the deletion, or of the sweep so far.
Sweeps(q, c, e) ==
    /\ c \in Seq(Effects) /\ c # <<>> /\ Len(c) = Len(q) /\ DOMAIN c = DOMAIN q
    /\ c[1] = e /\ \A i \in DOMAIN q : i > 1 => c[i] = q[i]
    /\ e.op = "sweep" /\ e.rid = q[1].rid

LEMMA ClearingGoesOn ==
    ASSUME NEW q \in Seq(Effects), q # <<>>, NEW c, NEW e, Sweeps(q, c, e),
           BumpNext(q, q[1].rid[1]), NEW D, NEW f, NEW n, Swept(D, c, f),
           Even(DOMAIN D, D, n, {q[1].rid[1]}, {})
    PROVE  Works(D, c, f, n)
<1>1. 2 \in DOMAIN q /\ 2 > 1 /\ DOMAIN q \subseteq Nat
  BY TailIs DEF BumpNext
<1>2. \A i \in DOMAIN q : i > 2 => i > 1
  BY <1>1
<1>3. BumpNext(c, q[1].rid[1])
  BY <1>1, <1>2 DEF BumpNext, Sweeps, Quiet
<1>4. Clearing(D, c, f, n)
  BY <1>3 DEF Clearing, Sweeping, Sweeps
<1> QED BY <1>4 DEF Works

LEMMA EmptyingSweeps ==
    ASSUME NEW q \in Seq(Effects), q # <<>>, NEW c, NEW e, Sweeps(q, c, e),
           NEW D, NEW f, NEW n, NEW p \in Prefix, NEW k \in DOMAIN q, k > 1,
           Emptying(D, q, f, n, p, k), NEW g, DOMAIN g \subseteq DOMAIN f, Swept(D, c, g),
           NEW m, Even(DOMAIN D \ {p}, D, m, {}, {})
    PROVE  Works(D, c, g, m)
<1>1. DOMAIN q \subseteq Nat \ {0} /\ 1 \in DOMAIN q /\ q[1].rid[1] = p
  BY TailIs, EmptyingHead
<1>2. \A i \in DOMAIN q : i = 1 \/ i > 1
  BY <1>1
<1>3. c[k].op = "removeTree" /\ c[k].prefix = p /\ k \in DOMAIN c
  BY DEF Emptying, Sweeps
<1>4. Quiet(c, k)
  <2> SUFFICES ASSUME NEW i \in DOMAIN q, i > k PROVE c[i].op \in {"dropDocument", "refresh"}
    BY DEF Quiet, Sweeps
  <2>1. i > 1
    BY <1>1
  <2> QED BY <2>1 DEF Emptying, Quiet, Sweeps
<1>5. ASSUME NEW i \in DOMAIN c, i < k
      PROVE  /\ (c[i].op = "deleteItem" /\ ~c[i].must) \/ (i = 1 /\ c[i].op = "sweep")
             /\ c[i].rid[1] = p
  <2>1. i \in DOMAIN q
    BY DEF Sweeps
  <2>2. CASE i = 1
    BY <1>1, <2>2 DEF Sweeps
  <2>3. CASE i > 1
    <3>1. c[i] = q[i] /\ ~ (i = 1)
      BY <1>1, <2>1, <2>3 DEF Sweeps
    <3> QED BY <1>5, <2>1, <3>1 DEF Emptying
  <2> QED BY <1>2, <2>1, <2>2, <2>3
<1>6. ASSUME NEW r \in DOMAIN g, r[1] = p
      PROVE  \E i \in DOMAIN c : i < k /\ c[i].op = "deleteItem" /\ c[i].rid = r
  <2>1. PICK i \in DOMAIN q : i < k /\ q[i].op = "deleteItem" /\ q[i].rid = r
    BY <1>6 DEF Emptying
  <2>2. i # 1
    BY <2>1 DEF Swept, Sweeps
  <2>3. c[i] = q[i] /\ i \in DOMAIN c
    BY <1>2, <2>2 DEF Sweeps
  <2> QED BY <2>1, <2>3
<1>7. Sweeping(c) /\ \A x \in DOMAIN D : D[x].parent # p
  BY DEF Sweeping, Sweeps, Emptying
<1>8. Emptying(D, c, g, m, p, k)
  BY <1>3, <1>4, <1>5, <1>6, <1>7 DEF Emptying
<1> QED BY <1>3, <1>8 DEF Works

\* The next item of the document is deleted, or the directory is.
LEMMA EmptyingGoesOn ==
    ASSUME NEW q \in Seq(Effects), q # <<>>, NEW D, NEW f, NEW n, NEW p \in Prefix,
           NEW k \in DOMAIN q, k > 1, Emptying(D, q, f, n, p, k), Unbroken(D, f),
           q[1].rid \notin DOMAIN f
    PROVE  Works(D, Tail(q), f, n)
<1> DEFINE t == Tail(q)
<1>1. /\ DOMAIN q \subseteq Nat \ {0} /\ 1 \in DOMAIN q /\ t \in Seq(Effects)
      /\ DOMAIN t \subseteq Nat \ {0}
      /\ \A i \in DOMAIN t : i + 1 \in DOMAIN q /\ t[i] = q[i + 1]
      /\ \A i \in DOMAIN q : i > 1 => i - 1 \in DOMAIN t /\ t[i - 1] = q[i]
  BY TailIs
<1>0. k \in Nat
  BY <1>1
<1> HIDE DEF t
<1>2. k - 1 \in DOMAIN t /\ t[k - 1].op = "removeTree" /\ t[k - 1].prefix = p
  BY <1>1 DEF Emptying
<1>3. Quiet(t, k - 1)
  <2> SUFFICES ASSUME NEW i \in DOMAIN t, i > k - 1 PROVE t[i].op \in {"dropDocument", "refresh"}
    BY DEF Quiet
  <2>1. i + 1 \in DOMAIN q /\ t[i] = q[i + 1] /\ i \in Nat
    BY <1>1
  <2>2. i + 1 > k
    BY <1>0, <2>1
  <2> QED BY <2>1, <2>2 DEF Emptying, Quiet
<1>4. ASSUME NEW i \in DOMAIN t, i < k - 1
      PROVE  t[i].op = "deleteItem" /\ ~t[i].must /\ t[i].rid[1] = p
  <2>1. i + 1 \in DOMAIN q /\ t[i] = q[i + 1] /\ i \in Nat \ {0}
    BY <1>1
  <2>2. i + 1 < k /\ ~ (i + 1 = 1)
    BY <1>0, <1>4, <2>1
  <2> QED BY <2>1, <2>2 DEF Emptying
<1>5. ASSUME NEW r \in DOMAIN f, r[1] = p
      PROVE  \E i \in DOMAIN t : i < k - 1 /\ t[i].op = "deleteItem" /\ t[i].rid = r
  <2>1. PICK i \in DOMAIN q : i < k /\ q[i].op = "deleteItem" /\ q[i].rid = r
    BY <1>5 DEF Emptying
  <2>2. i # 1
    BY <2>1
  <2>3. i \in Nat /\ i > 1
    <3>1. i \in Nat \ {0}
      BY <1>1
    <3> QED BY <2>2, <3>1
  <2>4. i - 1 \in DOMAIN t /\ t[i - 1] = q[i] /\ i - 1 < k - 1
    BY <1>0, <1>1, <2>1, <2>3
  <2> QED BY <2>1, <2>4
<1>6. ~Sweeping(t)
  <2>1. 1 \in DOMAIN t => t[1].op \in {"deleteItem", "removeTree"}
    <3>1. CASE k - 1 = 1
      BY <1>2, <3>1
    <3>2. CASE 1 < k - 1
      BY <1>4, <3>2
    <3>3. k - 1 = 1 \/ 1 < k - 1
      BY <1>0
    <3> QED BY <3>1, <3>2, <3>3
  <2>2. t # <<>> => 1 \in DOMAIN t
    BY <1>1
  <2> QED BY <2>1, <2>2 DEF Sweeping
<1>7. /\ \A x \in DOMAIN D : D[x].parent # p
      /\ Even(DOMAIN D \ {p}, D, n, {}, {})
  BY DEF Emptying
<1>8. Emptying(D, t, f, n, p, k - 1)
  BY <1>2, <1>3, <1>4, <1>5, <1>6, <1>7 DEF Emptying
<1> QED BY <1>2, <1>8 DEF Works, t

\* The sweep the GUI's call has come to.
LEMMA GuiSweep ==
    ASSUME Types, GuiWorks, call["gui"] # <<>>, call["gui"][1].op = "sweep"
    PROVE  LET q == call["gui"]
               D == cache["gui"]
           IN  /\ Sweeping(q) /\ Swept(D, q, items) /\ q[1].rid \in Rid
               /\ q[1].todo \in SUBSET Prefix /\ q[1].ids \in SUBSET Rid
               /\ \/ Clearing(D, q, items, changed)
                  \/ \E p \in Prefix, k \in DOMAIN q :
                        k > 1 /\ Emptying(D, q, items, changed, p, k)
<1> DEFINE q == call["gui"]
           D == cache["gui"]
<1>1. q \in Seq(Effects) /\ q[1] \in Effects /\ Works(D, q, items, changed)
  BY GuiHead
<1>2. q # <<>> /\ q[1].op = "sweep"
  OBVIOUS
<1> HIDE DEF q, D
<1>3. Sweeping(q) /\ q[1].rid \in Rid /\ q[1].todo \in SUBSET Prefix /\ q[1].ids \in SUBSET Rid
  BY <1>1, <1>2, EffectIs DEF Sweeping
<1>4. CASE Clearing(D, q, items, changed)
  BY <1>3, <1>4 DEF Clearing, q, D
<1>5. ASSUME NEW p \in Prefix, NEW k \in DOMAIN q, Emptying(D, q, items, changed, p, k)
      PROVE  k > 1 /\ Swept(D, q, items)
  <2>1. k \in Nat \ {0}
    BY <1>1, <1>2, TailIs
  <2>2. k # 1
    BY <1>1, <1>2, <1>5, EmptyingHead
  <2> QED BY <1>3, <1>5, <2>1, <2>2 DEF Emptying
<1> QED BY <1>1, <1>2, <1>3, <1>4, <1>5, HeadTells DEF EmptyingFrom, q, D

\* The call goes on with a sweep.
LEMMA GuiSweepsOn ==
    ASSUME Types, GuiWorks, call["gui"] # <<>>, call["gui"][1].op = "sweep",
           NEW todo \in SUBSET Prefix, NEW ids \in SUBSET Rid,
           Continue("gui", Sweep(call["gui"][1].rid, todo, ids)),
           UNCHANGED <<docs, cache, changed>>,
           DOMAIN items' = DOMAIN items, ids \subseteq DOMAIN items,
           Anchored(cache["gui"], items', call["gui"][1].rid,
                    {r \in DOMAIN items' : r[1] \in todo \/ r \in ids})
    PROVE  GuiWorks'
<1> DEFINE q == call["gui"]
           D == cache["gui"]
           rid == q[1].rid
           e == [op |-> "sweep", rid |-> rid, todo |-> todo, ids |-> ids]
           c == <<e>> \o Tail(q)
<1>1. /\ q \in Seq(Effects) /\ q # <<>> /\ Ahead(D, docs, changed) /\ call["mcp"] = <<>>
      /\ Swept(D, q, items) /\ rid \in Rid
  BY GuiHead, GuiSweep
<1>2. call'["gui"] = c /\ call'["mcp"] = <<>>
  <2>1. Continue("gui", <<e>>)
    BY DEF Sweep
  <2> HIDE DEF e
  <2> QED BY <1>1, <2>1, GuiContinues
<1>3. /\ e \in Effects /\ e.op = "sweep" /\ e.rid = rid /\ e.todo = todo /\ e.ids = ids
  BY <1>1 DEF Effects
<1>4. \/ Clearing(D, q, items, changed)
      \/ \E p \in Prefix, k \in DOMAIN q : k > 1 /\ Emptying(D, q, items, changed, p, k)
  BY GuiSweep
<1>5. Anchored(D, items', rid, {r \in DOMAIN items' : r[1] \in todo \/ r \in ids})
  OBVIOUS
<1> HIDE DEF e, q, D
<1>6. Sweeps(q, c, e)
  BY <1>1, <1>3, HeadReplaced DEF Sweeps
<1> HIDE DEF c
<1>7. Swept(D, c, items')
  BY <1>1, <1>3, <1>5, <1>6 DEF Swept, Sweeps, Late, Sweeping
<1>8. CASE Clearing(D, q, items, changed)
  <2>1. Works(D, c, items', changed)
    BY <1>1, <1>6, <1>7, <1>8, ClearingGoesOn DEF Clearing
  <2> QED BY <1>1, <1>2, <2>1 DEF GuiWorks, D
<1>9. ASSUME NEW p \in Prefix, NEW k \in DOMAIN q, k > 1, Emptying(D, q, items, changed, p, k)
      PROVE  GuiWorks'
  <2>1. Even(DOMAIN D \ {p}, D, changed, {}, {})
    BY <1>9 DEF Emptying
  <2>2. Works(D, c, items', changed)
    BY <1>1, <1>6, <1>7, <1>9, <2>1, EmptyingSweeps
  <2> QED BY <1>1, <1>2, <2>2 DEF GuiWorks, D
<1> QED BY <1>4, <1>8, <1>9

LEMMA GuiSweepEnds ==
    ASSUME Types, GuiWorks, call["gui"] # <<>>, call["gui"][1].op = "sweep",
           Continue("gui", <<>>), UNCHANGED <<docs, cache, changed, items>>,
           Unbroken(cache["gui"], items)
    PROVE  GuiWorks'
<1> DEFINE q == call["gui"]
           D == cache["gui"]
<1>1. /\ q \in Seq(Effects) /\ q # <<>> /\ Ahead(D, docs, changed) /\ call["mcp"] = <<>>
      /\ Swept(D, q, items) /\ Unbroken(D, items)
  BY GuiHead, GuiSweep
<1>2. call'["gui"] = Tail(q) /\ call'["mcp"] = <<>>
  BY <1>1, GuiContinues
<1>3. \/ Clearing(D, q, items, changed)
      \/ \E p \in Prefix, k \in DOMAIN q : k > 1 /\ Emptying(D, q, items, changed, p, k)
  BY GuiSweep
<1> HIDE DEF q, D
<1>4. Works(D, Tail(q), items, changed)
  <2>1. CASE Clearing(D, q, items, changed)
    BY <1>1, <2>1, BumpComes DEF Clearing
  <2>2. ASSUME NEW p \in Prefix, NEW k \in DOMAIN q, k > 1,
               Emptying(D, q, items, changed, p, k)
        PROVE  Works(D, Tail(q), items, changed)
    BY <1>1, <2>2, EmptyingGoesOn DEF Swept
  <2> QED BY <1>3, <2>1, <2>2
<1> QED BY <1>1, <1>2, <1>4 DEF GuiWorks, D

LEMMA GuiDeletesFile == Types /\ GuiWorks /\ DeleteFile("gui") => GuiWorks'
<1> SUFFICES ASSUME Types, GuiWorks, DeleteFile("gui") PROVE GuiWorks'
  OBVIOUS
<1> DEFINE q == call["gui"]
           D == cache["gui"]
           rid == Current("gui").rid
           e == [op |-> "sweep", rid |-> rid, todo |-> DOMAIN D, ids |-> {}]
           c == <<e>> \o Tail(q)
<1>1. /\ q # <<>> /\ Current("gui").op = "deleteItem" /\ UNCHANGED <<docs, cache>>
      /\ \/ /\ rid \in DOMAIN items
            /\ items' = Without(items, rid)
            /\ Count(rid[1], 1)
            /\ Continue("gui", <<e>>)
         \/ /\ rid \notin DOMAIN items
            /\ IF Current("gui").must THEN Raise("gui") ELSE Continue("gui", <<>>)
            /\ UNCHANGED <<items, changed>>
  BY DEF DeleteFile, Doing, Sweep, DocumentsToSweep
<1>2. /\ q \in Seq(Effects) /\ q[1].op = "deleteItem" /\ Works(D, q, items, changed)
      /\ IsDocuments(D) /\ Ahead(D, docs, changed) /\ call["mcp"] = <<>>
      /\ rid = q[1].rid /\ rid \in Rid /\ Current("gui").must = q[1].must
      /\ changed \in [Prefix -> Nat]
  BY <1>1, GuiHead, EffectIs DEF Types, CountersOK
<1>3. \A more : Continue("gui", more) =>
         /\ call'["gui"] = more \o Tail(q) /\ call'["mcp"] = <<>>
         /\ more = <<>> => call'["gui"] = Tail(q)
  BY <1>1, <1>2, GuiContinues
<1>4. e \in Effects /\ e.op = "sweep" /\ e.rid = rid /\ e.todo = DOMAIN D /\ e.ids = {}
  BY <1>2 DEF Effects, IsDocuments
<1> HIDE DEF q, D, rid, e
<1>5. Sweeps(q, c, e)
  BY <1>1, <1>2, <1>4, HeadReplaced DEF Sweeps
<1>6. Continue("gui", <<e>>) => call'["gui"] = c /\ call'["mcp"] = <<>>
  BY <1>3
<1> HIDE DEF c
<1>7. /\ Deleting(D, q, items, changed) \/ EmptyingFrom(D, q, items, changed)
      /\ ~Sweeping(q)
  BY <1>1, <1>2, HeadTells DEF Sweeping
<1>8. Unbroken(D, items)
  BY <1>7 DEF Deleting, EmptyingFrom, Emptying
<1>9. ASSUME NEW p \in Prefix, NEW k \in DOMAIN q, Emptying(D, q, items, changed, p, k)
      PROVE  k > 1 /\ rid[1] = p /\ ~q[1].must
  <2>1. k = 1 \/ k > 1
    BY <1>1, <1>2, TailIs
  <2> QED BY <1>1, <1>2, <1>9, <2>1, EmptyingHead
<1>10. ASSUME rid \in DOMAIN items, items' = Without(items, rid), Count(rid[1], 1),
              Continue("gui", <<e>>)
       PROVE  GuiWorks'
  <2>1. /\ DOMAIN items' = DOMAIN items \ {rid}
        /\ \A r \in DOMAIN items' : items'[r] = items[r]
    BY <1>10, RestrictIs DEF Without
  <2>2. /\ rid[1] \in DOMAIN D /\ rid[1] \in Prefix
        /\ changed'[rid[1]] = changed[rid[1]] + 1
        /\ \A x \in Prefix : x # rid[1] => changed'[x] = changed[x]
    BY <1>2, <1>8, <1>10 DEF Unbroken, Anchored, Count, Rid
  <2>3. Swept(D, c, items')
    <3>1. c # <<>> /\ c[1] = e
      BY <1>5 DEF Sweeps
    <3>2. Late(c, items') = {r \in DOMAIN items' : r[1] \in DOMAIN D}
      BY <1>4, <3>1 DEF Late, Sweeping
    <3>3. Anchored(D, items', rid, {r \in DOMAIN items' : r[1] \in DOMAIN D})
      BY <1>8, <2>1 DEF Unbroken, Anchored
    <3> QED BY <1>4, <2>1, <3>1, <3>2, <3>3 DEF Swept
  <2>4. Ahead(D, docs, changed')
    BY <1>2, <2>2 DEF Ahead
  <2>5. CASE Deleting(D, q, items, changed)
    <3>1. Even(DOMAIN D, D, changed', {rid[1]}, {})
      <4> SUFFICES ASSUME NEW x \in DOMAIN D
                   PROVE  D[x].rev + (IF x \in {rid[1]} THEN 1 ELSE 0)
                          = 1 + changed'[x] + (IF x \in {} THEN 1 ELSE 0)
        BY DEF Even
      <4>1. D[x].rev \in Nat /\ changed[x] \in Nat /\ x \in Prefix
        BY <1>2 DEF IsDocuments, Document
      <4>2. D[x].rev = 1 + changed[x]
        BY <2>5, <4>1 DEF Deleting, Even
      <4> QED BY <2>2, <4>1, <4>2
    <3>2. BumpNext(q, rid[1])
      BY <1>2, <2>5 DEF Deleting
    <3>3. Works(D, c, items', changed')
      BY <1>1, <1>2, <1>5, <2>3, <3>1, <3>2, ClearingGoesOn
    <3> QED BY <1>1, <1>6, <1>10, <2>4, <3>3 DEF GuiWorks, D
  <2>6. ASSUME NEW p \in Prefix, NEW k \in DOMAIN q, Emptying(D, q, items, changed, p, k)
        PROVE  GuiWorks'
    <3>1. k > 1 /\ rid[1] = p
      BY <1>9, <2>6
    <3>2. Even(DOMAIN D \ {p}, D, changed', {}, {})
      BY <1>2, <2>2, <2>6, <3>1 DEF Emptying, Even, IsDocuments
    <3>3. Works(D, c, items', changed')
      BY <1>1, <1>2, <1>5, <2>1, <2>3, <2>6, <3>1, <3>2, EmptyingSweeps
    <3> QED BY <1>1, <1>6, <1>10, <2>4, <3>3 DEF GuiWorks, D
  <2> QED BY <1>7, <2>5, <2>6 DEF EmptyingFrom
<1>11. ASSUME rid \notin DOMAIN items, UNCHANGED <<items, changed>>,
              IF q[1].must THEN Raise("gui") ELSE Continue("gui", <<>>)
       PROVE  GuiWorks'
  <2>1. PICK p \in Prefix, k \in DOMAIN q : Emptying(D, q, items, changed, p, k)
    BY <1>2, <1>7, <1>11 DEF Deleting, EmptyingFrom
  <2>2. k > 1 /\ Continue("gui", <<>>)
    BY <1>9, <1>11, <2>1
  <2>3. Works(D, Tail(q), items, changed)
    BY <1>1, <1>2, <1>8, <1>11, <2>1, <2>2, EmptyingGoesOn
  <2> QED BY <1>1, <1>2, <1>3, <1>11, <2>2, <2>3 DEF GuiWorks, D
<1> QED BY <1>1, <1>2, <1>10, <1>11

LEMMA GuiSweepsDocument == Types /\ GuiWorks /\ SweepDocument("gui") => GuiWorks'
<1> SUFFICES ASSUME Types, GuiWorks, SweepDocument("gui") PROVE GuiWorks'
  OBVIOUS
<1> DEFINE q == call["gui"]
           D == cache["gui"]
           rid == q[1].rid
           todo == q[1].todo
<1>1. /\ q # <<>> /\ Current("gui") = q[1] /\ UNCHANGED <<docs, items, cache, changed>>
      /\ q[1].op = "sweep" /\ q[1].ids = {}
      /\ \/ \E p \in todo : Continue("gui", Sweep(rid, todo \ {p}, RidsOf(p)))
         \/ todo = {} /\ Continue("gui", <<>>)
  <2>1. q # <<>>
    BY DEF SweepDocument, Doing
  <2>2. Current("gui") = q[1]
    BY <2>1, GuiHead
  <2> QED BY <2>1, <2>2 DEF SweepDocument, Doing
<1>2. /\ Sweeping(q) /\ Swept(D, q, items) /\ todo \in SUBSET Prefix
  BY <1>1, GuiSweep
<1>3. Anchored(D, items, rid, {r \in DOMAIN items : r[1] \in todo})
  <2>1. Late(q, items) = {r \in DOMAIN items : r[1] \in todo}
    BY <1>1, <1>2 DEF Late
  <2> QED BY <1>2, <2>1 DEF Swept
<1>4. ASSUME NEW p \in todo, Continue("gui", Sweep(rid, todo \ {p}, RidsOf(p)))
      PROVE  GuiWorks'
  <2> DEFINE left == todo \ {p}
             ids == RidsOf(p)
  <2>1. left \in SUBSET Prefix /\ ids \in SUBSET Rid /\ ids \subseteq DOMAIN items
    BY <1>2 DEF RidsOf, Types, FilesOK
  <2>2. {r \in DOMAIN items' : r[1] \in left \/ r \in ids} = {r \in DOMAIN items : r[1] \in todo}
    BY <1>1 DEF RidsOf
  <2>3. Anchored(D, items', rid, {r \in DOMAIN items' : r[1] \in left \/ r \in ids})
    BY <1>1, <1>3, <2>2
  <2>4. Continue("gui", Sweep(rid, left, ids))
    BY <1>4
  <2> HIDE DEF left, ids
  <2> QED BY <1>1, <2>1, <2>3, <2>4, GuiSweepsOn
<1>5. CASE todo = {} /\ Continue("gui", <<>>)
  <2>1. Unbroken(D, items)
    BY <1>3, <1>5 DEF Unbroken, Anchored
  <2> QED BY <1>1, <1>5, <2>1, GuiSweepEnds
<1> QED BY <1>1, <1>4, <1>5

\* What is written is the item, with links to the same items.
Wrote(g, f, rid, item) ==
    /\ DOMAIN g = DOMAIN f \cup {rid} /\ \A r \in DOMAIN f : r # rid => g[r] = f[r]
    /\ DOMAIN g[rid].links = DOMAIN item.links /\ g[rid].text = item.text

LEMMA StoredLinks ==
    ASSUME NEW D, NEW rid, NEW item \in Item
    PROVE  Wrote(Stored(D, rid, item), items, rid, item)
<1> DEFINE links == PrepareLinks(D, item.links)
           new == [item EXCEPT !.links = links]
<1>1. DOMAIN links = DOMAIN item.links
  BY DEF PrepareLinks
<1>2. Stored(D, rid, item) = [r \in DOMAIN items \cup {rid} |-> IF r = rid THEN new ELSE items[r]]
  BY DEF Stored
<1> HIDE DEF links
<1>3. new.links = links /\ new.text = item.text
  BY DEF Item
<1> HIDE DEF new
<1> QED BY <1>1, <1>2, <1>3 DEF Wrote

LEMMA GuiSweepsItem == Types /\ GuiWorks /\ SweptAtOnce("gui") => GuiWorks'
<1> SUFFICES ASSUME Types, GuiWorks, SweptAtOnce("gui") PROVE GuiWorks'
  OBVIOUS
<1> DEFINE q == call["gui"]
           D == cache["gui"]
           target == q[1].rid
           todo == q[1].todo
           ids == q[1].ids
           late == {r \in DOMAIN items : r[1] \in todo \/ r \in ids}
<1>1. /\ q # <<>> /\ Current("gui") = q[1] /\ UNCHANGED <<docs, cache, changed>>
      /\ q[1].op = "sweep"
  <2>1. q # <<>>
    BY DEF SweptAtOnce, Doing
  <2>2. Current("gui") = q[1]
    BY <2>1, GuiHead
  <2> QED BY <2>1, <2>2 DEF SweptAtOnce, Doing
<1>2. PICK r \in ids :
         LET linked == r \in DOMAIN items /\ target \in DOMAIN items[r].links
             kept == Without(items[r].links, target)
             next == Sweep(target, todo, ids \ {r})
         IN
         \/ ~linked /\ Continue("gui", next) /\ UNCHANGED items
         \/ /\ linked
            /\ items' = Stored(D, r, [items[r] EXCEPT !.links = kept])
            /\ Continue("gui", next)
         \/ r \notin DOMAIN items \/ (linked /\ ~ValidItemLinks(D, r, kept))
  BY <1>1 DEF SweptAtOnce
<1>3. /\ Swept(D, q, items) /\ todo \in SUBSET Prefix /\ ids \in SUBSET Rid
      /\ target \notin DOMAIN items /\ ids \subseteq DOMAIN items
  BY <1>1, GuiSweep DEF Swept
<1>4. Anchored(D, items, target, late)
  <2>1. Late(q, items) = late
    BY <1>1 DEF Late, Sweeping
  <2> QED BY <1>3, <2>1 DEF Swept
<1> DEFINE kept == Without(items[r].links, target)
           item == [items[r] EXCEPT !.links = kept]
           left == ids \ {r}
           links == PrepareLinks(D, kept)
<1>5. /\ r \in DOMAIN items /\ r \in Rid /\ items[r] \in Item /\ left \in SUBSET Rid
      /\ items[r].links \in LinkMaps
  BY <1>3 DEF Types, FilesOK, Item
<1>6. DOMAIN kept = DOMAIN items[r].links \ {target}
  BY RestrictIs DEF Without
<1>7. item \in Item /\ item.links = kept
  <2>1. kept \in LinkMaps
    BY <1>5, LinksWithout
  <2> HIDE DEF kept
  <2>2. item \in Item
    BY <1>5, <2>1, ItemLinks
  <2> QED BY <1>5, <2>2 DEF Item
<1>8. ValidItemLinks(D, r, kept)
  <2> HIDE DEF kept, late
  <2>1. ASSUME NEW t \in DOMAIN kept
        PROVE  t # r /\ t[1] \in DOMAIN D /\ IsAncestor(D, r[1], t[1]) /\ t \in DOMAIN items
    BY <1>4, <1>5, <1>6 DEF Anchored
  <2> QED BY <2>1 DEF ValidItemLinks
<1>9. ASSUME Continue("gui", Sweep(target, todo, left)),
             DOMAIN items' = DOMAIN items,
             \A z \in DOMAIN items : DOMAIN items'[z].links =
                IF z = r THEN DOMAIN items[z].links \ {target} ELSE DOMAIN items[z].links
      PROVE  GuiWorks'
  <2> DEFINE rest == {z \in DOMAIN items' : z[1] \in todo \/ z \in left}
  <2>1. \A z \in late : z # r => z \in rest
    BY <1>9
  <2>2. left \subseteq DOMAIN items
    BY <1>3
  <2> HIDE DEF late
  <2>3. Anchored(D, items', target, rest)
    <3> HIDE DEF rest, target, D
    <3>1. ASSUME NEW z \in DOMAIN items
          PROVE  /\ z[1] \in DOMAIN D
                 /\ \A t \in DOMAIN items'[z].links :
                      /\ t # z /\ t[1] \in DOMAIN D /\ IsAncestor(D, z[1], t[1])
                      /\ t \in DOMAIN items \/ (t = target /\ z \in rest)
      <4>1. /\ z[1] \in DOMAIN D
            /\ \A t \in DOMAIN items[z].links :
                 /\ t # z /\ t[1] \in DOMAIN D /\ IsAncestor(D, z[1], t[1])
                 /\ t \in DOMAIN items \/ (t = target /\ z \in late)
        BY <1>4 DEF Anchored
      <4>2. CASE z = r
        <5>1. DOMAIN items'[z].links = DOMAIN items[z].links \ {target}
          BY <1>9, <4>2
        <5> QED BY <4>1, <5>1
      <4>3. CASE z # r
        <5>1. DOMAIN items'[z].links = DOMAIN items[z].links
          BY <1>9, <4>3
        <5> QED BY <2>1, <4>1, <4>3, <5>1
      <4> QED BY <4>2, <4>3
    <3> QED BY <1>9, <3>1 DEF Anchored
  <2>4. Continue("gui", Sweep(target, todo, left))
    BY <1>9
  <2> HIDE DEF left
  <2> QED BY <1>1, <1>3, <1>5, <1>9, <2>2, <2>3, <2>4, GuiSweepsOn
<1>10. CASE /\ target \notin DOMAIN items[r].links
            /\ Continue("gui", Sweep(target, todo, left)) /\ UNCHANGED items
  <2> HIDE DEF left, target
  <2> QED BY <1>9, <1>10
<1>11. CASE /\ items' = Stored(D, r, item) /\ Continue("gui", Sweep(target, todo, left))
  <2> HIDE DEF item, kept, left, D, target
  <2>1. Wrote(items', items, r, item)
    <3>1. Wrote(Stored(D, r, item), items, r, item)
      BY <1>7, StoredLinks
    <3> QED BY <1>11, <3>1
  <2> QED BY <1>5, <1>6, <1>7, <1>9, <1>11, <2>1 DEF Wrote
<1> QED BY <1>2, <1>5, <1>8, <1>10, <1>11

-------------------------------------------------------------------------------
(* Files saved and unlinked                                                    *)

LEMMA GuiUnlinks == Types /\ GuiWorks /\ UnlinkFile("gui") => GuiWorks'
<1> SUFFICES ASSUME Types, GuiWorks, UnlinkFile("gui") PROVE GuiWorks'
  OBVIOUS
<1> DEFINE q == call["gui"]
           D == cache["gui"]
           rid == Current("gui").rid
<1>1. /\ q # <<>> /\ Current("gui").op = "unlink" /\ UNCHANGED <<docs, cache>>
      /\ items' = Without(items, rid) /\ Continue("gui", <<>>)
      /\ Count(rid[1], IF rid \in DOMAIN items THEN 1 ELSE 0)
  BY DEF UnlinkFile, Doing
<1>2. /\ q \in Seq(Effects) /\ q[1].op = "unlink" /\ Works(D, q, items, changed)
      /\ IsDocuments(D) /\ Ahead(D, docs, changed) /\ call["mcp"] = <<>>
      /\ rid = q[1].rid /\ rid \in Rid /\ changed \in [Prefix -> Nat]
  BY <1>1, GuiHead, EffectIs DEF Types, CountersOK
<1>3. call'["gui"] = Tail(q) /\ call'["mcp"] = <<>>
  BY <1>1, <1>2, GuiContinues
<1> HIDE DEF q, D, rid
<1>4. PICK x \in Rid, new \in Rid : Moving(D, q, items, changed, x, new)
  BY <1>1, <1>2, HeadTells DEF MovingFrom
<1>5. Len(q) = 2 /\ DOMAIN q = 1 .. 2
  BY <1>1, <1>2, <1>4, MovingHead, TailIs
<1>6. /\ x = rid /\ rid \in DOMAIN items /\ Unbroken(D, items)
      /\ \A r \in DOMAIN items \ {rid} : rid \notin DOMAIN items[r].links
      /\ Quiet(q, 1)
  BY <1>2, <1>4, <1>5 DEF Moving, MoveLeft, Quiet
<1>7. Even(DOMAIN D, D, changed, {}, {rid[1]})
  BY <1>4, <1>5, <1>6 DEF Moving
<1>8. /\ rid[1] \in DOMAIN D /\ rid[1] \in Prefix
      /\ changed'[rid[1]] = changed[rid[1]] + 1
      /\ \A p \in Prefix : p # rid[1] => changed'[p] = changed[p]
  BY <1>1, <1>2, <1>6 DEF Unbroken, Anchored, Count, Rid
<1>9. /\ DOMAIN items' = DOMAIN items \ {rid}
      /\ \A r \in DOMAIN items' : items'[r] = items[r]
  BY <1>1, RestrictIs DEF Without
<1>10. Unbroken(D, items')
  BY <1>6, <1>9 DEF Unbroken, Anchored
<1>11. Even(DOMAIN D, D, changed', {}, {})
  <2> SUFFICES ASSUME NEW p \in DOMAIN D
               PROVE  D[p].rev + (IF p \in {} THEN 1 ELSE 0)
                      = 1 + changed'[p] + (IF p \in {} THEN 1 ELSE 0)
    BY DEF Even
  <2>1. D[p].rev \in Nat /\ changed[p] \in Nat /\ p \in Prefix
    BY <1>2 DEF IsDocuments, Document
  <2>2. D[p].rev + 0 = 1 + changed[p] + (IF p = rid[1] THEN 1 ELSE 0)
    BY <1>7 DEF Even
  <2> QED BY <1>8, <2>1, <2>2
<1>12. Ahead(D, docs, changed')
  BY <1>2, <1>8 DEF Ahead
<1>13. Works(D, Tail(q), items', changed')
  BY <1>1, <1>2, <1>6, <1>10, <1>11, RestComes
<1> QED BY <1>1, <1>3, <1>12, <1>13 DEF GuiWorks, D

\* A move that saves e and has t left to do.
Saving(D, e, t, f, rid, new) ==
    /\ MoveLeft(t, rid, new) /\ Len(t) \in Nat /\ Len(t) >= 4
    /\ rid \in DOMAIN f /\ rid[1] # new[1] /\ new[1] \in DOMAIN D /\ Unbroken(D, f)
    /\ new \notin DOMAIN f => e.rid = new /\ DOMAIN e.item.links \subseteq DOMAIN f \ {rid}
    /\ new \in DOMAIN f => Rewrites(D, f, e, rid, new)
    /\ \A i \in DOMAIN t : i + 4 <= Len(t) => Rewrites(D, f, t[i], rid, new)
    /\ \A r \in DOMAIN f \ {rid} : rid \in DOMAIN f[r].links =>
         e.rid = r \/ \E i \in DOMAIN t : i + 4 <= Len(t) /\ t[i].rid = r

LEMMA MovingSaves ==
    ASSUME NEW q \in Seq(Effects), q # <<>>, NEW D, NEW f, NEW n, NEW rid, NEW new,
           Moving(D, q, f, n, rid, new), q[1].op = "save"
    PROVE  /\ Saving(D, q[1], Tail(q), f, rid, new)
           /\ Even(DOMAIN D, D, n, IF new \in DOMAIN f THEN {new[1]} ELSE {}, {})
<1> DEFINE m == Len(q)
           t == Tail(q)
<1>1. /\ m \in Nat /\ Len(t) = m - 1 /\ DOMAIN q = 1 .. m /\ DOMAIN t = 1 .. (m - 1)
      /\ \A i \in DOMAIN t : i + 1 \in DOMAIN q /\ t[i] = q[i + 1]
      /\ \A i \in DOMAIN q : i > 1 => i - 1 \in DOMAIN t /\ t[i - 1] = q[i]
  BY TailIs
<1>2. m > 4
  BY MovingHead
<1>3. MoveLeft(t, rid, new)
  BY <1>1, <1>2, MoveTail DEF Moving
<1>4. /\ rid \in DOMAIN f /\ rid[1] # new[1] /\ new[1] \in DOMAIN D /\ Unbroken(D, f)
      /\ new \notin DOMAIN f =>
           q[1].rid = new /\ DOMAIN q[1].item.links \subseteq DOMAIN f \ {rid}
      /\ \A i \in DOMAIN q : i + 4 <= m =>
           (i = 1 /\ new \notin DOMAIN f) \/ Rewrites(D, f, q[i], rid, new)
      /\ \A r \in DOMAIN f \ {rid} : rid \in DOMAIN f[r].links =>
           \E i \in DOMAIN q : i + 4 <= m /\ q[i].rid = r
      /\ Even(DOMAIN D, D, n, IF new \in DOMAIN f /\ m >= 3 THEN {new[1]} ELSE {},
              IF m <= 3 THEN {rid[1]} ELSE {})
  BY DEF Moving
<1> HIDE DEF m, t
<1>5. Even(DOMAIN D, D, n, IF new \in DOMAIN f THEN {new[1]} ELSE {}, {})
  <2>1. m >= 3 /\ ~ (m <= 3)
    BY <1>1, <1>2
  <2> QED BY <1>4, <2>1
<1>6. new \in DOMAIN f => Rewrites(D, f, q[1], rid, new)
  <2>1. 1 \in DOMAIN q /\ 1 + 4 <= m
    BY <1>1, <1>2
  <2> QED BY <1>4, <2>1
<1>7. ASSUME NEW i \in DOMAIN t, i + 4 <= Len(t) PROVE Rewrites(D, f, t[i], rid, new)
  <2>1. i + 1 \in DOMAIN q /\ t[i] = q[i + 1] /\ (i + 1) + 4 <= m /\ i + 1 # 1
    BY <1>1, <1>7
  <2> QED BY <1>4, <2>1
<1>8. ASSUME NEW r \in DOMAIN f \ {rid}, rid \in DOMAIN f[r].links, q[1].rid # r
      PROVE  \E i \in DOMAIN t : i + 4 <= Len(t) /\ t[i].rid = r
  <2>1. PICK i \in DOMAIN q : i + 4 <= m /\ q[i].rid = r
    BY <1>4, <1>8
  <2>2. i > 1
    BY <1>1, <1>8, <2>1
  <2>3. i - 1 \in DOMAIN t /\ t[i - 1] = q[i] /\ (i - 1) + 4 <= Len(t)
    BY <1>1, <2>1, <2>2
  <2> QED BY <2>1, <2>3
<1>9. Len(t) \in Nat /\ Len(t) >= 4
  BY <1>1, <1>2
<1>10. /\ rid \in DOMAIN f /\ rid[1] # new[1] /\ new[1] \in DOMAIN D /\ Unbroken(D, f)
       /\ new \notin DOMAIN f =>
            q[1].rid = new /\ DOMAIN q[1].item.links \subseteq DOMAIN f \ {rid}
  BY <1>4
<1>11. Saving(D, q[1], t, f, rid, new)
  BY <1>3, <1>6, <1>7, <1>8, <1>9, <1>10 DEF Saving
<1> QED BY <1>5, <1>11 DEF t

\* What is saved of a move leaves the rest of it to do.
LEMMA MovingGoesOn ==
    ASSUME NEW q \in Seq(Effects), q # <<>>, NEW D, NEW f, NEW n, NEW rid, NEW new,
           Moving(D, q, f, n, rid, new), q[1].op = "save", NEW g,
           Wrote(g, f, q[1].rid, q[1].item), Unbroken(D, g), NEW h,
           Even(DOMAIN D, D, h, {new[1]}, {})
    PROVE  Moving(D, Tail(q), g, h, rid, new)
<1> DEFINE t == Tail(q)
           k == Len(t)
           e == q[1]
<1>1. /\ MoveLeft(t, rid, new) /\ k \in Nat /\ k >= 4
      /\ rid \in DOMAIN f /\ rid[1] # new[1] /\ new[1] \in DOMAIN D
      /\ new \notin DOMAIN f =>
           e.rid = new /\ DOMAIN e.item.links \subseteq DOMAIN f \ {rid}
      /\ new \in DOMAIN f => Rewrites(D, f, e, rid, new)
      /\ \A i \in DOMAIN t : i + 4 <= k => Rewrites(D, f, t[i], rid, new)
      /\ \A r \in DOMAIN f \ {rid} : rid \in DOMAIN f[r].links =>
           \/ e.rid = r
           \/ \E i \in DOMAIN t : i + 4 <= k /\ t[i].rid = r
  <2>1. Saving(D, e, t, f, rid, new)
    BY MovingSaves
  <2> HIDE DEF t, e
  <2> QED BY <2>1 DEF Saving
<1>2. Wrote(g, f, e.rid, e.item)
  OBVIOUS
<1> HIDE DEF t, k, e
<1>3. /\ DOMAIN g = DOMAIN f \cup {e.rid} /\ new \in DOMAIN g /\ DOMAIN g = DOMAIN f \cup {new}
      /\ \A r \in DOMAIN f : g[r].text = f[r].text
      /\ rid \notin DOMAIN g[e.rid].links
      /\ \A r \in DOMAIN g : r # e.rid => r \in DOMAIN f /\ g[r] = f[r]
  <2>1. DOMAIN g = DOMAIN f \cup {e.rid} /\ DOMAIN g[e.rid].links = DOMAIN e.item.links
    BY <1>2 DEF Wrote
  <2>2. \A r \in DOMAIN f : r # e.rid => g[r] = f[r]
    BY <1>2 DEF Wrote
  <2>3. CASE new \notin DOMAIN f
    <3>1. e.rid = new /\ rid \notin DOMAIN e.item.links
      BY <1>1, <2>3
    <3> QED BY <2>1, <2>2, <2>3, <3>1
  <2>4. CASE new \in DOMAIN f
    <3>1. /\ e.rid \in DOMAIN f /\ rid \notin DOMAIN e.item.links
          /\ e.item.text = f[e.rid].text
      BY <1>1, <2>4 DEF Rewrites
    <3>2. g[e.rid].text = e.item.text
      BY <1>2 DEF Wrote
    <3>3. \A r \in DOMAIN f : g[r].text = f[r].text
      BY <2>2, <3>1, <3>2
    <3> QED BY <2>1, <2>2, <2>4, <3>1, <3>3
  <2> QED BY <2>3, <2>4
<1>4. ASSUME NEW i \in DOMAIN t, i + 4 <= k PROVE Rewrites(D, g, t[i], rid, new)
  <2>1. Rewrites(D, f, t[i], rid, new)
    BY <1>1, <1>4
  <2> QED BY <1>3, <2>1 DEF Rewrites
<1>5. ASSUME NEW r \in DOMAIN g \ {rid}, rid \in DOMAIN g[r].links
      PROVE  \E i \in DOMAIN t : i + 4 <= k /\ t[i].rid = r
  <2>1. r # e.rid
    BY <1>3, <1>5
  <2>2. r \in DOMAIN f \ {rid} /\ g[r] = f[r]
    BY <1>3, <2>1
  <2>3. rid \in DOMAIN f[r].links
    BY <1>5, <2>2
  <2> QED BY <1>1, <2>1, <2>2, <2>3
<1>6. k >= 3
  BY <1>1
<1>7. Even(DOMAIN D, D, h, IF new \in DOMAIN g /\ k >= 3 THEN {new[1]} ELSE {},
           IF k <= 3 THEN {rid[1]} ELSE {})
  <2>1. ~ (k <= 3)
    BY <1>1
  <2> QED BY <1>3, <1>6, <2>1
<1>8. rid \in DOMAIN g /\ Unbroken(D, g)
  BY <1>1, <1>3
<1>9. /\ MoveLeft(t, rid, new)
      /\ rid \in DOMAIN g /\ rid[1] # new[1] /\ new[1] \in DOMAIN D
      /\ Unbroken(D, g)
      /\ new \notin DOMAIN g =>
           k > 4 /\ t[1].rid = new /\ DOMAIN t[1].item.links \subseteq DOMAIN g \ {rid}
      /\ \A i \in DOMAIN t : i + 4 <= k =>
           (i = 1 /\ new \notin DOMAIN g) \/ Rewrites(D, g, t[i], rid, new)
      /\ \A r \in DOMAIN g \ {rid} : rid \in DOMAIN g[r].links =>
           \E i \in DOMAIN t : i + 4 <= k /\ t[i].rid = r
  BY <1>1, <1>3, <1>4, <1>5, <1>8
<1>10. Moving(D, t, g, h, rid, new)
  BY <1>7, <1>9 DEF Moving, k
<1> QED BY <1>10 DEF t

\* A file whose links lead to others, in the documents above, breaks none.
LEMMA WritingAnchors ==
    ASSUME NEW D, NEW f, Unbroken(D, f), NEW rid, NEW item, NEW g, Wrote(g, f, rid, item),
           rid[1] \in DOMAIN D,
           \A t \in DOMAIN item.links :
              t # rid /\ t[1] \in DOMAIN D /\ IsAncestor(D, rid[1], t[1]) /\ t \in DOMAIN f
    PROVE  Unbroken(D, g)
<1> SUFFICES ASSUME NEW r \in DOMAIN g
             PROVE  /\ r[1] \in DOMAIN D
                    /\ \A t \in DOMAIN g[r].links :
                         /\ t # r /\ t[1] \in DOMAIN D /\ IsAncestor(D, r[1], t[1])
                         /\ t \in DOMAIN g
  BY DEF Unbroken, Anchored
<1>1. CASE r = rid
  BY <1>1 DEF Wrote
<1>2. CASE r # rid
  BY <1>2 DEF Wrote, Unbroken, Anchored
<1> QED BY <1>1, <1>2

LEMMA GuiSavesItem == Types /\ GuiWorks /\ SaveItem("gui") => GuiWorks'
<1> SUFFICES ASSUME Types, GuiWorks, SaveItem("gui") PROVE GuiWorks'
  OBVIOUS
<1> DEFINE q == call["gui"]
           D == cache["gui"]
           rid == Current("gui").rid
           item == Current("gui").item
           edited == rid \notin DOMAIN items \/ items[rid].text # item.text
           g == Stored(D, rid, item)
<1>1. /\ q # <<>> /\ Current("gui").op = "save" /\ UNCHANGED <<docs, cache>>
      /\ \/ /\ ValidItemLinks(D, rid, item.links) /\ items' = g
            /\ Count(rid[1], IF edited THEN 1 ELSE 0) /\ Continue("gui", <<>>)
         \/ /\ ~ValidItemLinks(D, rid, item.links) /\ Raise("gui")
            /\ UNCHANGED <<items, changed>>
  BY DEF SaveItem, StoreItem, Doing
<1>2. /\ q \in Seq(Effects) /\ q[1].op = "save" /\ Works(D, q, items, changed)
      /\ IsDocuments(D) /\ Ahead(D, docs, changed) /\ call["mcp"] = <<>>
      /\ rid = q[1].rid /\ rid \in Rid /\ item = q[1].item /\ item \in Item
      /\ changed \in [Prefix -> Nat] /\ rid[1] \in Prefix
  BY <1>1, GuiHead, EffectIs DEF Types, CountersOK, Rid
<1>3. /\ Continue("gui", <<>>) => call'["gui"] = Tail(q) /\ call'["mcp"] = <<>>
      /\ Raise("gui") => call'["gui"] = <<>> /\ call'["mcp"] = <<>>
  BY <1>1, <1>2, GuiContinues DEF Raise, Types, ServicesOK, Services
<1> HIDE DEF rid, item, D
<1>4. Wrote(g, items, rid, item)
  BY <1>2, StoredLinks
<1> HIDE DEF q, g
<1>5. ASSUME Unbroken(D, items), Even(DOMAIN D, D, changed, {}, {}), Raise("gui"),
             UNCHANGED <<items, changed>>
      PROVE  GuiWorks'
  <2>1. Works(D, <<>>, items, changed)
    BY <1>5, RestsIdle
  <2> QED BY <1>1, <1>2, <1>3, <1>5, <2>1 DEF GuiWorks, D
<1>6. ASSUME Even(DOMAIN D, D, changed, {}, {}), Count(rid[1], 1)
      PROVE  Even(DOMAIN D, D, changed', {rid[1]}, {})
  <2> SUFFICES ASSUME NEW x \in DOMAIN D
               PROVE  D[x].rev + (IF x \in {rid[1]} THEN 1 ELSE 0)
                      = 1 + changed'[x] + (IF x \in {} THEN 1 ELSE 0)
    BY DEF Even
  <2>1. D[x].rev \in Nat /\ changed[x] \in Nat /\ x \in Prefix
    BY <1>2 DEF IsDocuments, Document
  <2>2. D[x].rev = 1 + changed[x]
    BY <1>6, <2>1 DEF Even
  <2>3. changed'[x] = changed[x] + (IF x = rid[1] THEN 1 ELSE 0)
    BY <1>2, <1>6, <2>1 DEF Count
  <2> QED BY <2>1, <2>2, <2>3
<1>7. ASSUME Count(rid[1], 1), rid[1] \in DOMAIN D PROVE Ahead(D, docs, changed')
  BY <1>2, <1>7 DEF Ahead, Count
<1>8. ASSUME ValidItemLinks(D, rid, item.links), DOMAIN item.links \subseteq DOMAIN items,
             rid \notin DOMAIN items, rid[1] \in DOMAIN D, Unbroken(D, items), items' = g
      PROVE  Unbroken(D, items')
  <2>1. ASSUME NEW t \in DOMAIN item.links
        PROVE  t # rid /\ t[1] \in DOMAIN D /\ IsAncestor(D, rid[1], t[1]) /\ t \in DOMAIN items
    BY <1>8 DEF ValidItemLinks
  <2>2. Unbroken(D, g)
    BY <1>4, <1>8, <2>1, WritingAnchors
  <2> QED BY <1>8, <2>2
<1>9. CASE Adding(D, q, items, changed)
  <2>1. /\ BumpNext(q, rid[1]) /\ rid \notin DOMAIN items /\ rid[1] \in DOMAIN D
        /\ DOMAIN item.links \subseteq DOMAIN items
        /\ Unbroken(D, items) /\ Even(DOMAIN D, D, changed, {}, {})
    BY <1>2, <1>9 DEF Adding
  <2>2. CASE /\ ValidItemLinks(D, rid, item.links) /\ items' = g
             /\ Count(rid[1], 1) /\ Continue("gui", <<>>)
    <3>1. /\ Even(DOMAIN D, D, changed', {rid[1]}, {}) /\ Ahead(D, docs, changed')
          /\ Unbroken(D, items')
      BY <1>6, <1>7, <1>8, <2>1, <2>2
    <3>2. Works(D, Tail(q), items', changed')
      BY <1>1, <1>2, <2>1, <3>1, BumpComes
    <3> QED BY <1>1, <1>3, <2>2, <3>1, <3>2 DEF GuiWorks, D
  <2> QED BY <1>1, <1>5, <2>1, <2>2
<1>10. ASSUME NEW x \in Rid, NEW new \in Rid, Moving(D, q, items, changed, x, new)
       PROVE  GuiWorks'
  <2>1. /\ Saving(D, q[1], Tail(q), items, x, new)
        /\ Even(DOMAIN D, D, changed, IF new \in DOMAIN items THEN {new[1]} ELSE {}, {})
    BY <1>1, <1>2, <1>10, MovingSaves
  <2>2. /\ Unbroken(D, items) /\ new[1] \in DOMAIN D
        /\ new \notin DOMAIN items => rid = new /\ DOMAIN item.links \subseteq DOMAIN items
        /\ new \in DOMAIN items => Rewrites(D, items, q[1], x, new)
    BY <1>2, <2>1 DEF Saving
  <2>3. ASSUME items' = g, Unbroken(D, items'), Ahead(D, docs, changed'),
               Even(DOMAIN D, D, changed', {new[1]}, {}), Continue("gui", <<>>)
        PROVE  GuiWorks'
    <3>1. Wrote(items', items, q[1].rid, q[1].item)
      BY <1>2, <1>4, <2>3
    <3>2. Moving(D, Tail(q), items', changed', x, new)
      BY <1>1, <1>2, <1>10, <2>3, <3>1, MovingGoesOn
    <3>3. Works(D, Tail(q), items', changed')
      BY <3>2 DEF Works
    <3> QED BY <1>1, <1>3, <2>3, <3>3 DEF GuiWorks, D
  <2>4. CASE new \notin DOMAIN items
    <3>1. Even(DOMAIN D, D, changed, {}, {}) /\ rid = new
      BY <2>1, <2>2, <2>4
    <3>2. CASE /\ ValidItemLinks(D, rid, item.links) /\ items' = g
               /\ Count(rid[1], 1) /\ Continue("gui", <<>>)
      BY <1>6, <1>7, <1>8, <2>2, <2>3, <2>4, <3>1, <3>2
    <3> QED BY <1>1, <1>5, <2>2, <2>4, <3>1, <3>2
  <2>5. CASE new \in DOMAIN items
    <3>1. /\ rid \in DOMAIN items /\ item.text = items[rid].text
          /\ \A t \in DOMAIN item.links :
               /\ t # rid /\ t[1] \in DOMAIN D /\ IsAncestor(D, rid[1], t[1])
               /\ t \in DOMAIN items
      BY <1>2, <2>2, <2>5 DEF Rewrites
    <3>2. ValidItemLinks(D, rid, item.links)
      BY <3>1 DEF ValidItemLinks
    <3>3. items' = g /\ Count(rid[1], 0) /\ Continue("gui", <<>>)
      BY <1>1, <3>1, <3>2
    <3>4. changed' = changed
      BY <1>2, <3>3 DEF Count
    <3>5. rid[1] \in DOMAIN D
      BY <2>2, <3>1 DEF Unbroken, Anchored
    <3>6. Unbroken(D, items')
      <4>1. Unbroken(D, g)
        BY <1>4, <2>2, <3>1, <3>5, WritingAnchors
      <4> QED BY <3>3, <4>1
    <3>7. Ahead(D, docs, changed') /\ Even(DOMAIN D, D, changed', {new[1]}, {})
      BY <1>2, <2>1, <2>5, <3>4
    <3> QED BY <2>3, <3>3, <3>6, <3>7
  <2> QED BY <2>4, <2>5
<1> QED BY <1>1, <1>2, <1>9, <1>10, HeadTells DEF MovingFrom

-------------------------------------------------------------------------------
(* The calls the user makes                                                    *)

\* An idle GUI over the documents its next call finds.
LEMMA GuiRests ==
    ASSUME Types, GuiWorks, IsDocuments(cache["gui"]), call["gui"] = <<>>
    PROVE  LET D == EnsureDocuments("gui")
           IN  /\ IsDocuments(D) /\ Ahead(D, docs, changed) /\ Unbroken(D, items)
               /\ Even(DOMAIN D, D, changed, {}, {})
<1> DEFINE D == cache["gui"]
<1>1. /\ IsDocuments(D) /\ IsDocuments(docs) /\ Ahead(D, docs, changed)
      /\ Works(D, <<>>, items, changed)
  BY DEF GuiWorks, Types, FilesOK
<1> HIDE DEF D
<1>2. Unbroken(D, items) /\ Even(DOMAIN D, D, changed, {}, {})
  BY <1>1, IdleRests
<1>3. /\ Ahead(docs, docs, changed) /\ Unbroken(docs, items)
      /\ Even(DOMAIN docs, docs, changed, {}, {})
  BY <1>1, <1>2, ReadingRests
<1>4. EnsureDocuments("gui") = D \/ EnsureDocuments("gui") = docs
  BY DEF EnsureDocuments, D
<1> QED BY <1>1, <1>2, <1>3, <1>4

\* A call begins with its plan.
LEMMA GuiBegins ==
    ASSUME Types, GuiWorks, NEW op, NEW D, NEW plan, Begin(op, "gui", D, plan),
           Ahead(D, docs, changed), Works(D, plan, items, changed)
    PROVE  GuiWorks'
<1>1. /\ cache'["gui"] = D /\ call'["gui"] = plan /\ call'["mcp"] = call["mcp"]
      /\ UNCHANGED <<docs, items, changed>>
  BY DEF Begin, Types, ServicesOK, Services
<1> QED BY <1>1 DEF GuiWorks

\* A plan with one effect more.
LEMMA OneMore ==
    ASSUME NEW a \in Seq(Effects), NEW b \in Seq(Effects), Len(b) = 1
    PROVE  LET c == a \o b
           IN  /\ c \in Seq(Effects) /\ Len(a) \in Nat /\ Len(c) = Len(a) + 1
               /\ \A i \in 1 .. Len(a) : c[i] = a[i]
               /\ c[Len(a) + 1] = b[1]
<1> DEFINE c == a \o b
           k == Len(a)
<1>1. c \in Seq(Effects) /\ Len(c) = Len(a) + Len(b) /\ k \in Nat
  BY Joined
<1>2. \A i \in 1 .. Len(c) : c[i] = IF i <= Len(a) THEN a[i] ELSE b[i - Len(a)]
  OBVIOUS
<1> HIDE DEF c
<1>3. Len(c) = k + 1
  BY <1>1
<1>4. \A i \in 1 .. (k + 1) : c[i] = IF i <= k THEN a[i] ELSE b[i - k]
  BY <1>2, <1>3
<1> HIDE DEF k
<1>5. \A i \in 1 .. k : c[i] = a[i]
  BY <1>1, <1>4
<1>6. c[k + 1] = b[1]
  BY <1>1, <1>4
<1> QED BY <1>1, <1>3, <1>5, <1>6 DEF c, k

LEMMA EffectsOf ==
    ASSUME NEW p \in Prefix, NEW rid \in Rid
    PROVE  /\ Bump(p) \in Seq(Effects) /\ Len(Bump(p)) = 1
           /\ Bump(p)[1].op = "bump" /\ Bump(p)[1].prefix = p
           /\ Unlink(rid) \in Seq(Effects) /\ Len(Unlink(rid)) = 1
           /\ Unlink(rid)[1].op = "unlink" /\ Unlink(rid)[1].rid = rid
           /\ DeleteItem(rid, TRUE) \in Seq(Effects) /\ Len(DeleteItem(rid, TRUE)) = 1
           /\ DeleteItem(rid, TRUE)[1].op = "deleteItem" /\ DeleteItem(rid, TRUE)[1].rid = rid
           /\ Refresh \in Seq(Effects) /\ Len(Refresh) = 1 /\ Refresh[1].op = "refresh"
<1> DEFINE b == [op |-> "bump", prefix |-> p]
           u == [op |-> "unlink", rid |-> rid]
           d == [op |-> "deleteItem", rid |-> rid, must |-> TRUE]
           f == [op |-> "refresh"]
<1>1. b \in Effects /\ b.op = "bump" /\ b.prefix = p
  BY DEF Effects
<1>2. u \in Effects /\ u.op = "unlink" /\ u.rid = rid
  BY DEF Effects
<1>3. d \in Effects /\ d.op = "deleteItem" /\ d.rid = rid
  BY DEF Effects
<1>4. f \in Effects /\ f.op = "refresh"
  BY DEF Effects
<1>5. /\ Bump(p) = <<b>> /\ Unlink(rid) = <<u>> /\ DeleteItem(rid, TRUE) = <<d>>
      /\ Refresh = <<f>>
  BY DEF Bump, Unlink, DeleteItem, Refresh
<1> HIDE DEF b, u, d, f
<1>6. /\ <<b>> \in Seq(Effects) /\ Len(<<b>>) = 1 /\ <<b>>[1] = b
  BY <1>1, OneEffect
<1>7. /\ <<u>> \in Seq(Effects) /\ Len(<<u>>) = 1 /\ <<u>>[1] = u
  BY <1>2, OneEffect
<1>8. /\ <<d>> \in Seq(Effects) /\ Len(<<d>>) = 1 /\ <<d>>[1] = d
  BY <1>3, OneEffect
<1>9. /\ <<f>> \in Seq(Effects) /\ Len(<<f>>) = 1 /\ <<f>>[1] = f
  BY <1>4, OneEffect
<1> QED BY <1>1, <1>2, <1>3, <1>4, <1>5, <1>6, <1>7, <1>8, <1>9

LEMMA Lengths ==
    \A a \in Seq(Effects) : /\ DOMAIN a = 1 .. Len(a) /\ Len(a) \in Nat
                            /\ Len(a) > 0 => a # <<>>
OBVIOUS

\* The plan that saves a new file and bumps its document.
LEMMA AddingBegins ==
    ASSUME NEW D, NEW f, NEW n, Unbroken(D, f), Even(DOMAIN D, D, n, {}, {}),
           NEW rid \in Rid, rid[1] \in DOMAIN D, rid \notin DOMAIN f,
           NEW item \in Item, DOMAIN item.links \subseteq DOMAIN f
    PROVE  /\ Works(D, CreatePlan(rid, item), f, n)
           /\ Works(D, CreatePlan(rid, item) \o Refresh, f, n)
<1> DEFINE a == CreatePlan(rid, item)
           b == a \o Refresh
<1>1. rid[1] \in Prefix
  BY DEF Rid
<1>2. /\ a \in Seq(Effects) /\ Len(a) = 2 /\ a[1].op = "save" /\ a[1].rid = rid
      /\ a[1].item = item /\ a[2].op = "bump" /\ a[2].prefix = rid[1]
  <2> DEFINE s == Save(rid, item)
             p == Bump(rid[1])
             c == s \o p
  <2>1. /\ s \in Seq(Effects) /\ Len(s) = 1 /\ s[1].op = "save" /\ s[1].rid = rid
        /\ s[1].item = item
    BY SaveIs
  <2>2. p \in Seq(Effects) /\ Len(p) = 1 /\ p[1].op = "bump" /\ p[1].prefix = rid[1]
    BY <1>1, EffectsOf
  <2> HIDE DEF s, p
  <2>3. /\ c \in Seq(Effects) /\ Len(c) = Len(s) + 1 /\ c[Len(s) + 1] = p[1]
        /\ \A i \in 1 .. Len(s) : c[i] = s[i]
    BY <2>1, <2>2, OneMore
  <2>4. a = c
    BY DEF CreatePlan, s, p
  <2> HIDE DEF a, c
  <2>5. Len(s) + 1 = 2 /\ 1 \in 1 .. Len(s)
    BY <2>1
  <2> QED BY <2>1, <2>2, <2>3, <2>4, <2>5
<1>3. /\ b \in Seq(Effects) /\ Len(b) = 3 /\ b[1] = a[1] /\ b[2] = a[2] /\ b[3].op = "refresh"
  <2> DEFINE r == Refresh
  <2>1. r \in Seq(Effects) /\ Len(r) = 1 /\ r[1].op = "refresh"
    BY <1>1, EffectsOf
  <2> DEFINE c == a \o r
  <2> HIDE DEF r, a
  <2>2. /\ c \in Seq(Effects) /\ Len(c) = Len(a) + 1 /\ c[Len(a) + 1] = r[1]
        /\ \A i \in 1 .. Len(a) : c[i] = a[i]
    BY <1>2, <2>1, OneMore
  <2>3. b = c
    BY DEF r
  <2> HIDE DEF b, c
  <2>4. Len(a) + 1 = 3 /\ 1 \in 1 .. Len(a) /\ 2 \in 1 .. Len(a)
    BY <1>2
  <2> QED BY <2>1, <2>2, <2>3, <2>4
<1> HIDE DEF a, b
<1>4. Adding(D, a, f, n)
  <2>1. DOMAIN a = 1 .. 2 /\ a # <<>> /\ Len(a) >= 2
    BY <1>2, Lengths
  <2>2. Quiet(a, 2)
    BY <2>1 DEF Quiet
  <2> QED BY <1>2, <2>1, <2>2 DEF Adding, BumpNext
<1>5. Adding(D, b, f, n)
  <2>1. DOMAIN b = 1 .. 3
    BY <1>3, Lengths
  <2>2. Quiet(b, 2)
    BY <1>3, <2>1 DEF Quiet
  <2>3. b # <<>> /\ Len(b) >= 2
    <3>1. Len(b) = 3
      BY <1>3
    <3>2. Len(<<>>) = 0
      OBVIOUS
    <3> QED BY <3>1, <3>2
  <2> QED BY <1>2, <1>3, <2>2, <2>3 DEF Adding, BumpNext
<1> QED BY <1>4, <1>5 DEF Works, a, b

\* What is loaded has links to items that are there.
LEMMA LoadedLinks ==
    ASSUME Types, NEW D, Unbroken(D, items), NEW rid \in DOMAIN items
    PROVE  /\ Loaded(D, rid) \in Item /\ Loaded(D, rid).text = items[rid].text
           /\ DOMAIN Loaded(D, rid).links = DOMAIN items[rid].links
           /\ DOMAIN Loaded(D, rid).links \subseteq DOMAIN items
<1> DEFINE links == PrepareLinks(D, items[rid].links)
<1>1. Loaded(D, rid) \in Item /\ Loaded(D, rid).text = items[rid].text
  BY LoadedType DEF Types, FilesOK
<1>2. items[rid] \in Item /\ Loaded(D, rid) = [items[rid] EXCEPT !.links = links]
  BY DEF Loaded, Types, FilesOK
<1>3. DOMAIN links = DOMAIN items[rid].links
  BY DEF PrepareLinks
<1> HIDE DEF links
<1>4. Loaded(D, rid).links = links
  BY <1>2 DEF Item
<1> QED BY <1>1, <1>3, <1>4 DEF Unbroken, Anchored

LEMMA GuiClones == Types /\ GuiWorks /\ IsDocuments(cache["gui"]) /\ CloneRequirement => GuiWorks'
<1> SUFFICES ASSUME Types, GuiWorks, IsDocuments(cache["gui"]), CloneRequirement
             PROVE  GuiWorks'
  OBVIOUS
<1> DEFINE D == EnsureDocuments("gui")
<1>1. PICK rid \in DOMAIN items, derive \in BOOLEAN :
        LET source == Loaded(D, rid)
            up == [rev |-> source.rev, suspect |-> FALSE, seen |-> Seen(source)]
            copy == <<rid[1], NextItemId(rid[1])>>
        IN
        /\ Resolves(D, rid)
        /\ copy[2] <= MaxId
        /\ Begin("clone", "gui", D,
                 CreatePlan(copy, [source EXCEPT
                                      !.uid = calls, !.rev = 1,
                                      !.links = IF derive THEN With(@, rid, up) ELSE @]))
  BY DEF CloneRequirement
<1>2. call["gui"] = <<>>
  BY <1>1 DEF Begin
<1>3. /\ IsDocuments(D) /\ Ahead(D, docs, changed) /\ Unbroken(D, items)
      /\ Even(DOMAIN D, D, changed, {}, {})
  BY <1>2, GuiRests
<1> DEFINE source == Loaded(D, rid)
           up == [rev |-> source.rev, suspect |-> FALSE, seen |-> Seen(source)]
           copy == <<rid[1], NextItemId(rid[1])>>
           links == IF derive THEN With(source.links, rid, up) ELSE source.links
           item == [source EXCEPT !.uid = calls, !.rev = 1, !.links = links]
<1>4. rid \in Rid /\ rid[1] \in DOMAIN D /\ rid[1] \in Prefix
  BY <1>1, <1>3 DEF Types, FilesOK, Resolves, IsDocuments
<1>5. source \in Item /\ DOMAIN source.links \subseteq DOMAIN items
  BY <1>3, LoadedLinks
<1>6. copy \in Rid /\ copy[1] = rid[1] /\ copy \notin DOMAIN items
  BY <1>1, <1>4, NextItemIdType DEF Types, FilesOK
<1>7. Begin("clone", "gui", D, CreatePlan(copy, item))
  BY <1>1
<1> HIDE DEF source, copy, D
<1>8. up \in Link /\ source.links \in LinkMaps
  BY <1>5 DEF Link, Item, Seen
<1> HIDE DEF up
<1>9. links \in LinkMaps /\ DOMAIN links \subseteq DOMAIN items
  <2>1. DOMAIN With(source.links, rid, up) = DOMAIN source.links \cup {rid}
    BY DEF With
  <2> QED BY <1>4, <1>5, <1>8, <2>1, LinksWith
<1> HIDE DEF links
<1>10. item \in Item /\ item.links = links
  <2>1. calls \in Int
    BY DEF Types, CountersOK
  <2>2. item \in Item
    BY <1>5, <1>9, <2>1, CopyType
  <2> QED BY <1>5, <2>2 DEF Item
<1> HIDE DEF item
<1>11. Works(D, CreatePlan(copy, item), items, changed)
  BY <1>3, <1>4, <1>6, <1>9, <1>10, AddingBegins
<1> QED BY <1>3, <1>7, <1>11, GuiBegins

LEMMA GuiCopies == Types /\ GuiWorks /\ IsDocuments(cache["gui"]) /\ CopyRequirement => GuiWorks'
<1> SUFFICES ASSUME Types, GuiWorks, IsDocuments(cache["gui"]), CopyRequirement
             PROVE  GuiWorks'
  OBVIOUS
<1> DEFINE D == EnsureDocuments("gui")
<1>1. PICK rid \in DOMAIN items, p \in DOMAIN D, reset \in BOOLEAN :
        /\ NextItemId(p) <= MaxId
        /\ Begin("copy", "gui", D,
                 CreatePlan(<<p, NextItemId(p)>>,
                            [Loaded(D, rid) EXCEPT !.uid = calls,
                                                   !.rev = IF reset THEN 1 ELSE @])
                 \o Refresh)
  BY DEF CopyRequirement
<1>2. call["gui"] = <<>>
  BY <1>1 DEF Begin
<1>3. /\ IsDocuments(D) /\ Ahead(D, docs, changed) /\ Unbroken(D, items)
      /\ Even(DOMAIN D, D, changed, {}, {})
  BY <1>2, GuiRests
<1> DEFINE source == Loaded(D, rid)
           copy == <<p, NextItemId(p)>>
           rev == IF reset THEN 1 ELSE source.rev
           item == [source EXCEPT !.uid = calls, !.rev = rev]
<1>4. source \in Item /\ DOMAIN source.links \subseteq DOMAIN items
  BY <1>3, LoadedLinks
<1>5. copy \in Rid /\ copy[1] \in DOMAIN D /\ copy \notin DOMAIN items
  <2>1. p \in Prefix
    BY <1>3 DEF IsDocuments
  <2> QED BY <1>1, <2>1, NextItemIdType DEF Types, FilesOK
<1>6. Begin("copy", "gui", D, CreatePlan(copy, item) \o Refresh)
  BY <1>1
<1> HIDE DEF source, copy, D
<1>7. rev \in Nat
  BY <1>4 DEF Item
<1> HIDE DEF rev
<1>8. item \in Item /\ item.links = source.links
  <2>1. calls \in Int
    BY DEF Types, CountersOK
  <2>2. item \in Item
    BY <1>4, <1>7, <2>1, CopyType, NoLinks
  <2> QED BY <1>4, <2>2 DEF Item
<1> HIDE DEF item
<1>9. Works(D, CreatePlan(copy, item) \o Refresh, items, changed)
  BY <1>3, <1>4, <1>5, <1>8, AddingBegins
<1> QED BY <1>3, <1>6, <1>9, GuiBegins

LEMMA TwoEffects ==
    ASSUME NEW a \in Seq(Effects), NEW b \in Seq(Effects), Len(a) = 1, Len(b) = 1
    PROVE  LET c == a \o b
           IN  /\ c \in Seq(Effects) /\ Len(c) = 2 /\ c # <<>> /\ DOMAIN c = 1 .. 2
               /\ c[1] = a[1] /\ c[2] = b[1]
<1> DEFINE c == a \o b
<1>1. /\ c \in Seq(Effects) /\ Len(c) = Len(a) + 1 /\ c[Len(a) + 1] = b[1]
      /\ \A i \in 1 .. Len(a) : c[i] = a[i]
  BY OneMore
<1> HIDE DEF c
<1>2. Len(a) + 1 = 2 /\ 1 \in 1 .. Len(a)
  OBVIOUS
<1>3. Len(c) = 2 /\ c # <<>> /\ DOMAIN c = 1 .. 2
  BY <1>1, <1>2
<1> QED BY <1>1, <1>2, <1>3 DEF c

LEMMA GuiDeletes ==
    Types /\ GuiWorks /\ IsDocuments(cache["gui"]) /\ DeleteRequirement("delete", "gui")
    => GuiWorks'
<1> SUFFICES ASSUME Types, GuiWorks, IsDocuments(cache["gui"]), DeleteRequirement("delete", "gui")
             PROVE  GuiWorks'
  OBVIOUS
<1> DEFINE D == EnsureDocuments("gui")
<1>1. PICK rid \in DOMAIN items :
        Resolves(D, rid) /\ Begin("delete", "gui", D, DeletePlan(rid))
  BY DEF DeleteRequirement
<1>2. call["gui"] = <<>>
  BY <1>1 DEF Begin
<1>3. /\ IsDocuments(D) /\ Ahead(D, docs, changed) /\ Unbroken(D, items)
      /\ Even(DOMAIN D, D, changed, {}, {})
  BY <1>2, GuiRests
<1>4. rid \in Rid /\ rid[1] \in Prefix
  BY DEF Types, FilesOK, Rid
<1> HIDE DEF D
<1> DEFINE a == DeleteItem(rid, TRUE)
           b == Bump(rid[1])
           c == a \o b
<1>5. /\ a \in Seq(Effects) /\ Len(a) = 1 /\ a[1].op = "deleteItem" /\ a[1].rid = rid
      /\ b \in Seq(Effects) /\ Len(b) = 1 /\ b[1].op = "bump" /\ b[1].prefix = rid[1]
  BY <1>4, EffectsOf
<1>6. DeletePlan(rid) = c
  BY DEF DeletePlan
<1> HIDE DEF a, b
<1>7. /\ c # <<>> /\ Len(c) = 2 /\ DOMAIN c = 1 .. 2
      /\ c[1].op = "deleteItem" /\ c[1].rid = rid
      /\ c[2].op = "bump" /\ c[2].prefix = rid[1]
  BY <1>5, TwoEffects
<1> HIDE DEF c
<1>8. Quiet(c, 2) /\ Len(c) >= 2
  BY <1>7 DEF Quiet
<1>9. Works(D, c, items, changed)
  BY <1>3, <1>7, <1>8 DEF Works, Deleting, BumpNext
<1> QED BY <1>1, <1>3, <1>6, <1>9, GuiBegins

LEMMA GuiCreatesDocument ==
    Types /\ GuiWorks /\ IsDocuments(cache["gui"]) /\ CreateDocument => GuiWorks'
<1> SUFFICES ASSUME Types, GuiWorks, IsDocuments(cache["gui"]), CreateDocument
             PROVE  GuiWorks'
  OBVIOUS
<1> DEFINE D == EnsureDocuments("gui")
<1>1. PICK p \in Prefix \ DOMAIN D, parent \in DOMAIN D \cup {NoDoc} :
        Begin("create_document", "gui", D,
              WriteDocument(p, [parent |-> parent, rev |-> 1]) \o Refresh)
  BY DEF CreateDocument
<1>2. call["gui"] = <<>>
  BY <1>1 DEF Begin
<1>3. /\ IsDocuments(D) /\ Ahead(D, docs, changed) /\ Unbroken(D, items)
      /\ Even(DOMAIN D, D, changed, {}, {})
  BY <1>2, GuiRests
<1> HIDE DEF D
<1> DEFINE d == [parent |-> parent, rev |-> 1]
           a == WriteDocument(p, d)
           b == Refresh
           c == a \o b
<1>4. d \in Document /\ d.rev = 1
  BY <1>3 DEF Document, IsDocuments
<1> HIDE DEF d
<1>5. /\ a \in Seq(Effects) /\ Len(a) = 1 /\ a[1].op = "writeDocument"
      /\ a[1].prefix = p /\ a[1].doc = d
  <2> DEFINE e == [op |-> "writeDocument", prefix |-> p, doc |-> d]
  <2>1. e \in Effects /\ e.op = "writeDocument" /\ e.prefix = p /\ e.doc = d
    BY <1>4 DEF Effects
  <2>2. a = <<e>>
    BY DEF WriteDocument
  <2> HIDE DEF e, a
  <2> QED BY <2>1, <2>2, OneEffect
<1>6. b \in Seq(Effects) /\ Len(b) = 1 /\ b[1].op = "refresh"
  <2> DEFINE e == [op |-> "refresh"]
  <2>1. e \in Effects /\ e.op = "refresh"
    BY DEF Effects
  <2>2. b = <<e>>
    BY DEF Refresh
  <2> HIDE DEF e, b
  <2> QED BY <2>1, <2>2, OneEffect
<1>7. Begin("create_document", "gui", D, c)
  BY <1>1 DEF d
<1> HIDE DEF a, b
<1>8. /\ c # <<>> /\ DOMAIN c = 1 .. 2 /\ c[1] = a[1] /\ c[2] = b[1]
  BY <1>5, <1>6, TwoEffects
<1> HIDE DEF c
<1>9. Quiet(c, 1)
  BY <1>6, <1>8 DEF Quiet
<1>10. Works(D, c, items, changed)
  BY <1>3, <1>4, <1>5, <1>8, <1>9 DEF Works, Writing
<1> QED BY <1>3, <1>7, <1>10, GuiBegins

LEMMA GuiDeletesDocument ==
    Types /\ GuiWorks /\ IsDocuments(cache["gui"]) /\ DeleteDocument => GuiWorks'
<1> SUFFICES ASSUME Types, GuiWorks, IsDocuments(cache["gui"]), DeleteDocument
             PROVE  GuiWorks'
  OBVIOUS
<1> DEFINE D == EnsureDocuments("gui")
<1>1. PICK p \in DOMAIN D : Begin("delete_document", "gui", D, DropDocument(p) \o Refresh)
  BY DEF DeleteDocument
<1>2. call["gui"] = <<>>
  BY <1>1 DEF Begin
<1>3. /\ IsDocuments(D) /\ Ahead(D, docs, changed) /\ Unbroken(D, items)
      /\ Even(DOMAIN D, D, changed, {}, {})
  BY <1>2, GuiRests
<1> HIDE DEF D
<1> DEFINE a == DropDocument(p)
           b == Refresh
           c == a \o b
<1>4. p \in Prefix
  BY <1>3 DEF IsDocuments
<1>5. /\ a \in Seq(Effects) /\ DOMAIN a = {1} /\ a[1].op = "dropDocument"
      /\ b \in Seq(Effects) /\ DOMAIN b = {1} /\ b[1].op = "refresh"
  BY <1>4, DropIs
<1> HIDE DEF a, b
<1>6. \A i \in DOMAIN c : c[i].op \in {"dropDocument", "refresh"}
  BY <1>5, Joined
<1>7. Begin("delete_document", "gui", D, c)
  BY <1>1 DEF a, b
<1> HIDE DEF c
<1>8. Works(D, c, items, changed)
  BY <1>3, <1>6 DEF Works, Resting, Quiet
<1> QED BY <1>3, <1>7, <1>8, GuiBegins

\* One effect put before a plan.
LEMMA OneBefore ==
    ASSUME NEW a \in Seq(Effects), NEW b \in Seq(Effects), Len(a) = 1
    PROVE  LET c == a \o b
           IN  /\ c \in Seq(Effects) /\ Len(b) \in Nat /\ Len(c) = Len(b) + 1
               /\ c[1] = a[1]
               /\ \A i \in 1 .. Len(b) : c[i + 1] = b[i]
<1> DEFINE c == a \o b
           k == Len(b)
<1>1. /\ c \in Seq(Effects) /\ Len(c) = 1 + k /\ k \in Nat
      /\ DOMAIN a = 1 .. 1 /\ DOMAIN b = 1 .. k
  <2>1. /\ c \in Seq(Effects) /\ Len(c) = Len(a) + Len(b) /\ Len(b) \in Nat
        /\ DOMAIN a = 1 .. Len(a) /\ DOMAIN b = 1 .. Len(b)
    BY Joined
  <2> HIDE DEF c
  <2> QED BY <2>1
<1>2. \A i \in DOMAIN c :
        \/ i \in DOMAIN a /\ c[i] = a[i]
        \/ i \notin DOMAIN a /\ i - Len(a) \in DOMAIN b /\ c[i] = b[i - Len(a)]
  BY Joined
<1>3. DOMAIN c = 1 .. (1 + k)
  BY <1>1
<1> HIDE DEF c, k
<1>4. c[1] = a[1]
  BY <1>1, <1>2, <1>3
<1>5. ASSUME NEW i \in 1 .. k PROVE c[i + 1] = b[i]
  <2>1. i + 1 \in DOMAIN c /\ i + 1 \notin DOMAIN a /\ (i + 1) - Len(a) = i
    BY <1>1, <1>3
  <2> QED BY <1>2, <2>1
<1>6. Len(c) = k + 1
  BY <1>1
<1>7. /\ c \in Seq(Effects) /\ k \in Nat /\ Len(c) = k + 1
      /\ c[1] = a[1] /\ \A i \in 1 .. k : c[i + 1] = b[i]
  BY <1>1, <1>4, <1>5, <1>6
<1> QED BY <1>7 DEF c, k

\* The plan of a move, by number.
InOrder(c, rid, new, item, redirect) ==
    /\ c \in Seq(Effects) /\ Len(redirect) \in Nat /\ Len(c) = Len(redirect) + 5
    /\ c[1].op = "save" /\ c[1].rid = new /\ c[1].item = item
    /\ \A i \in 1 .. Len(redirect) : c[i + 1] = redirect[i]
    /\ c[Len(redirect) + 2].op = "bump" /\ c[Len(redirect) + 2].prefix = rid[1]
    /\ c[Len(redirect) + 3].op = "bump" /\ c[Len(redirect) + 3].prefix = new[1]
    /\ c[Len(redirect) + 4].op = "unlink" /\ c[Len(redirect) + 4].rid = rid
    /\ c[Len(redirect) + 5].op = "refresh"

LEMMA MovePlanIs ==
    ASSUME NEW rid \in Rid, NEW new \in Rid, NEW item \in Item, NEW redirect \in Seq(Effects)
    PROVE  InOrder(MovePlan(rid, new, item, redirect) \o Refresh, rid, new, item, redirect)
<1> DEFINE s == Save(new, item)
           b == Bump(rid[1])
           e == Bump(new[1])
           u == Unlink(rid)
           r == Refresh
           k == Len(redirect)
           c1 == s \o redirect
           c2 == c1 \o b
           c3 == c2 \o e
           c4 == c3 \o u
           c5 == c4 \o r
<1>1. rid[1] \in Prefix /\ new[1] \in Prefix
  BY DEF Rid
<1>2. /\ s \in Seq(Effects) /\ Len(s) = 1
      /\ s[1].op = "save" /\ s[1].rid = new /\ s[1].item = item
  BY SaveIs
<1>3. b \in Seq(Effects) /\ Len(b) = 1 /\ b[1].op = "bump" /\ b[1].prefix = rid[1]
  BY <1>1, EffectsOf
<1>4. e \in Seq(Effects) /\ Len(e) = 1 /\ e[1].op = "bump" /\ e[1].prefix = new[1]
  BY <1>1, EffectsOf
<1>5. u \in Seq(Effects) /\ Len(u) = 1 /\ u[1].op = "unlink" /\ u[1].rid = rid
  BY <1>1, EffectsOf
<1>6. r \in Seq(Effects) /\ Len(r) = 1 /\ r[1].op = "refresh"
  BY <1>1, EffectsOf
<1>7. MovePlan(rid, new, item, redirect) \o Refresh = c5
  BY DEF MovePlan
<1> HIDE DEF s, b, e, u, r, k
<1>8. /\ c1 \in Seq(Effects) /\ Len(c1) = k + 1 /\ k \in Nat /\ c1[1] = s[1]
      /\ \A i \in 1 .. k : c1[i + 1] = redirect[i]
  BY <1>2, OneBefore DEF k
<1> HIDE DEF c1
<1>9. /\ c2 \in Seq(Effects) /\ Len(c2) = Len(c1) + 1 /\ c2[Len(c1) + 1] = b[1]
      /\ \A i \in 1 .. Len(c1) : c2[i] = c1[i]
  BY <1>3, <1>8, OneMore
<1> HIDE DEF c2
<1>10. /\ c3 \in Seq(Effects) /\ Len(c3) = Len(c2) + 1 /\ c3[Len(c2) + 1] = e[1]
       /\ \A i \in 1 .. Len(c2) : c3[i] = c2[i]
  BY <1>4, <1>9, OneMore
<1> HIDE DEF c3
<1>11. /\ c4 \in Seq(Effects) /\ Len(c4) = Len(c3) + 1 /\ c4[Len(c3) + 1] = u[1]
       /\ \A i \in 1 .. Len(c3) : c4[i] = c3[i]
  BY <1>5, <1>10, OneMore
<1> HIDE DEF c4
<1>12. /\ c5 \in Seq(Effects) /\ Len(c5) = Len(c4) + 1 /\ c5[Len(c4) + 1] = r[1]
       /\ \A i \in 1 .. Len(c4) : c5[i] = c4[i]
  BY <1>6, <1>11, OneMore
<1> HIDE DEF c5
<1>13. Len(c2) = k + 2 /\ Len(c3) = k + 3 /\ Len(c4) = k + 4 /\ Len(c5) = k + 5
  BY <1>8, <1>9, <1>10, <1>11, <1>12
<1>14. \A i \in 1 .. (k + 1) : c5[i] = c1[i]
  BY <1>8, <1>9, <1>10, <1>11, <1>12, <1>13
<1>15. c5[k + 2] = b[1] /\ c5[k + 3] = e[1] /\ c5[k + 4] = u[1] /\ c5[k + 5] = r[1]
  <2>1. c5[k + 5] = r[1]
    BY <1>8, <1>12, <1>13
  <2>2. c5[k + 4] = u[1]
    BY <1>8, <1>11, <1>12, <1>13
  <2>3. c5[k + 3] = e[1]
    BY <1>8, <1>10, <1>11, <1>12, <1>13
  <2>4. c5[k + 2] = b[1]
    <3>1. c2[k + 2] = b[1]
      BY <1>8, <1>9
    <3>2. k + 2 \in 1 .. Len(c2) /\ k + 2 \in 1 .. Len(c3) /\ k + 2 \in 1 .. Len(c4)
      BY <1>8, <1>13
    <3> QED BY <1>10, <1>11, <1>12, <3>1, <3>2
  <2> QED BY <2>1, <2>2, <2>3, <2>4
<1>16. c5[1] = s[1] /\ \A i \in 1 .. k : c5[i + 1] = redirect[i]
  <2>1. 1 \in 1 .. (k + 1)
    BY <1>8
  <2>2. ASSUME NEW i \in 1 .. k PROVE c5[i + 1] = redirect[i]
    <3>1. i + 1 \in 1 .. (k + 1)
      BY <1>8
    <3> QED BY <1>8, <1>14, <3>1
  <2> QED BY <1>8, <1>14, <2>1, <2>2
<1>17. /\ c5 \in Seq(Effects) /\ k \in Nat /\ Len(c5) = k + 5
       /\ c5[1].op = "save" /\ c5[1].rid = new /\ c5[1].item = item
       /\ \A i \in 1 .. k : c5[i + 1] = redirect[i]
       /\ c5[k + 2].op = "bump" /\ c5[k + 2].prefix = rid[1]
       /\ c5[k + 3].op = "bump" /\ c5[k + 3].prefix = new[1]
       /\ c5[k + 4].op = "unlink" /\ c5[k + 4].rid = rid
       /\ c5[k + 5].op = "refresh"
  BY <1>2, <1>3, <1>4, <1>5, <1>6, <1>8, <1>12, <1>13, <1>15, <1>16
<1> QED BY <1>7, <1>17 DEF k, InOrder

\* The referrers of rid, as a move saves them.
Redirecting(D, f, redirect, rid, new) ==
    /\ redirect \in Seq(Effects)
    /\ \A i \in DOMAIN redirect :
         redirect[i].op = "save" /\ Rewrites(D, f, redirect[i], rid, new)
    /\ \A r \in DOMAIN f \ {rid} : rid \in DOMAIN f[r].links =>
         \E i \in DOMAIN redirect : redirect[i].rid = r

LEMMA MovingBegins ==
    ASSUME NEW D, NEW f, NEW n, Unbroken(D, f), Even(DOMAIN D, D, n, {}, {}),
           NEW rid \in Rid, NEW new \in Rid, NEW item \in Item, NEW redirect,
           Redirecting(D, f, redirect, rid, new), rid \in DOMAIN f, new \notin DOMAIN f,
           rid[1] # new[1], new[1] \in DOMAIN D, DOMAIN item.links \subseteq DOMAIN f \ {rid}
    PROVE  Works(D, MovePlan(rid, new, item, redirect) \o Refresh, f, n)
<1> DEFINE c == MovePlan(rid, new, item, redirect) \o Refresh
           k == Len(redirect)
           m == k + 5
<1>a. redirect \in Seq(Effects)
  BY DEF Redirecting
<1>b. InOrder(c, rid, new, item, redirect)
  BY <1>a, MovePlanIs
<1> HIDE DEF c
<1>1. redirect \in Seq(Effects) /\ DOMAIN redirect = 1 .. k
  BY DEF Redirecting
<1>2. /\ c \in Seq(Effects) /\ k \in Nat /\ Len(c) = k + 5
      /\ c[1].op = "save" /\ c[1].rid = new /\ c[1].item = item
      /\ \A i \in 1 .. k : c[i + 1] = redirect[i]
      /\ c[k + 2].op = "bump" /\ c[k + 2].prefix = rid[1]
      /\ c[k + 3].op = "bump" /\ c[k + 3].prefix = new[1]
      /\ c[k + 4].op = "unlink" /\ c[k + 4].rid = rid
      /\ c[k + 5].op = "refresh"
  BY <1>b DEF InOrder
<1> HIDE DEF k
<1>3. DOMAIN c = 1 .. m /\ Len(c) = m /\ m \in Nat /\ m > 4
  BY <1>2
<1>4. m - 1 = k + 4 /\ m - 2 = k + 3 /\ m - 3 = k + 2
  BY <1>2
<1>5. ASSUME NEW i \in DOMAIN c, i + 4 <= m, i # 1
      PROVE  i - 1 \in DOMAIN redirect /\ c[i] = redirect[i - 1]
  <2>1. i - 1 \in 1 .. k /\ (i - 1) + 1 = i
    BY <1>2, <1>3, <1>5
  <2> QED BY <1>1, <1>2, <2>1
<1>6. ASSUME NEW j \in DOMAIN redirect
      PROVE  j + 1 \in DOMAIN c /\ (j + 1) + 4 <= m /\ c[j + 1] = redirect[j]
  BY <1>1, <1>2, <1>3
<1>7. /\ c[m].op = "refresh"
      /\ c[m - 1].op = "unlink" /\ c[m - 1].rid = rid
      /\ c[m - 2].op = "bump" /\ c[m - 2].prefix = new[1]
      /\ c[m - 3].op = "bump" /\ c[m - 3].prefix = rid[1]
  BY <1>2, <1>4
<1> HIDE DEF m
<1>8. m >= 2 /\ m >= 3 /\ ~ (m <= 3)
  BY <1>3
<1>9. MoveLeft(c, rid, new)
  <2>1. \A i \in DOMAIN c : i + 4 <= m => c[i].op = "save"
    BY <1>2, <1>5 DEF Redirecting
  <2> QED BY <1>3, <1>7, <1>8, <2>1 DEF MoveLeft
<1>10. \A i \in DOMAIN c : i + 4 <= m =>
         (i = 1 /\ new \notin DOMAIN f) \/ Rewrites(D, f, c[i], rid, new)
  BY <1>5 DEF Redirecting
<1>11. \A r \in DOMAIN f \ {rid} : rid \in DOMAIN f[r].links =>
         \E i \in DOMAIN c : i + 4 <= m /\ c[i].rid = r
  BY <1>6 DEF Redirecting
<1>12. Even(DOMAIN D, D, n, IF new \in DOMAIN f /\ m >= 3 THEN {new[1]} ELSE {},
            IF m <= 3 THEN {rid[1]} ELSE {})
  BY <1>8
<1>13. Moving(D, c, f, n, rid, new)
  BY <1>2, <1>3, <1>9, <1>10, <1>11, <1>12 DEF Moving
<1> QED BY <1>13 DEF Works, c

\* A redirected item links to the new one in the place of the old one.
LEMMA RedirectedLinks ==
    ASSUME Types, NEW D, Unbroken(D, items), NEW r \in DOMAIN items, NEW rid \in DOMAIN items,
           NEW new \in Rid, new \notin DOMAIN items, new[1] # rid[1],
           new[1] \in DOMAIN D, IsAncestor(D, r[1], new[1]),
           NEW t \in DOMAIN Redirected(r, rid, new).links
    PROVE  /\ t \in (DOMAIN items \cup {new}) \ {r, rid}
           /\ t[1] \in DOMAIN D /\ IsAncestor(D, r[1], t[1])
<1> DEFINE rest == Without(items[r].links, rid)
           links == With(rest, new, NewLink)
<1>1. Redirected(r, rid, new) = [items[r] EXCEPT !.links = links]
  BY DEF Redirected
<1>2. DOMAIN rest = DOMAIN items[r].links \ {rid}
  BY RestrictIs DEF Without
<1> HIDE DEF rest
<1>3. DOMAIN links = DOMAIN rest \cup {new}
  BY DEF With
<1> HIDE DEF links
<1>4. items[r] \in Item
  BY DEF Types, FilesOK
<1>5. Redirected(r, rid, new).links = links
  BY <1>1, <1>4 DEF Item
<1>6. CASE t = new
  BY <1>6
<1>7. CASE t \in DOMAIN items[r].links \ {rid}
  BY <1>7 DEF Unbroken, Anchored
<1> QED BY <1>2, <1>3, <1>5, <1>6, <1>7

\* What a move redirects is all that links to the item it moves.
LEMMA MoveRedirects ==
    ASSUME Types, NEW D, Unbroken(D, items), NEW rid \in DOMAIN items,
           NEW new \in Rid, new \notin DOMAIN items, new[1] # rid[1], new[1] \in DOMAIN D,
           \A r \in Referrers(D, rid) : IsAncestor(D, r[1], new[1])
    PROVE  LET order == CHOOSE f \in [1..Cardinality(Referrers(D, rid)) -> Referrers(D, rid)] :
                           IsInjective(f)
               redirect == [i \in DOMAIN order |->
                              Save(order[i], Redirected(order[i], rid, new))[1]]
           IN  Redirecting(D, items, redirect, rid, new)
<1> DEFINE R == Referrers(D, rid)
           n == Cardinality(R)
           order == CHOOSE f \in [1..Cardinality(Referrers(D, rid)) -> Referrers(D, rid)] :
                        IsInjective(f)
           redirect == [i \in DOMAIN order |->
                           Save(order[i], Redirected(order[i], rid, new))[1]]
<1>1. /\ R \subseteq DOMAIN items /\ R \subseteq Rid /\ rid \notin R
      /\ \A r \in DOMAIN items \ {rid} : rid \in DOMAIN items[r].links => r \in R
  BY DEF Referrers, Types, FilesOK, Unbroken, Anchored
<1>2. n \in Nat /\ order \in [1 .. n -> R] /\ IsInjective(order)
  BY <1>1, ListOf
<1>3. \A r \in R : IsAncestor(D, r[1], new[1])
  OBVIOUS
<1> HIDE DEF R, order
<1>4. \A r \in R : \E i \in 1 .. n : order[i] = r
  BY <1>1, <1>2, ListsAll
<1> HIDE DEF n
<1>5. ASSUME NEW i \in 1 .. n
      PROVE  /\ redirect[i] \in Effects /\ redirect[i].op = "save"
             /\ redirect[i].rid = order[i]
             /\ Rewrites(D, items, redirect[i], rid, new)
  <2> DEFINE r == order[i]
             item == Redirected(r, rid, new)
  <2>1. r \in DOMAIN items /\ r \in Rid /\ r # rid /\ i \in DOMAIN order /\ r \in R
    BY <1>1, <1>2
  <2>2. redirect[i] = Save(r, item)[1]
    BY <2>1
  <2> HIDE DEF r, redirect
  <2>3. item \in Item /\ item.text = items[r].text
    BY <2>1, RedirectedType DEF Types, FilesOK
  <2>4. IsAncestor(D, r[1], new[1])
    BY <1>3, <2>1
  <2>5. ASSUME NEW t \in DOMAIN item.links
        PROVE  /\ t \in (DOMAIN items \cup {new}) \ {r, rid}
               /\ t[1] \in DOMAIN D /\ IsAncestor(D, r[1], t[1])
    BY <2>1, <2>4, RedirectedLinks
  <2> HIDE DEF item
  <2>6. /\ redirect[i] \in Effects /\ redirect[i].op = "save"
        /\ redirect[i].rid = r /\ redirect[i].item = item
    BY <2>1, <2>2, <2>3, SaveIs, FirstOf
  <2>7. Rewrites(D, items, redirect[i], rid, new)
    BY <2>1, <2>3, <2>5, <2>6 DEF Rewrites
  <2> QED BY <2>6, <2>7 DEF r
<1>6. redirect = [i \in 1 .. n |-> redirect[i]]
  BY <1>2
<1> HIDE DEF redirect
<1>7. redirect \in Seq(Effects) /\ DOMAIN redirect = 1 .. n
  BY <1>2, <1>5, <1>6, Listed
<1>8. Redirecting(D, items, redirect, rid, new)
  <2>1. ASSUME NEW r \in DOMAIN items \ {rid}, rid \in DOMAIN items[r].links
        PROVE  \E i \in DOMAIN redirect : redirect[i].rid = r
    BY <1>1, <1>4, <1>5, <1>7, <2>1
  <2> QED BY <1>5, <1>7, <2>1 DEF Redirecting
<1> QED BY <1>8 DEF redirect, order

LEMMA GuiMoves == Types /\ GuiWorks /\ IsDocuments(cache["gui"]) /\ MoveRequirement => GuiWorks'
<1> SUFFICES ASSUME Types, GuiWorks, IsDocuments(cache["gui"]), MoveRequirement
             PROVE  GuiWorks'
  OBVIOUS
<1> DEFINE D == EnsureDocuments("gui")
<1>1. PICK rid \in DOMAIN items, p \in DOMAIN D :
        LET new == <<p, NextItemId(p)>>
            order == CHOOSE f \in [1..Cardinality(Referrers(D, rid)) -> Referrers(D, rid)] :
                         IsInjective(f)
            redirect == [i \in DOMAIN order |->
                            Save(order[i], Redirected(order[i], rid, new))[1]]
        IN
        /\ Resolves(D, rid)
        /\ p # rid[1]
        /\ new[2] <= MaxId
        /\ \A r \in Referrers(D, rid) : IsAncestor(D, r[1], p)
        /\ Begin("move", "gui", D,
                 MovePlan(rid, new, Loaded(D, rid), redirect) \o Refresh)
  BY DEF MoveRequirement
<1> DEFINE new == <<p, NextItemId(p)>>
           order == CHOOSE f \in [1..Cardinality(Referrers(D, rid)) -> Referrers(D, rid)] :
                        IsInjective(f)
           redirect == [i \in DOMAIN order |->
                           Save(order[i], Redirected(order[i], rid, new))[1]]
           item == Loaded(D, rid)
<1>2. call["gui"] = <<>>
  BY <1>1, ZenonT(60) DEF Begin
<1>3. /\ IsDocuments(D) /\ Ahead(D, docs, changed) /\ Unbroken(D, items)
      /\ Even(DOMAIN D, D, changed, {}, {})
  BY <1>2, GuiRests
<1>4. /\ new \in Rid /\ new \notin DOMAIN items /\ new[1] = p /\ new[1] \in DOMAIN D
      /\ new[1] # rid[1]
  <2>1. p \in Prefix
    BY <1>3 DEF IsDocuments
  <2> QED BY <1>1, <2>1, NextItemIdType DEF Types, FilesOK
<1>5. rid \in Rid
  BY DEF Types, FilesOK
<1>6. Begin("move", "gui", D, MovePlan(rid, new, item, redirect) \o Refresh)
  BY <1>1
<1>7. \A r \in Referrers(D, rid) : IsAncestor(D, r[1], new[1])
  BY <1>1
<1> HIDE DEF new, D
<1>8. Redirecting(D, items, redirect, rid, new)
  BY <1>3, <1>4, <1>7, MoveRedirects
<1> HIDE DEF redirect
<1>9. item \in Item /\ DOMAIN item.links \subseteq DOMAIN items \ {rid}
  <2>1. /\ item \in Item /\ DOMAIN item.links = DOMAIN items[rid].links
        /\ DOMAIN item.links \subseteq DOMAIN items
    BY <1>3, LoadedLinks
  <2>2. rid \notin DOMAIN items[rid].links
    BY <1>3 DEF Unbroken, Anchored
  <2> QED BY <2>1, <2>2
<1> HIDE DEF item
<1>10. Works(D, MovePlan(rid, new, item, redirect) \o Refresh, items, changed)
  BY <1>3, <1>4, <1>5, <1>8, <1>9, MovingBegins
<1> QED BY <1>3, <1>6, <1>10, GuiBegins

-------------------------------------------------------------------------------
(* The GUI alone: links resolve and revisions count                            *)

\* The directory the GUI starts with has no link that is broken or that save_item
\* would refuse, and its documents have not been revised.
GuiStarts == /\ Unbroken(InitialDocs, InitialItems)
             /\ \A p \in DOMAIN InitialDocs : InitialDocs[p].rev = 1

\* The GUI has read its documents.
GuiLoaded == IsDocuments(cache["gui"])

LEMMA GuiInit == GuiStarts /\ Init => GuiWorks /\ GuiLoaded
<1> SUFFICES ASSUME GuiStarts, Init PROVE GuiWorks /\ GuiLoaded
  OBVIOUS
<1>1. /\ docs = InitialDocs /\ items = InitialItems /\ call["gui"] = <<>>
      /\ call["mcp"] = <<>> /\ cache["gui"] = InitialDocs
      /\ changed = [p \in Prefix |-> 0]
  BY DEF Init, Services
<1>2. IsDocuments(InitialDocs)
  BY StoreAssumption
<1>3. Even(DOMAIN InitialDocs, InitialDocs, changed, {}, {})
  BY <1>1, <1>2 DEF Even, GuiStarts, IsDocuments
<1>4. Ahead(InitialDocs, InitialDocs, changed)
  BY <1>1 DEF Ahead
<1>5. Works(InitialDocs, <<>>, InitialItems, changed)
  BY <1>3, RestsIdle DEF GuiStarts
<1> QED BY <1>1, <1>2, <1>4, <1>5 DEF GuiWorks, GuiLoaded

\* The agent is idle, and stays so; no editor window is opened, no document moved.
LEMMA NoTool == GuiAlone /\ Tool => FALSE
<1> SUFFICES ASSUME GuiAlone, Tool PROVE FALSE
  OBVIOUS
<1>1. ASSUME ToolCreate PROVE FALSE
  BY <1>1 DEF ToolCreate, Begin, GuiAlone
<1>2. ASSUME ToolUpdateField PROVE FALSE
  BY <1>2 DEF ToolUpdateField, Begin, GuiAlone
<1>3. ASSUME ToolSetLinks PROVE FALSE
  BY <1>3 DEF ToolSetLinks, Begin, GuiAlone
<1>4. ASSUME ToolLink PROVE FALSE
  BY <1>4 DEF ToolLink, Begin, GuiAlone
<1>5. ASSUME DeleteRequirement("tool_delete", "mcp") PROVE FALSE
  BY <1>5 DEF DeleteRequirement, Begin, GuiAlone
<1>6. ASSUME ToolListDocument PROVE FALSE
  BY <1>6 DEF ToolListDocument, GuiAlone
<1> QED BY <1>1, <1>2, <1>3, <1>4, <1>5, <1>6 DEF Tool

LEMMA NoEditor ==
    ASSUME GuiAlone
    PROVE  /\ \A e \in Editors : ~ (OpenEditor(e) \/ NewRequirement(e) \/ SaveEditor(e))
           /\ ~ ReparentDocument
<1>1. ASSUME NEW e \in Editors, OpenEditor(e) \/ NewRequirement(e) \/ SaveEditor(e)
      PROVE  FALSE
  BY <1>1 DEF OpenEditor, NewRequirement, SaveEditor, Begin, GuiAlone
<1>2. ASSUME ReparentDocument PROVE FALSE
  BY <1>2 DEF ReparentDocument, Begin, GuiAlone
<1> QED BY <1>1, <1>2

LEMMA NoAgentEffect == GuiWorks /\ Effect("mcp") => FALSE
BY DEF GuiWorks, Effect, SaveItem, BumpDocument, DeleteFile, SweepDocument, SweepItem, SweepSave,
       UnlinkFile, SaveDocument, DropContents, RemoveDirectory, RefreshDocuments,
       EditorSaved, Doing

\* A call of the user begins over the documents the GUI has, or reads.
LEMMA UserLoads ==
    ASSUME Types, GuiWorks, GuiLoaded,
           \/ CloneRequirement \/ CopyRequirement \/ MoveRequirement
           \/ DeleteRequirement("delete", "gui") \/ CreateDocument \/ DeleteDocument
    PROVE  GuiLoaded'
<1> DEFINE D == EnsureDocuments("gui")
<1>1. \E op, plan : Begin(op, "gui", D, plan)
  <2>1. ASSUME CloneRequirement PROVE \E op, plan : Begin(op, "gui", D, plan)
    BY <2>1, ZenonT(60) DEF CloneRequirement
  <2>2. ASSUME CopyRequirement PROVE \E op, plan : Begin(op, "gui", D, plan)
    BY <2>2, ZenonT(60) DEF CopyRequirement
  <2>3. ASSUME MoveRequirement PROVE \E op, plan : Begin(op, "gui", D, plan)
    BY <2>3, ZenonT(60) DEF MoveRequirement
  <2>4. ASSUME DeleteRequirement("delete", "gui") PROVE \E op, plan : Begin(op, "gui", D, plan)
    BY <2>4, ZenonT(60) DEF DeleteRequirement
  <2>5. ASSUME CreateDocument PROVE \E op, plan : Begin(op, "gui", D, plan)
    BY <2>5, ZenonT(60) DEF CreateDocument
  <2>6. ASSUME DeleteDocument PROVE \E op, plan : Begin(op, "gui", D, plan)
    BY <2>6, ZenonT(60) DEF DeleteDocument
  <2> HIDE DEF D
  <2> QED BY <2>1, <2>2, <2>3, <2>4, <2>5, <2>6
<1> HIDE DEF D
<1>2. PICK op, plan : Begin(op, "gui", D, plan)
  BY <1>1
<1>3. call["gui"] = <<>> /\ cache'["gui"] = D
  BY <1>2 DEF Begin, Types, ServicesOK, Services
<1>4. IsDocuments(D)
  BY <1>3, GuiRests DEF GuiLoaded, D
<1> QED BY <1>3, <1>4 DEF GuiLoaded

LEMMA GuiUses == GuiAlone /\ Types /\ GuiWorks /\ GuiLoaded /\ User => (GuiWorks /\ GuiLoaded)'
<1> SUFFICES ASSUME GuiAlone, Types, GuiWorks, GuiLoaded, User PROVE (GuiWorks /\ GuiLoaded)'
  OBVIOUS
<1>1. \/ CloneRequirement \/ CopyRequirement \/ MoveRequirement
      \/ DeleteRequirement("delete", "gui") \/ CreateDocument \/ DeleteDocument
  BY NoEditor DEF User
<1>2. GuiWorks'
  BY <1>1, GuiClones, GuiCopies, GuiMoves, GuiDeletes, GuiCreatesDocument,
     GuiDeletesDocument DEF GuiLoaded
<1>3. GuiLoaded'
  BY <1>1, UserLoads
<1> QED BY <1>2, <1>3

\* The effects of a call leave the GUI its documents.
LEMMA EffectsLoad == Types /\ GuiWorks /\ Effect("gui") => GuiLoaded'
<1> SUFFICES ASSUME Types, GuiWorks, Effect("gui") PROVE GuiLoaded'
  OBVIOUS
<1> DEFINE D == cache["gui"]
           p == Current("gui").prefix
<1>1. call["gui"] # <<>>
  BY DEF Effect, SaveItem, BumpDocument, DeleteFile, SweepDocument, SweepItem, SweepSave,
         UnlinkFile, SaveDocument, DropContents, RemoveDirectory, RefreshDocuments,
         EditorSaved, Doing
<1>2. /\ IsDocuments(D) /\ IsDocuments(docs)
      /\ Current("gui").op = "bump" => p \in DOMAIN D
  BY <1>1, GuiHead
<1>3. "gui" \in DOMAIN cache
  BY DEF Types, ServicesOK, Services
<1>4. CASE BumpDocument("gui")
  <2> DEFINE d == [D[p] EXCEPT !.rev = @ + 1]
  <2>1. cache' = [cache EXCEPT !["gui"][p] = d] /\ p \in DOMAIN D
    BY <1>2, <1>4 DEF BumpDocument, Doing
  <2>2. d \in Document
    BY <1>2, <2>1 DEF IsDocuments, Document
  <2> HIDE DEF d
  <2>3. cache'["gui"] = [D EXCEPT ![p] = d]
    BY <1>3, <2>1
  <2> QED BY <1>2, <2>1, <2>2, <2>3 DEF IsDocuments, GuiLoaded
<1>5. CASE RemoveDirectory("gui")
  <2>1. cache'["gui"] = Without(D, p)
    BY <1>3, <1>5 DEF RemoveDirectory
  <2>2. /\ DOMAIN Without(D, p) = DOMAIN D \ {p}
        /\ \A x \in DOMAIN D \ {p} : Without(D, p)[x] = D[x]
    BY RestrictIs DEF Without
  <2> QED BY <1>2, <2>1, <2>2 DEF IsDocuments, GuiLoaded
<1>6. CASE RefreshDocuments("gui")
  BY <1>2, <1>3, <1>6 DEF RefreshDocuments, GuiLoaded
<1>7. CASE \/ SaveItem("gui") \/ DeleteFile("gui") \/ SweepDocument("gui")
           \/ SweepItem("gui") \/ SweepSave("gui") \/ UnlinkFile("gui") \/ SaveDocument("gui")
           \/ DropContents("gui") \/ EditorSaved("gui")
  <2>1. cache' = cache
    BY <1>7 DEF SaveItem, DeleteFile, SweepDocument, SweepItem, SweepSave, UnlinkFile, SaveDocument,
                DropContents, EditorSaved
  <2> QED BY <1>2, <2>1 DEF GuiLoaded
<1> QED BY <1>4, <1>5, <1>6, <1>7 DEF Effect

LEMMA GuiEffects ==
    Types /\ SweptOK /\ Undisturbed /\ GuiWorks /\ Effect("gui") => (GuiWorks /\ GuiLoaded)'
<1> SUFFICES ASSUME Types, SweptOK, Undisturbed, GuiWorks, Effect("gui")
             PROVE  (GuiWorks /\ GuiLoaded)'
  OBVIOUS
<1>1. ASSUME EditorSaved("gui") PROVE FALSE
  <2>1. call["gui"] # <<>> /\ Current("gui").op = "closeEditor"
    BY <1>1 DEF EditorSaved, Doing
  <2>2. /\ call["gui"] \in Seq(Effects) /\ call["gui"][1].op = "closeEditor"
        /\ Works(cache["gui"], call["gui"], items, changed)
    BY <2>1, GuiHead
  <2>3. call["gui"][1].op # "closeEditor"
    BY <2>1, <2>2, HeadTells
  <2> QED BY <2>2, <2>3
<1>2. GuiWorks'
  <2>1. CASE SweepItem("gui") \/ SweepSave("gui")
    BY <2>1, SweepsAtOnce, GuiSweepsItem DEF GuiWorks, Services
  <2> QED BY <1>1, <2>1, GuiSavesItem, GuiBumps, GuiDeletesFile, GuiSweepsDocument, GuiUnlinks,
     GuiSavesDocument, GuiDrops, GuiRemovesDirectory, GuiRefreshes DEF Effect
<1> QED BY <1>2, EffectsLoad

LEMMA GuiStep ==
    GuiAlone /\ Types /\ SweptOK /\ Undisturbed /\ GuiWorks /\ GuiLoaded /\ [Next]_vars =>
        (GuiWorks /\ GuiLoaded)'
<1> SUFFICES ASSUME GuiAlone, Types, SweptOK, Undisturbed, GuiWorks, GuiLoaded, [Next]_vars
             PROVE  (GuiWorks /\ GuiLoaded)'
  OBVIOUS
<1>1. CASE Tool
  BY <1>1, NoTool
<1>2. CASE User
  BY <1>2, GuiUses
<1>3. ASSUME NEW s \in Services, Effect(s) PROVE (GuiWorks /\ GuiLoaded)'
  BY <1>3, GuiEffects, NoAgentEffect DEF Services
<1>4. CASE UNCHANGED vars
  BY <1>4 DEF vars, GuiWorks, GuiLoaded
<1> QED BY <1>1, <1>2, <1>3, <1>4 DEF Next

LEMMA GuiHolds == GuiWorks => LinksResolve /\ (Types => DocRevisionCounts)
<1> SUFFICES ASSUME GuiWorks, Idle PROVE
        /\ \A r \in DOMAIN items : \A t \in DOMAIN items[r].links : t \in DOMAIN items
        /\ Types => \A p \in DOMAIN docs : docs[p].rev = 1 + changed[p]
  BY DEF LinksResolve, DocRevisionCounts
<1> DEFINE D == cache["gui"]
<1>1. call["gui"] = <<>>
  BY DEF Idle, Services
<1>2. Ahead(D, docs, changed) /\ Works(D, <<>>, items, changed)
  BY <1>1 DEF GuiWorks
<1> HIDE DEF D
<1>3. Unbroken(D, items) /\ Even(DOMAIN D, D, changed, {}, {})
  BY <1>2, IdleRests
<1>4. ASSUME Types, NEW p \in DOMAIN docs PROVE docs[p].rev = 1 + changed[p]
  <2>1. p \in Prefix /\ docs[p].rev \in Nat /\ changed[p] \in Nat
    BY <1>4 DEF Types, FilesOK, CountersOK, IsDocuments, Document
  <2>2. CASE p \in DOMAIN D
    <3>1. docs[p] = D[p] /\ D[p].rev + 0 = 1 + changed[p] + 0
      BY <1>2, <1>3, <2>2 DEF Ahead, Even
    <3> QED BY <2>1, <3>1
  <2>3. CASE p \notin DOMAIN D
    BY <1>2, <2>1, <2>3 DEF Ahead
  <2> QED BY <2>2, <2>3
<1> QED BY <1>3, <1>4 DEF Unbroken, Anchored

LEMMA GuiUndisturbed == ASSUME GuiAlone PROVE Spec => []Undisturbed
BY AlwaysUndisturbed DEF GuiAlone, OneHand, Touches, Removes, Creating, Services

\* In a store that only the user changes, by cloning, copying, moving and deleting
\* requirements and by creating and deleting documents, no link is left without its
\* target once the call has ended: the sweep of delete_item and the redirection of
\* move_requirement reach all that link to what is gone, whatever was done before.
THEOREM LinksAlwaysResolve ==
    ASSUME GuiAlone, GuiStarts
    PROVE  Spec => []LinksResolve
<1>1. Init => GuiWorks /\ GuiLoaded
  BY GuiInit
<1>2. Types /\ SweptOK /\ Undisturbed /\ GuiWorks /\ GuiLoaded /\ [Next]_vars =>
         (GuiWorks /\ GuiLoaded)'
  BY GuiStep
<1>3. GuiWorks => LinksResolve
  BY GuiHolds
<1> QED BY <1>1, <1>2, <1>3, AlwaysTypes, GuiUndisturbed, PTL DEF Spec

\* In such a store each document's revision has, once the call has ended, counted
\* every change of its requirements, and nothing else: no bump is lost between the
\* file it is for and the next read of the documents, and none is made twice.
THEOREM RevisionsCount ==
    ASSUME GuiAlone, GuiStarts
    PROVE  Spec => []DocRevisionCounts
<1>1. Init => GuiWorks /\ GuiLoaded
  BY GuiInit
<1>2. Types /\ SweptOK /\ Undisturbed /\ GuiWorks /\ GuiLoaded /\ [Next]_vars =>
         (GuiWorks /\ GuiLoaded)'
  BY GuiStep
<1>3. Types /\ GuiWorks => DocRevisionCounts
  BY GuiHolds
<1> QED BY <1>1, <1>2, <1>3, AlwaysTypes, GuiUndisturbed, PTL DEF Spec

===============================================================================
