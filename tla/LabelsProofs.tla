---------------------------- MODULE LabelsProofs ----------------------------
(***************************************************************************)
(* Theorems about Labels.                                                  *)
(***************************************************************************)
EXTENDS Labels, FiniteSetTheorems, WellFoundedInduction, TLAPS

-----------------------------------------------------------------------------
(* Numbers and iteration.                                                  *)

\* Every non-empty set of numbers has a smallest element.
LEMMA Minimum ==
    ASSUME NEW S \in SUBSET Nat, S # {}
    PROVE  \E n \in S : \A m \in S : n <= m
<1> DEFINE Less == OpToRel(<, Nat)
<1>1. IsWellFoundedOn(Less, Nat)
  BY NatLessThanWellFounded
<1>2. \A x, y \in Nat : x < y => <<x, y>> \in Less
  BY DEF OpToRel
<1> HIDE DEF Less
<1>3. PICK n \in S : \A m \in S : ~ (<<m, n>> \in Less)
  BY <1>1, WFMin
<1>4. \A m \in S : ~ (m < n)
  BY <1>2, <1>3
<1> QED BY <1>4

\* What holds of 0 and of the successor of each number it holds of, up to n.
LEMMA CountedUp ==
    ASSUME NEW n \in Nat, NEW S, 0 \in S, \A i \in 0 .. n : i \in S /\ i < n => i + 1 \in S
    PROVE  0 .. n \subseteq S
<1> SUFFICES ASSUME NEW k \in 0 .. n, k \notin S PROVE FALSE
  OBVIOUS
<1> DEFINE B == {i \in 0 .. n : i \notin S}
<1>1. B \in SUBSET Nat /\ B # {}
  OBVIOUS
<1>2. PICK m \in B : \A i \in B : m <= i
  <2> HIDE DEF B
  <2> QED BY <1>1, Minimum
<1>3. m # 0 /\ m \in 0 .. n
  OBVIOUS
<1>4. m - 1 \in 0 .. n /\ m - 1 \notin B
  BY <1>2, <1>3
<1>5. m \in S
  BY <1>3, <1>4
<1> QED BY <1>5

\* The steps of an iteration can be taken: each from what the one before returned.
Iteration(v, base, n, step) ==
    v[0] = base /\ \A i \in 1 .. n : v[i] = step[i][v[i - 1]]

LEMMA Iterates ==
    ASSUME NEW S, NEW base \in S, NEW n \in Nat, NEW step \in [1 .. n -> [S -> S]]
    PROVE  \E v \in [0 .. n -> S] : Iteration(v, base, n, step)
<1> DEFINE T == {m \in 0 .. n : \E v \in [0 .. m -> S] : Iteration(v, base, m, step)}
<1>1. 0 \in T
  <2> DEFINE v == [i \in 0 .. 0 |-> base]
  <2>1. v \in [0 .. 0 -> S] /\ Iteration(v, base, 0, step)
    BY DEF Iteration
  <2> QED BY <2>1
<1>2. ASSUME NEW m \in 0 .. n, m \in T, m < n PROVE m + 1 \in T
  <2>1. PICK v \in [0 .. m -> S] : Iteration(v, base, m, step)
    BY <1>2
  <2> DEFINE w == [i \in 0 .. (m + 1) |-> IF i = m + 1 THEN step[m + 1][v[m]] ELSE v[i]]
  <2>2. v[m] \in S /\ step[m + 1] \in [S -> S]
    BY <1>2
  <2>3. step[m + 1][v[m]] \in S
    BY <2>2
  <2>4. w \in [0 .. (m + 1) -> S]
    BY <2>3
  <2>5. w[0] = base
    BY <2>1 DEF Iteration
  <2>6. ASSUME NEW i \in 1 .. (m + 1) PROVE w[i] = step[i][w[i - 1]]
    <3>1. CASE i = m + 1
      BY <3>1
    <3>2. CASE i # m + 1
      <4>1. i \in 1 .. m /\ i - 1 \in 0 .. m /\ i - 1 # m + 1
        BY <3>2
      <4>2. v[i] = step[i][v[i - 1]]
        BY <2>1, <4>1 DEF Iteration
      <4> QED BY <3>2, <4>1, <4>2
    <3> QED BY <3>1, <3>2
  <2> HIDE DEF w
  <2>7. Iteration(w, base, m + 1, step)
    BY <2>5, <2>6 DEF Iteration
  <2>8. m + 1 \in 0 .. n
    BY <1>2
  <2> QED BY <2>4, <2>7, <2>8
<1> HIDE DEF T
<1>3. 0 .. n \subseteq T
  BY <1>1, <1>2, CountedUp
<1> QED BY <1>3 DEF T

-----------------------------------------------------------------------------
(* Types.                                                                  *)

Definitions == [Doc -> SUBSET Key]
LabelSets == [Item -> SUBSET Key]
Maps == UNION {[S -> Key] : S \in SUBSET Key}
Answers == UNION {[S -> [to : Key, yes : BOOLEAN]] : S \in SUBSET Key}
Removals == UNION {[S -> BOOLEAN] : S \in SUBSET Key}
LabelToolResults == [tool : {"label"}, doc : Doc, map : Maps, gone : SUBSET Key]
SetToolResults == [tool : {"set"}, item : Item, labels : SUBSET Key]
ToolResults == LabelToolResults \cup SetToolResults
Results == Seq(ToolResults)
Editors ==
    {e \in [item : Item \cup {0}, labels : SUBSET Key, saved : SUBSET Key, touched : BOOLEAN] :
       e.item = 0 => e.labels = {} /\ e.saved = {}}
Wishes == [Key -> SUBSET Key]
Dialogs ==
    [doc : Doc \cup {NoDoc}, original : SUBSET Key, loaded : SUBSET Key,
     rows : UNION {[S -> Key \cup {NoKey}] : S \in SUBSET Key}, lookup : Maps,
     changes : Answers, removed : Removals, wish : Wishes, declined : SUBSET (Key \cup {NoKey})]

FilesOK == defs \in Definitions /\ labels \in LabelSets /\ cache \in [Service -> Definitions]
ScreenOK == current \in Doc /\ shown \in LabelSets /\ offered \subseteq Key /\ editor \in Editors
Types == FilesOK /\ ScreenOK /\ dialog \in Dialogs /\ results \in Results

LEMMA GivenType == Given \subseteq SUBSET Key
BY LabelsAssumption

LEMMA ReplaceType ==
    ASSUME NEW set \in SUBSET Key, NEW map \in Maps, NEW gone
    PROVE  Replace(set, map, gone) \in SUBSET Key
BY DEF Replace, Maps

LEMMA IsMap ==
    ASSUME NEW S \in SUBSET Key, NEW f \in [S -> Key]
    PROVE  f \in Maps
BY DEF Maps

\* Labels S after the document d has followed the result r.
Applied(S, r, d) ==
    IF ~About(r, d) THEN S
    ELSE IF r.tool = "set" THEN [S EXCEPT ![r.item] = r.labels]
    ELSE [i \in Item |-> Replace(S[i], r.map, r.gone)]

LEMMA ResultIs ==
    ASSUME NEW r \in ToolResults
    PROVE  /\ r.tool = "set" => r \in SetToolResults
           /\ r.tool # "set" => r \in LabelToolResults /\ r.tool = "label"
BY DEF ToolResults, LabelToolResults, SetToolResults

LEMMA AppliedType ==
    ASSUME NEW S \in LabelSets, NEW r \in ToolResults, NEW d
    PROVE  Applied(S, r, d) \in LabelSets
<1>1. r.tool = "set" => r.labels \in SUBSET Key
  BY ResultIs DEF SetToolResults
<1>2. r.tool # "set" => r.map \in Maps
  BY ResultIs DEF LabelToolResults
<1>3. \A i \in Item : S[i] \in SUBSET Key
  BY DEF LabelSets
<1>4. r.tool # "set" => \A i \in Item : Replace(S[i], r.map, r.gone) \in SUBSET Key
  BY <1>2, <1>3, ReplaceType
<1>5. r.tool = "set" => [S EXCEPT ![r.item] = r.labels] \in LabelSets
  BY <1>1, <1>3 DEF LabelSets
<1>6. r.tool # "set" => [i \in Item |-> Replace(S[i], r.map, r.gone)] \in LabelSets
  BY <1>4 DEF LabelSets
<1> QED BY <1>5, <1>6 DEF Applied

-----------------------------------------------------------------------------
(* Every step keeps the types.                                             *)

LEMMA PromotedType ==
    ASSUME NEW definitions \in Definitions, NEW d, NEW observed \in SUBSET Key
    PROVE  Promoted(definitions, d, observed) \in Definitions
<1> DEFINE missing == observed \ Allowed(definitions, d)
           e == Nearest(d)
<1>1. missing \in SUBSET Key
  OBVIOUS
<1>2. Promoted(definitions, d, observed) =
        IF missing = {} \/ ~AnyKey(d) THEN definitions
        ELSE [definitions EXCEPT ![e] = definitions[e] \cup missing]
  BY DEF Promoted
<1> HIDE DEF missing, e
<1>3. [definitions EXCEPT ![e] = definitions[e] \cup missing] \in Definitions
  BY <1>1 DEF Definitions
<1> QED BY <1>2, <1>3

LEMMA PromoteType ==
    ASSUME FilesOK, NEW s \in Service, NEW d, NEW observed \in SUBSET Key,
           Promote(s, d, observed)
    PROVE  defs' \in Definitions /\ cache' \in [Service -> Definitions]
<1> DEFINE written == Promoted(cache[s], d, observed)
<1>1. defs \in Definitions /\ cache \in [Service -> Definitions] /\ cache[s] \in Definitions
  BY DEF FilesOK
<1>2. written \in Definitions
  BY <1>1, PromotedType
<1>3. \/ UNCHANGED <<defs, cache>>
      \/ /\ defs' = [e \in Doc |-> IF written[e] = cache[s][e] THEN defs[e] ELSE written[e]]
         /\ cache' = [cache EXCEPT ![s] = defs']
  BY DEF Promote
<1> HIDE DEF written
<1>4. defs' \in Definitions
  BY <1>1, <1>2, <1>3 DEF Definitions
<1>5. cache' \in [Service -> Definitions]
  BY <1>1, <1>3, <1>4
<1> QED BY <1>4, <1>5

LEMMA SyncType ==
    ASSUME FilesOK, NEW s \in Service, NEW d, Sync(s, d)
    PROVE  defs' \in Definitions /\ cache' \in [Service -> Definitions]
<1>1. UNION {labels[i] : i \in ItemsOf({d})} \in SUBSET Key
  BY DEF FilesOK, LabelSets, ItemsOf
<1> QED BY <1>1, PromoteType DEF Sync

LEMMA MapTypes ==
    ASSUME NEW changes \in Answers, NEW original, NEW keys
    PROVE  Propagated(changes) \in Maps /\ RenameMap(original, keys, changes) \in Maps
<1> DEFINE D == {l \in DOMAIN changes : changes[l].yes /\ changes[l].to # l}
           map == Propagated(changes)
<1>1. DOMAIN changes \in SUBSET Key /\ \A l \in DOMAIN changes : changes[l].to \in Key
  BY DEF Answers
<1>2. D \in SUBSET Key /\ \A l \in D : changes[l].to \in Key
  BY <1>1
<1>3. map = [k \in D |-> changes[k].to]
  BY DEF Propagated
<1> HIDE DEF D, map
<1>4. DOMAIN map \in SUBSET Key /\ \A k \in DOMAIN map : map[k] \in Key
  BY <1>2, <1>3
<1>5. map \in Maps
  BY <1>2, <1>3, IsMap
<1>6. RenameMap(original, keys, changes) = [k \in DOMAIN map \cap original |-> map[k]]
  BY DEF RenameMap, map
<1>7. [k \in DOMAIN map \cap original |-> map[k]] \in [DOMAIN map \cap original -> Key]
  BY <1>4
<1>8. RenameMap(original, keys, changes) \in Maps
  BY <1>4, <1>6, <1>7, IsMap
<1> QED BY <1>5, <1>8 DEF map

LEMMA RewrittenType ==
    ASSUME labels \in LabelSets, NEW d, NEW definitions, NEW map \in Maps, NEW gone,
           NEW r \in Rewritten(d, definitions, map, gone)
    PROVE  r.labels \in LabelSets
<1> DEFINE new == [i \in Item |-> IF DocOf[i] \in Subtree(d) THEN Replace(labels[i], map, gone)
                                 ELSE labels[i]]
<1>1. \A i \in Item : labels[i] \in SUBSET Key
  BY DEF LabelSets
<1>2. \A i \in Item : Replace(labels[i], map, gone) \in SUBSET Key
  BY <1>1, ReplaceType
<1>3. new \in LabelSets
  BY <1>1, <1>2 DEF LabelSets
<1>4. \A S : [i \in Item |-> IF i \in S THEN new[i] ELSE labels[i]] \in LabelSets
  <2> HIDE DEF new
  <2> QED BY <1>1, <1>3 DEF LabelSets
<1>5. r.labels = new \/ \E S : r.labels = [i \in Item |-> IF i \in S THEN new[i] ELSE labels[i]]
  <2> DEFINE changed == {i \in ItemsOf(Subtree(d)) : labels[i] \cap (DOMAIN map \cup gone) # {}}
             bad == {i \in changed : ~Valid(definitions, DocOf[i], new[i])}
             Until(f, D) == {i \in changed : DocOf[i] \in D \/ (DocOf[i] = DocOf[f] /\ i < f)}
             W == {v \in bad \X SUBSET Doc : DocOf[v[1]] \notin v[2]
                                             /\ Until(v[1], v[2]) \cap bad = {}}
  <2>1. Rewritten(d, definitions, map, gone) =
          IF bad = {} THEN {[ok |-> TRUE, labels |-> new]}
          ELSE {[ok |-> FALSE, labels |-> [i \in Item |-> IF i \in Until(w[1], w[2]) THEN new[i]
                                                          ELSE labels[i]]] : w \in W}
    BY DEF Rewritten
  <2> HIDE DEF new, bad, Until, W
  <2> QED BY <2>1
<1> HIDE DEF new
<1> QED BY <1>3, <1>4, <1>5

LEMMA UpdateLabelsType ==
    ASSUME FilesOK, NEW s \in Service, NEW d, NEW original, NEW keys \in SUBSET Key,
           NEW changes \in Answers, NEW removed, NEW wish, NEW declined,
           UpdateLabels(s, d, original, keys, changes, removed, wish, declined)
    PROVE  FilesOK'
<1> DEFINE map == RenameMap(original, keys, changes)
           gone == RemovalTargets(original, keys, removed)
           definitions == Redefined(d, keys, Propagated(changes))
<1>1. map \in Maps /\ Propagated(changes) \in Maps
  BY MapTypes
<1>2. \A e \in Doc : Replace(defs[e], Propagated(changes), {}) \in SUBSET Key
  BY <1>1, ReplaceType DEF FilesOK, Definitions
<1>3. definitions \in Definitions
  BY <1>2 DEF Redefined, FilesOK, Definitions
<1>4. PICK r \in Rewritten(d, definitions, map, gone) :
         defs' = definitions /\ labels' = r.labels /\ cache' = [cache EXCEPT ![s] = definitions]
  BY DEF UpdateLabels
<1> HIDE DEF map, gone, definitions
<1>5. labels' \in LabelSets
  BY <1>1, <1>4, RewrittenType DEF FilesOK
<1>6. cache' \in [Service -> Definitions]
  BY <1>3, <1>4 DEF FilesOK
<1> QED BY <1>3, <1>4, <1>5, <1>6 DEF FilesOK

LEMMA OpenedType ==
    ASSUME NEW d \in Doc \cup {NoDoc}, NEW original \in SUBSET Key, NEW keys \in SUBSET Key
    PROVE  Opened(d, original, keys) \in Dialogs
<1> DEFINE D == Opened(d, original, keys)
<1>1. D.doc \in Doc \cup {NoDoc} /\ D.original \in SUBSET Key /\ D.loaded \in SUBSET Key
      /\ D.declined \in SUBSET (Key \cup {NoKey})
  BY DEF Opened
<1>2. [k \in keys |-> k] \in [keys -> Key \cup {NoKey}] /\ [k \in keys |-> k] \in [keys -> Key]
  OBVIOUS
<1>3. <<>> \in [{} -> [to : Key, yes : BOOLEAN]] /\ <<>> \in [{} -> BOOLEAN]
  OBVIOUS
<1>4. Keep \in Wishes
  BY DEF Keep, Wishes
<1>5. /\ [k \in keys |-> k] \in UNION {[S -> Key \cup {NoKey}] : S \in SUBSET Key}
      /\ [k \in keys |-> k] \in Maps
  BY <1>2 DEF Maps
<1>6. <<>> \in Answers /\ <<>> \in Removals
  BY <1>3 DEF Answers, Removals
<1> QED BY <1>1, <1>4, <1>5, <1>6 DEF Opened, Dialogs

LEMMA InitTypes == Init => Types
<1> SUFFICES ASSUME Init PROVE Types
  OBVIOUS
<1>1. FilesOK
  BY LabelsAssumption DEF Init, FilesOK, Definitions, LabelSets
<1>2. ScreenOK
  <2>1. current \in Doc /\ shown \in LabelSets
    BY LabelsAssumption DEF Init, LabelSets
  <2>2. offered \subseteq Key
    BY LabelsAssumption DEF Init
  <2>3. editor \in Editors
    BY DEF Init, NoEditor, Editors
  <2> QED BY <2>1, <2>2, <2>3 DEF ScreenOK
<1>3. dialog \in Dialogs
  BY OpenedType DEF Init, NoDialog
<1>4. results \in Results
  BY DEF Init, Results
<1> QED BY <1>1, <1>2, <1>3, <1>4 DEF Types

\* Functions with some keys as their domain.
Partial(T) == UNION {[S -> T] : S \in SUBSET Key}
Answer == [to : Key, yes : BOOLEAN]
Rows == Partial(Key \cup {NoKey})

LEMMA IsPartial ==
    ASSUME NEW T, NEW S \in SUBSET Key, NEW f \in [S -> T]
    PROVE  f \in Partial(T)
BY DEF Partial

LEMMA PartialIs ==
    ASSUME NEW T, NEW f \in Partial(T)
    PROVE  /\ DOMAIN f \in SUBSET Key /\ \A k \in DOMAIN f : f[k] \in T
           /\ f = [k \in DOMAIN f |-> f[k]]
BY DEF Partial

LEMMA PartialWith ==
    ASSUME NEW T, NEW f \in Partial(T), NEW k \in Key, NEW v \in T
    PROVE  With(f, k, v) \in Partial(T)
<1>1. DOMAIN f \cup {k} \in SUBSET Key /\ \A l \in DOMAIN f : f[l] \in T
  BY PartialIs
<1>2. With(f, k, v) \in [DOMAIN f \cup {k} -> T]
  BY <1>1 DEF With
<1> QED BY <1>1, <1>2, IsPartial

LEMMA PartialOn ==
    ASSUME NEW T, NEW f \in Partial(T), NEW S, S \subseteq DOMAIN f
    PROVE  [l \in S |-> f[l]] \in Partial(T)
<1>1. S \in SUBSET Key /\ \A l \in S : f[l] \in T
  BY PartialIs
<1>2. [l \in S |-> f[l]] \in [S -> T]
  BY <1>1
<1> QED BY <1>1, <1>2, IsPartial

LEMMA PartialWithout ==
    ASSUME NEW T, NEW f \in Partial(T), NEW k
    PROVE  Without(f, k) \in Partial(T)
<1>1. Without(f, k) = [l \in DOMAIN f \ {k} |-> f[l]] /\ DOMAIN f \ {k} \subseteq DOMAIN f
  BY DEF Without
<1> QED BY <1>1, PartialOn

LEMMA DialogSet ==
    Dialogs = [doc : Doc \cup {NoDoc}, original : SUBSET Key, loaded : SUBSET Key, rows : Rows,
               lookup : Partial(Key), changes : Partial(Answer), removed : Partial(BOOLEAN),
               wish : Wishes, declined : SUBSET (Key \cup {NoKey})]
BY DEF Dialogs, Rows, Partial, Answer, Maps, Answers, Removals

LEMMA DialogIs ==
    ASSUME NEW D \in Dialogs
    PROVE  /\ D.doc \in Doc \cup {NoDoc} /\ D.original \in SUBSET Key /\ D.loaded \in SUBSET Key
           /\ D.rows \in Rows /\ D.lookup \in Partial(Key)
           /\ D.changes \in Partial(Answer) /\ D.removed \in Partial(BOOLEAN)
           /\ D.wish \in Wishes /\ D.declined \in SUBSET (Key \cup {NoKey})
BY DialogSet

\* A step of the dialog that keeps its document.
LEMMA EditedTypes ==
    ASSUME Types, NEW D, Edited(D), D \in Dialogs
    PROVE  Types'
BY DEF Types, FilesOK, ScreenOK, Edited, files, screen

LEMMA AddLabelTypes ==
    ASSUME Types, NEW k \in Key, AddLabel(k)
    PROVE  Types'
<1> DEFINE rows == With(dialog.rows, k, NoKey)
           lookup == IF k \in DOMAIN dialog.lookup THEN dialog.lookup
                     ELSE With(dialog.lookup, k, k)
           D == [dialog EXCEPT !.rows = rows, !.lookup = lookup]
<1>1. dialog \in Dialogs
  BY DEF Types
<1>2. dialog.rows \in Rows /\ dialog.lookup \in Partial(Key)
  BY <1>1, DialogIs
<1>3. rows \in Rows
  BY <1>2, PartialWith DEF Rows
<1>4. lookup \in Partial(Key)
  BY <1>2, PartialWith
<1>5. Edited(D)
  BY DEF AddLabel
<1> HIDE DEF rows, lookup
<1>6. D \in Dialogs
  BY <1>1, <1>3, <1>4, DialogSet
<1> QED BY <1>5, <1>6, EditedTypes

LEMMA OriginalType ==
    ASSUME Types, NEW k \in DOMAIN dialog.rows
    PROVE  k \in Key /\ Original(k) \in Key /\ dialog.rows[k] \in Key \cup {NoKey}
<1>1. dialog.rows \in Partial(Key \cup {NoKey}) /\ dialog.lookup \in Partial(Key)
  BY DialogIs DEF Types, Rows
<1>2. k \in Key /\ dialog.rows[k] \in Key \cup {NoKey}
  BY <1>1, PartialIs
<1>3. \A l \in DOMAIN dialog.lookup : dialog.lookup[l] \in Key
  BY <1>1, PartialIs
<1> QED BY <1>2, <1>3 DEF Original

LEMMA RenameLabelTypes ==
    ASSUME Types, NEW k \in Key, NEW new \in Key, NEW yes \in BOOLEAN,
           RenameLabel(k, new, yes)
    PROVE  Types'
<1> DEFINE o == Original(k)
           was == dialog.rows[k]
           rows == With(Without(dialog.rows, k), new, was)
           lookup == With(Without(dialog.lookup, k), new, o)
           removed == Without(dialog.removed, o)
           changes == IF new = o THEN Without(dialog.changes, o)
                      ELSE With(dialog.changes, o, [to |-> new, yes |-> yes])
           wish == IF was = NoKey THEN dialog.wish
                   ELSE [dialog.wish EXCEPT ![was] = IF yes THEN {new} ELSE {was}]
           declined == IF yes \/ new = was THEN dialog.declined \ {was}
                       ELSE dialog.declined \cup {was}
           D == [dialog EXCEPT !.rows = rows, !.lookup = lookup, !.removed = removed,
                               !.changes = changes, !.wish = wish, !.declined = declined]
<1>1. dialog \in Dialogs
  BY DEF Types
<1>2. o \in Key /\ was \in Key \cup {NoKey}
  BY OriginalType DEF RenameLabel
<1>3. rows \in Rows
  BY <1>1, <1>2, DialogIs, PartialWith, PartialWithout DEF Rows
<1>4. lookup \in Partial(Key)
  BY <1>1, <1>2, DialogIs, PartialWith, PartialWithout
<1>5. removed \in Partial(BOOLEAN)
  BY <1>1, DialogIs, PartialWithout
<1>6. changes \in Partial(Answer)
  <2>1. [to |-> new, yes |-> yes] \in Answer /\ dialog.changes \in Partial(Answer)
    BY <1>1, DialogIs DEF Answer
  <2> QED BY <1>2, <2>1, PartialWith, PartialWithout
<1>7. wish \in Wishes
  BY <1>1, <1>2, DialogIs DEF Wishes
<1>8. declined \in SUBSET (Key \cup {NoKey})
  BY <1>1, <1>2, DialogIs
<1>9. Edited(D)
  BY DEF RenameLabel
<1> HIDE DEF rows, lookup, removed, changes, wish, declined
<1>10. D \in Dialogs
  BY <1>1, <1>3, <1>4, <1>5, <1>6, <1>7, <1>8, DialogSet
<1> QED BY <1>9, <1>10, EditedTypes

LEMMA RetitleLabelTypes ==
    ASSUME Types, NEW k \in Key, RetitleLabel(k)
    PROVE  Types'
<1> DEFINE changes == Without(dialog.changes, Original(k))
           D == [dialog EXCEPT !.changes = changes]
<1>1. dialog \in Dialogs
  BY DEF Types
<1>2. changes \in Partial(Answer)
  BY <1>1, DialogIs, PartialWithout
<1>3. Edited(D)
  BY DEF RetitleLabel
<1> HIDE DEF changes
<1>4. D \in Dialogs
  BY <1>1, <1>2, DialogSet
<1> QED BY <1>3, <1>4, EditedTypes

LEMMA DeleteLabelsTypes ==
    ASSUME Types, NEW K \in SUBSET Key, NEW yes \in BOOLEAN, DeleteLabels(K, yes)
    PROVE  Types'
<1> DEFINE O == {Original(k) : k \in K}
           W == {dialog.rows[k] : k \in K} \ {NoKey}
           rows == [k \in DOMAIN dialog.rows \ K |-> dialog.rows[k]]
           lookup == [k \in DOMAIN dialog.lookup \ K |-> dialog.lookup[k]]
           removed == [o \in DOMAIN dialog.removed \cup O |->
                         IF o \in O THEN yes ELSE dialog.removed[o]]
           changes == [o \in DOMAIN dialog.changes \ O |-> dialog.changes[o]]
           wish == [k \in Key |-> IF k \in W THEN IF yes THEN {} ELSE {k} ELSE dialog.wish[k]]
           declined == IF yes THEN dialog.declined \ W ELSE dialog.declined \cup W
           D == [dialog EXCEPT !.rows = rows, !.lookup = lookup, !.removed = removed,
                               !.changes = changes, !.wish = wish, !.declined = declined]
<1>1. dialog \in Dialogs
  BY DEF Types
<1>2. \A k \in K : Original(k) \in Key /\ dialog.rows[k] \in Key \cup {NoKey}
  BY OriginalType DEF DeleteLabels
<1>3. O \in SUBSET Key /\ W \in SUBSET Key
  BY <1>2
<1>4. Edited(D)
  BY DEF DeleteLabels
<1> HIDE DEF O, W
<1>5. rows \in Rows
  BY <1>1, DialogIs, PartialOn DEF Rows
<1>6. lookup \in Partial(Key)
  BY <1>1, DialogIs, PartialOn
<1>7. removed \in Partial(BOOLEAN)
  <2>1. dialog.removed \in Partial(BOOLEAN)
    BY <1>1, DialogIs
  <2>2. DOMAIN dialog.removed \in SUBSET Key
        /\ \A o \in DOMAIN dialog.removed : dialog.removed[o] \in BOOLEAN
    BY <2>1, PartialIs
  <2>3. removed \in [DOMAIN dialog.removed \cup O -> BOOLEAN]
    BY <2>2
  <2>4. DOMAIN dialog.removed \cup O \in SUBSET Key
    BY <1>3, <2>2
  <2> HIDE DEF removed
  <2> QED BY <2>3, <2>4, IsPartial
<1>8. changes \in Partial(Answer)
  BY <1>1, DialogIs, PartialOn
<1>9. wish \in Wishes
  BY <1>1, DialogIs DEF Wishes
<1>10. declined \in SUBSET (Key \cup {NoKey})
  BY <1>1, <1>3, DialogIs
<1> HIDE DEF rows, lookup, removed, changes, wish, declined
<1>11. D \in Dialogs
  BY <1>1, <1>5, <1>6, <1>7, <1>8, <1>9, <1>10, DialogSet
<1> QED BY <1>4, <1>11, EditedTypes

LEMMA ListedType ==
    ASSUME NEW e \in Editors, NEW keys
    PROVE  Listed(e, keys) \in Editors
<1>1. e.labels \in SUBSET Key
  BY DEF Editors
<1> DEFINE set == IF current \in Freeform THEN e.labels ELSE e.labels \cap keys
<1>2. set \in SUBSET Key /\ set \subseteq e.labels /\ Listed(e, keys) = [e EXCEPT !.labels = set]
  BY <1>1 DEF Listed
<1> HIDE DEF set
<1> DEFINE E == [item : Item \cup {0}, labels : SUBSET Key, saved : SUBSET Key, touched : BOOLEAN]
<1>3. e \in E /\ (e.item = 0 => e.labels = {} /\ e.saved = {})
  BY DEF Editors
<1>4. [e EXCEPT !.labels = set] \in E
  BY <1>2, <1>3
<1>5. e.item = 0 => set = {}
  BY <1>2, <1>3
<1>6. [e EXCEPT !.labels = set].item = e.item /\ [e EXCEPT !.labels = set].labels = set
      /\ [e EXCEPT !.labels = set].saved = e.saved
  BY <1>3
<1> QED BY <1>2, <1>3, <1>4, <1>5, <1>6 DEF Editors

LEMMA LoadedType ==
    ASSUME NEW i \in Item, NEW set \in SUBSET Key
    PROVE  Loaded(i, set) \in Editors
<1>1. Loaded(i, set) \in
        [item : Item \cup {0}, labels : SUBSET Key, saved : SUBSET Key, touched : BOOLEAN]
  BY DEF Loaded
<1>2. Loaded(i, set).item # 0
  BY LabelsAssumption DEF Loaded, Item
<1> QED BY <1>1, <1>2 DEF Editors

LEMMA SelectDocumentTypes ==
    ASSUME Types, NEW d \in Doc, SelectDocument(d)
    PROVE  Types'
<1>1. FilesOK' /\ (dialog \in Dialogs)' /\ (results \in Results)'
  BY DEF Types, FilesOK, SelectDocument, files
<1>2. shown' \in LabelSets
  BY DEF SelectDocument, Types, FilesOK, LabelSets
<1>3. offered' \subseteq Key
  BY DEF SelectDocument, Types, FilesOK, Definitions, Service
<1>4. editor' \in Editors /\ current' \in Doc
  BY DEF SelectDocument, NoEditor, Editors
<1> QED BY <1>1, <1>2, <1>3, <1>4 DEF Types, ScreenOK

LEMMA SwitchDocumentTypes ==
    ASSUME Types, NEW d \in Doc, SwitchDocument(d)
    PROVE  Types'
<1>1. FilesOK /\ "gui" \in Service
  BY DEF Types, Service
<1>2. defs' \in Definitions /\ cache' \in [Service -> Definitions] /\ labels' = labels
  BY <1>1, SyncType DEF SwitchDocument
<1>3. FilesOK'
  BY <1>1, <1>2 DEF FilesOK
<1>4. cache'["gui"][d] \in SUBSET Key /\ dialog.original \in SUBSET Key
  BY <1>1, <1>2, DialogIs DEF Definitions, Types
<1>5. dialog' \in Dialogs
  BY <1>4, OpenedType DEF SwitchDocument
<1>6. ScreenOK' /\ (results \in Results)'
  BY DEF Types, ScreenOK, SwitchDocument, screen
<1> QED BY <1>3, <1>5, <1>6 DEF Types

LEMMA SelectRequirementTypes ==
    ASSUME Types, NEW i \in Item, SelectRequirement(i)
    PROVE  Types'
<1>1. editor' \in Editors
  BY LoadedType DEF SelectRequirement, Types, ScreenOK, LabelSets
<1> QED BY <1>1 DEF Types, FilesOK, ScreenOK, SelectRequirement, files

LEMMA PickLabelTypes ==
    ASSUME Types, NEW k \in Key, PickLabel(k)
    PROVE  Types'
<1> DEFINE picked == IF k \in editor.labels THEN editor.labels \ {k} ELSE editor.labels \cup {k}
           set == IF current \in Freeform THEN picked ELSE picked \cap offered
<1>1. editor.labels \in SUBSET Key /\ editor \in Editors
  BY DEF Types, ScreenOK, Editors
<1>2. set \in SUBSET Key /\ editor' = [editor EXCEPT !.labels = set, !.touched = TRUE]
  BY <1>1 DEF PickLabel
<1> HIDE DEF set
<1>3. editor' \in [item : Item \cup {0}, labels : SUBSET Key, saved : SUBSET Key, touched : BOOLEAN]
  BY <1>1, <1>2 DEF Editors
<1>4. editor'.item # 0
  BY <1>1, <1>2 DEF PickLabel, Editors
<1>5. editor' \in Editors
  BY <1>3, <1>4 DEF Editors
<1> QED BY <1>5 DEF Types, FilesOK, ScreenOK, PickLabel, files

LEMMA SaveRequirementTypes ==
    ASSUME Types, SaveRequirement
    PROVE  Types'
<1>1. editor.labels \in SUBSET Key /\ editor.item \in Item
  BY DEF Types, ScreenOK, Editors, SaveRequirement
<1>2. labels' \in LabelSets /\ shown' \in LabelSets
  BY <1>1 DEF SaveRequirement, Types, FilesOK, ScreenOK, LabelSets
<1>3. offered' \subseteq Key
  BY DEF SaveRequirement, Types, FilesOK, ScreenOK, Definitions, Service
<1>4. editor' \in Editors
  BY <1>1, LoadedType, ListedType DEF SaveRequirement
<1> QED BY <1>2, <1>3, <1>4 DEF Types, FilesOK, ScreenOK, SaveRequirement

LEMMA DiscardEditsTypes ==
    ASSUME Types, DiscardEdits
    PROVE  Types'
<1>1. editor \in Editors /\ labels \in LabelSets /\ shown \in LabelSets
  BY DEF Types, FilesOK, ScreenOK
<1>2. editor.item \in Item
  BY <1>1 DEF DiscardEdits, Dirty, Editors
<1>3. labels[editor.item] \in SUBSET Key
  BY <1>1, <1>2 DEF LabelSets
<1>4. shown' \in LabelSets
  BY <1>1, <1>3 DEF DiscardEdits, LabelSets
<1>5. editor' \in Editors
  BY <1>2, <1>3, LoadedType DEF DiscardEdits
<1> QED BY <1>4, <1>5 DEF Types, FilesOK, ScreenOK, DiscardEdits, files

LEMMA OpenDialogTypes ==
    ASSUME Types, OpenDialog
    PROVE  Types'
<1>1. FilesOK /\ "gui" \in Service /\ current \in Doc
  BY DEF Types, ScreenOK, Service
<1>2. defs' \in Definitions /\ cache' \in [Service -> Definitions] /\ labels' = labels
  BY <1>1, SyncType DEF OpenDialog
<1>3. FilesOK'
  BY <1>1, <1>2 DEF FilesOK
<1>4. cache'["gui"][current] \in SUBSET Key
  BY <1>1, <1>2 DEF Definitions
<1>5. dialog' \in Dialogs
  BY <1>1, <1>4, OpenedType DEF OpenDialog
<1>6. ScreenOK' /\ (results \in Results)'
  BY DEF Types, ScreenOK, OpenDialog, screen
<1> QED BY <1>3, <1>5, <1>6 DEF Types

LEMMA CancelDialogTypes ==
    ASSUME Types, CancelDialog
    PROVE  Types'
<1>1. dialog' \in Dialogs
  BY OpenedType DEF CancelDialog, NoDialog
<1> QED BY <1>1 DEF Types, FilesOK, ScreenOK, CancelDialog, files, screen

LEMMA ConfirmDialogTypes ==
    ASSUME Types, ConfirmDialog
    PROVE  Types'
<1>1. FilesOK /\ "gui" \in Service /\ dialog \in Dialogs /\ current' = current
  BY DEF Types, Service, ConfirmDialog
<1>2. DOMAIN dialog.rows \in SUBSET Key /\ dialog.changes \in Answers
  BY <1>1, DialogIs, PartialIs DEF Rows, Partial, Answers, Answer
<1>3. FilesOK'
  BY <1>1, <1>2, UpdateLabelsType DEF ConfirmDialog
<1>4. dialog' \in Dialogs
  BY OpenedType DEF ConfirmDialog, NoDialog
<1>5. \A i \in Item : Replace(shown[i], Propagated(dialog.changes),
                              {k \in DOMAIN dialog.removed : dialog.removed[k]}) \in SUBSET Key
  BY <1>2, MapTypes, ReplaceType DEF Types, ScreenOK, LabelSets
<1>6. Followed(dialog.changes, dialog.removed) \in LabelSets
  BY <1>5 DEF Followed, Types, ScreenOK, LabelSets
<1>7. shown' \in LabelSets /\ (results \in Results)'
  BY <1>6 DEF Types, ScreenOK, ConfirmDialog
<1>8. offered' \subseteq Key
  <2>1. cache'["gui"][current] \subseteq Key
    BY <1>1, <1>3 DEF FilesOK, Definitions, Types, ScreenOK
  <2> QED BY <2>1 DEF Types, ScreenOK, ConfirmDialog
<1>9. editor' \in Editors
  <2> DEFINE e == Listed(editor, offered')
  <2>1. editor \in Editors /\ e \in Editors
    BY ListedType DEF Types, ScreenOK
  <2>2. e.item # 0 => shown'[e.item] \in SUBSET Key /\ e.item \in Item
    BY <1>7, <2>1 DEF LabelSets, Editors
  <2>3. \/ editor' = editor \/ editor' = e
        \/ editor' = Loaded(e.item, shown'[e.item]) /\ e.item # 0
    BY DEF ConfirmDialog
  <2> HIDE DEF e
  <2> QED BY <2>1, <2>2, <2>3, LoadedType
<1> QED BY <1>1, <1>3, <1>4, <1>7, <1>8, <1>9 DEF Types, ScreenOK

LEMMA ReturnedType ==
    ASSUME Types, NEW ok, NEW r \in ToolResults, Returned(ok, r)
    PROVE  (results \in Results)'
BY DEF Types, Results, Returned

LEMMA LabelResultType ==
    ASSUME NEW d \in Doc, NEW map \in Maps, NEW gone \in SUBSET Key
    PROVE  LabelResult(d, map, gone) \in ToolResults
BY DEF LabelResult, LabelToolResults, ToolResults

LEMMA CreateLabelTypes ==
    ASSUME Types, NEW d \in Doc, NEW k \in Key, CreateLabel(d, k)
    PROVE  Types'
<1> DEFINE keys == cache["agent"][d] \cup {k}
<1>1. FilesOK /\ "agent" \in Service
  BY DEF Types, Service
<1>2. keys \in SUBSET Key
  BY <1>1 DEF FilesOK, Definitions
<1>3. <<>> \in Answers /\ <<>> \in Maps
  <2>1. <<>> \in [{} -> [to : Key, yes : BOOLEAN]] /\ <<>> \in [{} -> Key]
    OBVIOUS
  <2> QED BY <2>1 DEF Answers, Maps
<1>4. FilesOK'
  BY <1>1, <1>2, <1>3, UpdateLabelsType DEF CreateLabel
<1>5. (results \in Results)'
  <2>1. LabelResult(d, <<>>, {}) \in ToolResults
    BY <1>3, LabelResultType
  <2> QED BY <2>1, ReturnedType DEF CreateLabel
<1>6. ScreenOK' /\ (dialog \in Dialogs)'
  BY DEF Types, ScreenOK, CreateLabel, screen
<1> QED BY <1>4, <1>5, <1>6 DEF Types

LEMMA UpdateLabelTypes ==
    ASSUME Types, NEW d \in Doc, NEW k \in Key, NEW new \in Key, NEW yes \in BOOLEAN,
           UpdateLabel(d, k, new, yes)
    PROVE  Types'
<1> DEFINE keys == (cache["agent"][d] \ {k}) \cup {new}
           changes == [l \in {k} |-> [to |-> new, yes |-> yes]]
           map == [l \in IF yes THEN {k} ELSE {} |-> new]
<1>1. FilesOK /\ "agent" \in Service
  BY DEF Types, Service
<1>2. keys \in SUBSET Key
  BY <1>1 DEF FilesOK, Definitions
<1>3. changes \in Answers
  <2>1. changes \in [{k} -> [to : Key, yes : BOOLEAN]] /\ {k} \in SUBSET Key
    OBVIOUS
  <2> HIDE DEF changes
  <2> QED BY <2>1 DEF Answers
<1>4. map \in Maps
  <2>1. (IF yes THEN {k} ELSE {}) \in SUBSET Key
    OBVIOUS
  <2>2. map \in [IF yes THEN {k} ELSE {} -> Key]
    OBVIOUS
  <2> HIDE DEF map
  <2> QED BY <2>1, <2>2, IsMap
<1>5. FilesOK'
  <2>1. UpdateLabels("agent", d, cache["agent"][d], keys, changes, <<>>,
                     [Keep EXCEPT ![k] = IF yes THEN {new} ELSE {k}], IF yes THEN {} ELSE {k})
    BY DEF UpdateLabel
  <2> HIDE DEF keys, changes
  <2> QED BY <1>1, <1>2, <1>3, <2>1, UpdateLabelsType
<1>6. (results \in Results)'
  <2>1. LabelResult(d, map, {}) \in ToolResults
    <3> HIDE DEF map
    <3> QED BY <1>4, LabelResultType
  <2> QED BY <2>1, ReturnedType DEF UpdateLabel
<1>7. ScreenOK' /\ (dialog \in Dialogs)'
  BY DEF Types, ScreenOK, UpdateLabel, screen
<1> QED BY <1>5, <1>6, <1>7 DEF Types

LEMMA DeleteLabelTypes ==
    ASSUME Types, NEW d \in Doc, NEW k \in Key, NEW yes \in BOOLEAN, DeleteLabel(d, k, yes)
    PROVE  Types'
<1> DEFINE keys == cache["agent"][d] \ {k}
<1>1. FilesOK /\ "agent" \in Service
  BY DEF Types, Service
<1>2. keys \in SUBSET Key
  BY <1>1 DEF FilesOK, Definitions
<1>3. <<>> \in Answers /\ <<>> \in Maps
  <2>1. <<>> \in [{} -> [to : Key, yes : BOOLEAN]] /\ <<>> \in [{} -> Key]
    OBVIOUS
  <2> QED BY <2>1 DEF Answers, Maps
<1>4. FilesOK'
  BY <1>1, <1>2, <1>3, UpdateLabelsType DEF DeleteLabel
<1>5. (results \in Results)'
  <2>1. (IF yes THEN {k} ELSE {}) \in SUBSET Key
    OBVIOUS
  <2>2. LabelResult(d, <<>>, IF yes THEN {k} ELSE {}) \in ToolResults
    BY <1>3, <2>1, LabelResultType
  <2> QED BY <2>2, ReturnedType DEF DeleteLabel
<1>6. ScreenOK' /\ (dialog \in Dialogs)'
  BY DEF Types, ScreenOK, DeleteLabel, screen
<1> QED BY <1>4, <1>5, <1>6 DEF Types

LEMMA SetRequirementLabelsTypes ==
    ASSUME Types, NEW i \in Item, NEW set \in SUBSET Key, SetRequirementLabels(i, set)
    PROVE  Types'
<1>1. FilesOK /\ "agent" \in Service
  BY DEF Types, Service
<1>2. defs' \in Definitions /\ cache' \in [Service -> Definitions]
  BY <1>1, PromoteType DEF SetRequirementLabels
<1>3. labels' \in LabelSets
  BY <1>1 DEF FilesOK, LabelSets, SetRequirementLabels
<1>4. (results \in Results)'
  <2>1. SetResult(i, set) \in ToolResults
    BY DEF SetResult, SetToolResults, ToolResults
  <2> QED BY <2>1, ReturnedType DEF SetRequirementLabels
<1>5. ScreenOK' /\ (dialog \in Dialogs)'
  BY DEF Types, ScreenOK, SetRequirementLabels, screen
<1> QED BY <1>2, <1>3, <1>4, <1>5 DEF Types, FilesOK

LEMMA FirstAndRest ==
    ASSUME NEW R \in Results, R # <<>>
    PROVE  Head(R) \in ToolResults /\ Tail(R) \in Results
BY DEF Results

LEMMA ShowResultTypes ==
    ASSUME Types, ShowResult
    PROVE  Types'
<1> DEFINE r == Head(results)
           relevant == r.tool = "label" /\ About(r, current)
           given == r.tool = "set" /\ r.item = editor.item
<1>1. /\ results # <<>> /\ results' = Tail(results) /\ results \in Results
      /\ shown' = Applied(shown, r, current) /\ current' = current
      /\ UNCHANGED <<defs, labels, dialog>>
      /\ cache' = IF r.tool = "label" THEN [cache EXCEPT !["gui"] = defs] ELSE cache
      /\ offered' = IF relevant THEN defs[current] ELSE offered
  BY DEF Types, ShowResult, FollowedResult, Applied
<1>2. r \in ToolResults /\ Tail(results) \in Results
  BY <1>1, FirstAndRest
<1> HIDE DEF r
<1>3. shown' \in LabelSets /\ current \in Doc
  BY <1>1, <1>2, AppliedType DEF Types, ScreenOK
<1>4. FilesOK'
  BY <1>1 DEF Types, FilesOK
<1>5. offered' \subseteq Key
  BY <1>1, <1>3 DEF Types, FilesOK, ScreenOK, Definitions
<1>6. editor' \in Editors
  <2> DEFINE f == Listed(editor, offered')
  <2>1. editor \in Editors /\ f \in Editors
    BY ListedType DEF Types, ScreenOK
  <2>2. \E e \in {editor, f} : \/ editor' = e
                               \/ e.item # 0 /\ editor' = Loaded(e.item, shown'[e.item])
    BY DEF ShowResult
  <2> HIDE DEF f
  <2>3. PICK e \in {editor, f} : \/ editor' = e
                                 \/ e.item # 0 /\ editor' = Loaded(e.item, shown'[e.item])
    BY <2>2
  <2>4. e \in Editors /\ (e.item # 0 => e.item \in Item /\ shown'[e.item] \in SUBSET Key)
    BY <1>3, <2>1 DEF Editors, LabelSets
  <2> QED BY <2>3, <2>4, LoadedType
<1> QED BY <1>1, <1>2, <1>3, <1>4, <1>5, <1>6 DEF Types, ScreenOK

LEMMA NextTypes ==
    ASSUME Types, [Next]_vars
    PROVE  Types'
<1>1. CASE User
  BY <1>1, SelectDocumentTypes, SwitchDocumentTypes, SelectRequirementTypes, PickLabelTypes,
     AddLabelTypes, RetitleLabelTypes, RenameLabelTypes, DeleteLabelsTypes,
     SaveRequirementTypes, DiscardEditsTypes, OpenDialogTypes, ConfirmDialogTypes,
     CancelDialogTypes DEF User
<1>2. CASE Agent
  BY <1>2, CreateLabelTypes, UpdateLabelTypes, DeleteLabelTypes, SetRequirementLabelsTypes,
     GivenType DEF Agent
<1>3. CASE ShowResult
  BY <1>3, ShowResultTypes
<1>4. CASE UNCHANGED vars
  BY <1>4 DEF vars, Types, FilesOK, ScreenOK
<1> QED BY <1>1, <1>2, <1>3, <1>4 DEF Next

LEMMA AlwaysTypes == Spec => []Types
<1> QED BY InitTypes, NextTypes, PTL DEF Spec

-----------------------------------------------------------------------------
(* The answers given in the dialog.                                        *)

\* Rows come from different definitions; an answer is about the definition of a
\* row that has another key now, or of a row that was deleted.
Origins(D) == {D.lookup[k] : k \in DOMAIN D.rows}
Distinct(D) ==
    /\ DOMAIN D.lookup = DOMAIN D.rows
    /\ \A k, l \in DOMAIN D.rows : D.lookup[k] = D.lookup[l] => k = l
    /\ DOMAIN D.changes \subseteq Origins(D)
    /\ DOMAIN D.removed \cap Origins(D) = {}
    /\ \A k \in DOMAIN D.rows : D.lookup[k] # k => D.lookup[k] \in DOMAIN D.changes

\* The answers are what the user asked for.
Opinion(D, k) ==
    IF k \in DOMAIN D.changes /\ D.changes[k].yes THEN {D.changes[k].to}
    ELSE IF k \in DOMAIN D.removed /\ D.removed[k] THEN {} ELSE {k}
Faithful(D) ==
    /\ \A k \in DOMAIN D.rows : D.rows[k] \in {NoKey, D.lookup[k]}
    /\ \A k \in DOMAIN D.rows : D.rows[k] = NoKey /\ D.lookup[k] \in DOMAIN D.changes =>
                                 ~D.changes[D.lookup[k]].yes
    /\ \A o \in DOMAIN D.changes : /\ D.changes[o].to # o
                                   /\ D.changes[o].yes => o \in D.original
    /\ \A o \in DOMAIN D.removed : D.removed[o] => o \in D.original \ DOMAIN D.rows
    /\ \A k \in Key : D.wish[k] = Opinion(D, k)

LEMMA EmptyFunction == DOMAIN <<>> = {}
OBVIOUS

LEMMA OpenedDistinct ==
    ASSUME NEW d, NEW original, NEW keys
    PROVE  Distinct(Opened(d, original, keys))
BY EmptyFunction DEF Opened, Distinct, Origins

LEMMA OpenedFaithful ==
    ASSUME NEW d, NEW original, NEW keys
    PROVE  Faithful(Opened(d, original, keys))
BY EmptyFunction DEF Opened, Faithful, Opinion, Keep

LEMMA AddLabelDistinct ==
    ASSUME Types, Distinct(dialog), NEW k \in Key, AddLabel(k), "reused" \notin Uses
    PROVE  /\ Distinct(dialog')
           /\ Faithful(dialog) => Faithful(dialog')
<1> DEFINE D == dialog
           E == dialog'
<1>1. D \in Dialogs
  BY DEF Types
<1>2. /\ k \notin DOMAIN D.rows /\ k \notin DOMAIN D.lookup
      /\ k \notin DOMAIN D.changes /\ k \notin DOMAIN D.removed
  BY DEF AddLabel, Fits, Distinct
<1>3. /\ E.rows = With(D.rows, k, NoKey) /\ E.lookup = With(D.lookup, k, k)
      /\ E.changes = D.changes /\ E.removed = D.removed /\ E.wish = D.wish
      /\ E.original = D.original
  BY <1>1, <1>2, DialogSet DEF AddLabel, Edited
<1>4. /\ DOMAIN E.rows = DOMAIN D.rows \cup {k}
      /\ E.rows[k] = NoKey /\ \A l \in DOMAIN D.rows : E.rows[l] = D.rows[l]
  BY <1>2, <1>3 DEF With
<1>5. /\ DOMAIN E.lookup = DOMAIN E.rows
      /\ E.lookup[k] = k /\ \A l \in DOMAIN D.rows : E.lookup[l] = D.lookup[l]
  BY <1>2, <1>3, <1>4 DEF With, Distinct
<1> HIDE DEF D, E
<1>6. Distinct(D)
  BY DEF D
<1>7. k \notin Origins(D)
  BY <1>2, <1>6 DEF Distinct, Origins
<1>8. Origins(E) = Origins(D) \cup {k}
  BY <1>4, <1>5 DEF Origins
<1>9. Distinct(E)
  <2>1. \A l, m \in DOMAIN E.rows : E.lookup[l] = E.lookup[m] => l = m
    BY <1>4, <1>5, <1>6, <1>7 DEF Distinct, Origins
  <2>2. DOMAIN E.changes \subseteq Origins(E)
    BY <1>3, <1>6, <1>8 DEF Distinct
  <2>3. DOMAIN E.removed \cap Origins(E) = {}
    BY <1>2, <1>3, <1>6, <1>8 DEF Distinct
  <2>4. \A l \in DOMAIN E.rows : E.lookup[l] # l => E.lookup[l] \in DOMAIN E.changes
    BY <1>3, <1>4, <1>5, <1>6 DEF Distinct
  <2> QED BY <1>5, <2>1, <2>2, <2>3, <2>4 DEF Distinct
<1>10. ASSUME Faithful(D) PROVE Faithful(E)
  <2>1. \A l \in DOMAIN E.rows : E.rows[l] \in {NoKey, E.lookup[l]}
    BY <1>4, <1>5, <1>10 DEF Faithful
  <2>2. \A l \in DOMAIN E.rows : E.rows[l] = NoKey /\ E.lookup[l] \in DOMAIN E.changes =>
                                 ~E.changes[E.lookup[l]].yes
    BY <1>2, <1>3, <1>4, <1>5, <1>10 DEF Faithful
  <2>3. \A o \in DOMAIN E.changes : /\ E.changes[o].to # o
                                    /\ E.changes[o].yes => o \in E.original
    BY <1>3, <1>10 DEF Faithful
  <2>4. \A o \in DOMAIN E.removed : E.removed[o] => o \in E.original \ DOMAIN E.rows
    BY <1>2, <1>3, <1>4, <1>10 DEF Faithful
  <2>5. \A l \in Key : E.wish[l] = Opinion(E, l)
    BY <1>3, <1>10 DEF Faithful, Opinion
  <2> QED BY <2>1, <2>2, <2>3, <2>4, <2>5 DEF Faithful
<1> QED BY <1>9, <1>10 DEF D, E

LEMMA RenameLabelDistinct ==
    ASSUME Types, Distinct(dialog), NEW k \in Key, NEW new \in Key, NEW yes \in BOOLEAN,
           RenameLabel(k, new, yes), "reused" \notin Uses
    PROVE  /\ Distinct(dialog')
           /\ Faithful(dialog) /\ "switched" \notin Uses /\ "added" \notin Uses =>
                 Faithful(dialog')
<1> DEFINE D == dialog
           E == dialog'
           o == D.lookup[k]
           was == D.rows[k]
           given == [to |-> new, yes |-> yes]
<1>1. D \in Dialogs
  BY DEF Types
<1>2. k \in DOMAIN D.rows /\ new \notin DOMAIN D.rows /\ new \notin DOMAIN D.removed
  BY DEF RenameLabel, Fits
<1>3. k \in DOMAIN D.lookup /\ Original(k) = o
  BY <1>2 DEF Distinct, Original
<1>4. /\ E.rows = With(Without(D.rows, k), new, was)
      /\ E.lookup = With(Without(D.lookup, k), new, o)
      /\ E.removed = Without(D.removed, o)
      /\ E.changes = IF new = o THEN Without(D.changes, o) ELSE With(D.changes, o, given)
      /\ E.wish = IF was = NoKey THEN D.wish
                  ELSE [D.wish EXCEPT ![was] = IF yes THEN {new} ELSE {was}]
      /\ E.original = D.original
  BY <1>1, <1>3, DialogSet DEF RenameLabel, Edited
<1>5. yes /\ "switched" \notin Uses /\ "added" \notin Uses => was # NoKey /\ was \in D.original
  BY DEF RenameLabel, Asked, Fits
<1>6. /\ DOMAIN E.rows = (DOMAIN D.rows \ {k}) \cup {new}
      /\ E.rows[new] = was /\ \A l \in DOMAIN D.rows \ {k} : E.rows[l] = D.rows[l]
  BY <1>2, <1>4 DEF With, Without
<1>7. /\ DOMAIN E.lookup = DOMAIN E.rows
      /\ E.lookup[new] = o /\ \A l \in DOMAIN D.rows \ {k} : E.lookup[l] = D.lookup[l]
  BY <1>2, <1>4, <1>6 DEF With, Without, Distinct
<1>8. /\ DOMAIN E.removed = DOMAIN D.removed \ {o}
      /\ \A l \in DOMAIN E.removed : E.removed[l] = D.removed[l]
  BY <1>4 DEF Without
<1>9. /\ DOMAIN E.changes \subseteq DOMAIN D.changes \cup {o}
      /\ DOMAIN D.changes \ {o} \subseteq DOMAIN E.changes
      /\ o \in DOMAIN E.changes <=> new # o
      /\ new # o => E.changes[o] = given
      /\ \A l \in DOMAIN E.changes \ {o} : E.changes[l] = D.changes[l]
  BY <1>4 DEF With, Without
<1>10. o \in Key /\ was \in Key \cup {NoKey} /\ given.to = new /\ given.yes = yes
  BY <1>2, <1>3, OriginalType
<1>11. D.wish \in Wishes
  BY <1>1, DialogIs
<1> HIDE DEF D, E, given
<1>12. Distinct(D) /\ o \in Origins(D)
  BY <1>2 DEF D, Origins
<1> HIDE DEF o, was
<1>13. \A l \in DOMAIN D.rows \ {k} : D.lookup[l] # o
  BY <1>2, <1>12 DEF Distinct, o
<1>14. Origins(E) = Origins(D)
  <2>1. Origins(E) \subseteq Origins(D)
    BY <1>6, <1>7, <1>12 DEF Origins
  <2>2. Origins(D) \subseteq Origins(E)
    BY <1>2, <1>6, <1>7 DEF Origins, o
  <2> QED BY <2>1, <2>2
<1>15. Distinct(E)
  <2>1. \A l, m \in DOMAIN E.rows : E.lookup[l] = E.lookup[m] => l = m
    BY <1>6, <1>7, <1>12, <1>13 DEF Distinct
  <2>2. DOMAIN E.changes \subseteq Origins(E)
    BY <1>9, <1>12, <1>14 DEF Distinct
  <2>3. DOMAIN E.removed \cap Origins(E) = {}
    BY <1>8, <1>12, <1>14 DEF Distinct
  <2>4. \A l \in DOMAIN E.rows : E.lookup[l] # l => E.lookup[l] \in DOMAIN E.changes
    BY <1>6, <1>7, <1>9, <1>12, <1>13 DEF Distinct
  <2> QED BY <1>7, <2>1, <2>2, <2>3, <2>4 DEF Distinct
<1>16. ASSUME Faithful(D), "switched" \notin Uses, "added" \notin Uses PROVE Faithful(E)
  <2>1. was \in {NoKey, o} /\ o \notin DOMAIN D.removed
    BY <1>2, <1>12, <1>16 DEF Faithful, Distinct, was, o
  <2>2. \A l \in DOMAIN E.rows : E.rows[l] \in {NoKey, E.lookup[l]}
    BY <1>6, <1>7, <1>16, <2>1 DEF Faithful
  <2>3. \A l \in DOMAIN E.rows : E.rows[l] = NoKey /\ E.lookup[l] \in DOMAIN E.changes =>
                                 ~E.changes[E.lookup[l]].yes
    <3>1. ASSUME NEW l \in DOMAIN D.rows \ {k}, D.rows[l] = NoKey, D.lookup[l] \in DOMAIN E.changes
          PROVE  ~E.changes[D.lookup[l]].yes
      <4>1. D.lookup[l] \in DOMAIN D.changes /\ E.changes[D.lookup[l]] = D.changes[D.lookup[l]]
        BY <1>9, <1>13, <3>1
      <4> QED BY <1>16, <3>1, <4>1 DEF Faithful
    <3>2. was = NoKey /\ o \in DOMAIN E.changes => ~E.changes[o].yes
      BY <1>5, <1>9, <1>10, <1>16
    <3> QED BY <1>6, <1>7, <3>1, <3>2
  <2>4. \A l \in DOMAIN E.changes : /\ E.changes[l].to # l
                                    /\ E.changes[l].yes => l \in E.original
    BY <1>4, <1>5, <1>9, <1>10, <1>16, <2>1 DEF Faithful
  <2>5. \A l \in DOMAIN E.removed : E.removed[l] => l \in E.original \ DOMAIN E.rows
    BY <1>2, <1>4, <1>6, <1>8, <1>16 DEF Faithful
  <2>6. ASSUME NEW l \in Key PROVE E.wish[l] = Opinion(E, l)
    <3>1. D.wish[l] = Opinion(D, l)
      BY <1>16 DEF Faithful
    <3>2. CASE l # o
      <4>1. E.wish[l] = D.wish[l]
        BY <1>4, <1>11, <2>1, <3>2 DEF Wishes
      <4>2. Opinion(E, l) = Opinion(D, l)
        BY <1>8, <1>9, <3>2 DEF Opinion
      <4> QED BY <3>1, <4>1, <4>2
    <3>3. CASE l = o /\ was = NoKey
      <4>1. ~yes /\ E.wish[o] = D.wish[o]
        BY <1>4, <1>5, <1>16, <3>3
      <4>2. o \in DOMAIN D.changes => ~D.changes[o].yes
        BY <1>2, <1>16, <3>3 DEF Faithful, o, was
      <4>3. Opinion(D, o) = {o}
        BY <2>1, <4>2 DEF Opinion
      <4>4. Opinion(E, o) = {o}
        BY <1>8, <1>9, <1>10, <4>1 DEF Opinion
      <4> QED BY <3>1, <3>3, <4>1, <4>3, <4>4
    <3>4. CASE l = o /\ was = o
      <4>1. E.wish[o] = IF yes THEN {new} ELSE {o}
        BY <1>4, <1>10, <1>11, <3>4, LabelsAssumption DEF Wishes
      <4>2. Opinion(E, o) = IF yes THEN {new} ELSE {o}
        BY <1>8, <1>9, <1>10 DEF Opinion
      <4> QED BY <3>4, <4>1, <4>2
    <3> QED BY <2>1, <3>2, <3>3, <3>4
  <2> QED BY <2>2, <2>3, <2>4, <2>5, <2>6 DEF Faithful
<1> QED BY <1>15, <1>16 DEF D, E

LEMMA RetitleLabelDistinct ==
    ASSUME Types, NEW k \in Key, RetitleLabel(k), "retitled" \notin Uses
    PROVE  /\ Distinct(dialog) => Distinct(dialog')
           /\ Faithful(dialog) => Faithful(dialog')
<1> DEFINE o == Original(k)
<1>1. dialog \in Dialogs /\ dialog.changes \in Partial(Answer)
  BY DialogIs DEF Types
<1>2. o \notin DOMAIN dialog.changes
  BY DEF RetitleLabel, Fits
<1>3. dialog' = [dialog EXCEPT !.changes = Without(dialog.changes, o)]
  BY DEF RetitleLabel, Edited
<1> HIDE DEF o
<1>4. Without(dialog.changes, o) = dialog.changes
  <2>1. DOMAIN dialog.changes \ {o} = DOMAIN dialog.changes
    BY <1>2
  <2>2. Without(dialog.changes, o) = [l \in DOMAIN dialog.changes |-> dialog.changes[l]]
    BY <2>1 DEF Without
  <2> QED BY <1>1, <2>2, PartialIs
<1>5. dialog' = dialog
  BY <1>1, <1>3, <1>4, DialogSet
<1> QED BY <1>5

LEMMA DeleteLabelsDistinct ==
    ASSUME Types, Distinct(dialog), NEW K \in SUBSET Key, NEW yes \in BOOLEAN,
           DeleteLabels(K, yes)
    PROVE  /\ Distinct(dialog')
           /\ Faithful(dialog) /\ Uses \cap {"reused", "switched", "added"} = {} =>
                 Faithful(dialog')
<1> DEFINE D == dialog
           E == dialog'
           O == {D.lookup[k] : k \in K}
           W == {D.rows[k] : k \in K} \ {NoKey}
<1>1. D \in Dialogs
  BY DEF Types
<1>2. K \subseteq DOMAIN D.rows /\ K \subseteq DOMAIN D.lookup
  BY DEF DeleteLabels, Distinct
<1>3. {Original(k) : k \in K} = O
  BY <1>2 DEF Original
<1>4. E = [dialog EXCEPT
             !.rows = [k \in DOMAIN D.rows \ K |-> D.rows[k]],
             !.lookup = [k \in DOMAIN D.lookup \ K |-> D.lookup[k]],
             !.removed = [o \in DOMAIN D.removed \cup O |-> IF o \in O THEN yes ELSE D.removed[o]],
             !.changes = [o \in DOMAIN D.changes \ O |-> D.changes[o]],
             !.wish = [k \in Key |-> IF k \in W THEN IF yes THEN {} ELSE {k} ELSE D.wish[k]],
             !.declined = IF yes THEN D.declined \ W ELSE D.declined \cup W]
  BY <1>3 DEF DeleteLabels, Edited
<1>5. yes /\ Uses \cap {"reused", "switched", "added"} = {} =>
        /\ \A k \in K : D.rows[k] # NoKey /\ D.rows[k] \in D.original
        /\ O \cap (DOMAIN D.rows \ K) = {}
  BY <1>3 DEF DeleteLabels, Asked, Fits
<1> HIDE DEF O, W
<1>6. /\ E.rows = [k \in DOMAIN D.rows \ K |-> D.rows[k]]
      /\ E.lookup = [k \in DOMAIN D.lookup \ K |-> D.lookup[k]]
      /\ E.removed = [o \in DOMAIN D.removed \cup O |-> IF o \in O THEN yes ELSE D.removed[o]]
      /\ E.changes = [o \in DOMAIN D.changes \ O |-> D.changes[o]]
      /\ E.wish = [k \in Key |-> IF k \in W THEN IF yes THEN {} ELSE {k} ELSE D.wish[k]]
      /\ E.original = D.original
  BY <1>1, <1>4, DialogSet
<1> HIDE DEF D, E
<1>7. Distinct(D)
  BY DEF D
<1>8. /\ DOMAIN E.rows = DOMAIN D.rows \ K /\ DOMAIN E.lookup = DOMAIN E.rows
      /\ \A k \in DOMAIN E.rows : E.rows[k] = D.rows[k] /\ E.lookup[k] = D.lookup[k]
  BY <1>6, <1>7 DEF Distinct
<1>9. Origins(E) = Origins(D) \ O
  <2>1. Origins(E) \subseteq Origins(D) \ O
    BY <1>2, <1>7, <1>8 DEF Distinct, Origins, O
  <2>2. Origins(D) \ O \subseteq Origins(E)
    BY <1>8 DEF Origins, O
  <2> QED BY <2>1, <2>2
<1>10. O \subseteq Origins(D)
  BY <1>2 DEF O, Origins
<1>11. /\ DOMAIN E.changes = DOMAIN D.changes \ O
       /\ \A o \in DOMAIN E.changes : E.changes[o] = D.changes[o]
  BY <1>6
<1>12. /\ DOMAIN E.removed = DOMAIN D.removed \cup O
       /\ \A o \in DOMAIN E.removed : E.removed[o] = IF o \in O THEN yes ELSE D.removed[o]
  BY <1>6
<1>13. Distinct(E)
  <2>1. \A l, m \in DOMAIN E.rows : E.lookup[l] = E.lookup[m] => l = m
    BY <1>7, <1>8 DEF Distinct
  <2>2. DOMAIN E.changes \subseteq Origins(E)
    BY <1>7, <1>9, <1>11 DEF Distinct
  <2>3. DOMAIN E.removed \cap Origins(E) = {}
    BY <1>7, <1>9, <1>12 DEF Distinct
  <2>4. \A l \in DOMAIN E.rows : E.lookup[l] # l => E.lookup[l] \in DOMAIN E.changes
    <3>1. \A l \in DOMAIN E.rows : E.lookup[l] \in Origins(E)
      BY DEF Origins
    <3> QED BY <1>7, <1>8, <1>9, <1>11, <3>1 DEF Distinct
  <2> QED BY <1>8, <2>1, <2>2, <2>3, <2>4 DEF Distinct
<1>14. ASSUME Faithful(D), Uses \cap {"reused", "switched", "added"} = {} PROVE Faithful(E)
  <2>1. \A l \in DOMAIN E.rows : E.rows[l] \in {NoKey, E.lookup[l]}
    BY <1>8, <1>14 DEF Faithful
  <2>2. \A l \in DOMAIN E.rows : E.rows[l] = NoKey /\ E.lookup[l] \in DOMAIN E.changes =>
                                 ~E.changes[E.lookup[l]].yes
    BY <1>8, <1>11, <1>14 DEF Faithful
  <2>3. \A l \in DOMAIN E.changes : /\ E.changes[l].to # l
                                    /\ E.changes[l].yes => l \in E.original
    BY <1>6, <1>11, <1>14 DEF Faithful
  <2>4. ASSUME NEW l \in DOMAIN E.removed, E.removed[l]
        PROVE  l \in E.original \ DOMAIN E.rows
    <3>1. CASE l \in O
      <4>1. yes
        BY <1>12, <2>4, <3>1
      <4>2. PICK k \in K : l = D.lookup[k]
        BY <3>1 DEF O
      <4>3. D.rows[k] = l
        BY <1>2, <1>5, <1>14, <4>1, <4>2 DEF Faithful
      <4> QED BY <1>5, <1>6, <1>8, <1>14, <3>1, <4>1, <4>3
    <3>2. CASE l \notin O
      BY <1>6, <1>8, <1>12, <1>14, <2>4, <3>2 DEF Faithful
    <3> QED BY <3>1, <3>2
  <2>5. ASSUME NEW l \in Key PROVE E.wish[l] = Opinion(E, l)
    <3>1. D.wish[l] = Opinion(D, l)
      BY <1>14 DEF Faithful
    <3>2. CASE l \notin O
      <4>1. l \notin W
        BY <1>2, <1>14, <3>2 DEF Faithful, O, W
      <4>2. E.wish[l] = D.wish[l]
        BY <1>6, <4>1
      <4>3. Opinion(E, l) = Opinion(D, l)
        BY <1>11, <1>12, <3>2 DEF Opinion
      <4> QED BY <3>1, <4>2, <4>3
    <3>3. CASE l \in O
      <4>1. Opinion(E, l) = IF yes THEN {} ELSE {l}
        BY <1>11, <1>12, <3>3 DEF Opinion
      <4>2. CASE l \in W
        BY <1>6, <4>1, <4>2
      <4>3. CASE l \notin W
        <5>1. PICK k \in K : l = D.lookup[k]
          BY <3>3 DEF O
        <5>2. D.rows[k] = NoKey /\ k \in DOMAIN D.rows
          BY <1>2, <1>14, <4>3, <5>1 DEF Faithful, W
        <5>3. ~yes
          BY <1>5, <1>14, <5>2
        <5>4. l \in DOMAIN D.changes => ~D.changes[l].yes
          BY <1>14, <5>1, <5>2 DEF Faithful
        <5>5. l \notin DOMAIN D.removed
          BY <1>7, <1>10, <3>3 DEF Distinct
        <5>6. Opinion(D, l) = {l}
          BY <5>4, <5>5 DEF Opinion
        <5>7. E.wish[l] = D.wish[l]
          BY <1>6, <4>3
        <5> QED BY <3>1, <4>1, <5>3, <5>6, <5>7
      <4> QED BY <4>2, <4>3
    <3> QED BY <3>2, <3>3
  <2> QED BY <2>1, <2>2, <2>3, <2>4, <2>5 DEF Faithful
<1> QED BY <1>13, <1>14 DEF D, E

\* Every other step opens or closes the dialog or leaves it alone.
LEMMA DialogSteps ==
    ASSUME Next
    PROVE  \/ \E k \in Key : AddLabel(k) \/ RetitleLabel(k)
           \/ \E k, new \in Key, yes \in BOOLEAN : RenameLabel(k, new, yes)
           \/ \E K \in SUBSET Key, yes \in BOOLEAN : DeleteLabels(K, yes)
           \/ \E d, original, keys : dialog' = Opened(d, original, keys)
           \/ dialog' = dialog
<1>1. \A d \in Doc : SelectDocument(d) => dialog' = dialog
  BY DEF SelectDocument
<1>2. \A d \in Doc : SwitchDocument(d) => \E original, keys : dialog' = Opened(d, original, keys)
  BY DEF SwitchDocument
<1>3. \A i \in Item : SelectRequirement(i) => dialog' = dialog
  BY DEF SelectRequirement
<1>4. \A k \in Key : PickLabel(k) => dialog' = dialog
  BY DEF PickLabel
<1>5. SaveRequirement \/ DiscardEdits => dialog' = dialog
  BY DEF SaveRequirement, DiscardEdits
<1>6. OpenDialog => \E d, original, keys : dialog' = Opened(d, original, keys)
  BY DEF OpenDialog
<1>7. ConfirmDialog \/ CancelDialog => \E d, original, keys : dialog' = Opened(d, original, keys)
  BY DEF ConfirmDialog, CancelDialog, NoDialog
<1>8. Agent => dialog' = dialog
  <2>1. \A d \in Doc, k \in Key : CreateLabel(d, k) => dialog' = dialog
    BY DEF CreateLabel
  <2>2. \A d \in Doc, k, new \in Key, yes \in BOOLEAN : UpdateLabel(d, k, new, yes) => dialog' = dialog
    BY DEF UpdateLabel
  <2>3. \A d \in Doc, k \in Key, yes \in BOOLEAN : DeleteLabel(d, k, yes) => dialog' = dialog
    BY DEF DeleteLabel
  <2>4. \A i \in Item, set \in SUBSET Key : SetRequirementLabels(i, set) => dialog' = dialog
    BY DEF SetRequirementLabels
  <2> QED BY <2>1, <2>2, <2>3, <2>4, GivenType DEF Agent
<1>9. ShowResult => dialog' = dialog
  BY DEF ShowResult
<1> QED BY <1>1, <1>2, <1>3, <1>4, <1>5, <1>6, <1>7, <1>8, <1>9 DEF Next, User

LEMMA DistinctStep ==
    ASSUME Types, Distinct(dialog), [Next]_vars, "reused" \notin Uses, "retitled" \notin Uses
    PROVE  Distinct(dialog')
<1>1. CASE Next
  BY <1>1, DialogSteps, AddLabelDistinct, RenameLabelDistinct, RetitleLabelDistinct,
     DeleteLabelsDistinct, OpenedDistinct
<1>2. CASE UNCHANGED vars
  BY <1>2 DEF vars
<1> QED BY <1>1, <1>2

\* The behaviours that have no known divergence.
PlainDialog == Uses \cap {"switched", "retitled", "reused", "added"} = {}

LEMMA FaithfulStep ==
    ASSUME Types, Distinct(dialog), Faithful(dialog), [Next]_vars, PlainDialog
    PROVE  Faithful(dialog')
<1>1. /\ "switched" \notin Uses /\ "retitled" \notin Uses /\ "reused" \notin Uses
      /\ "added" \notin Uses /\ Uses \cap {"reused", "switched", "added"} = {}
  BY DEF PlainDialog
<1>2. CASE Next
  BY <1>1, <1>2, DialogSteps, AddLabelDistinct, RenameLabelDistinct, RetitleLabelDistinct,
     DeleteLabelsDistinct, OpenedFaithful
<1>3. CASE UNCHANGED vars
  BY <1>3 DEF vars
<1> QED BY <1>2, <1>3

Tracked == Distinct(dialog)
TrulyTracked == Distinct(dialog) /\ Faithful(dialog)

LEMMA InitDialog == Init => Distinct(dialog) /\ Faithful(dialog)
BY OpenedDistinct, OpenedFaithful DEF Init, NoDialog

\* The state of files, window, editor and dialog is well formed; in the dialog no
\* two rows come from one definition, and no definition has both a rename and a
\* deletion on record, whatever is added, renamed and deleted, as long as no
\* removed key is used again and no title changed after a rename.
THEOREM LabelsTypeCorrect ==
    ASSUME "reused" \notin Uses, "retitled" \notin Uses
    PROVE  Spec => []TypeOK
<1>1. Types /\ Tracked => TypeOK
  <2> SUFFICES ASSUME Types, Distinct(dialog) PROVE TypeOK
    BY DEF Tracked
  <2>1. dialog \in Dialogs /\ DOMAIN dialog.rows \in SUBSET Key /\ dialog.lookup \in Partial(Key)
    BY DialogIs, PartialIs DEF Types, Rows
  <2>2. dialog.lookup \in [DOMAIN dialog.rows -> Key]
    BY <2>1 DEF Distinct, Partial
  <2>3. DOMAIN dialog.changes \cap DOMAIN dialog.removed = {}
    BY DEF Distinct
  <2>4. Modal => dialog.doc \in Doc /\ dialog.original \subseteq Key
    BY <2>1, DialogIs DEF Modal
  <2>5. /\ defs \in [Doc -> SUBSET Key] /\ labels \in [Item -> SUBSET Key]
        /\ cache \in [Service -> [Doc -> SUBSET Key]]
    BY DEF Types, FilesOK, Definitions, LabelSets
  <2>6. current \in Doc /\ shown \in [Item -> SUBSET Key] /\ offered \subseteq Key
    BY DEF Types, ScreenOK, LabelSets
  <2>7. editor.item \in Item \cup {0} /\ editor.labels \cup editor.saved \subseteq Key
    BY DEF Types, ScreenOK, Editors
  <2> QED BY <2>1, <2>2, <2>3, <2>4, <2>5, <2>6, <2>7 DEF TypeOK, Distinct
<1>2. Tracked /\ Types /\ [Next]_vars => Tracked'
  BY DistinctStep DEF Tracked
<1>3. Init => Tracked
  BY InitDialog DEF Tracked
<1> QED BY <1>1, <1>2, <1>3, AlwaysTypes, PTL DEF Spec

-----------------------------------------------------------------------------
(* What an update does.                                                    *)

\* An update without an error gives each requirement what wish says.
Granted(d, wish) ==
    \A i \in Item : labels'[i] = IF IsAncestor(DocOf[i], d) THEN UNION {wish[k] : k \in labels[i]}
                               ELSE labels[i]

\* The renames and removals that reach the requirements, as a wish.
Effect(map, gone, k) == IF k \in DOMAIN map THEN {map[k]} ELSE IF k \in gone THEN {} ELSE {k}

LEMMA ReplaceIs ==
    ASSUME NEW set \in SUBSET Key, NEW map, NEW gone, NEW wish,
           \A k \in Key : wish[k] = Effect(map, gone, k)
    PROVE  Replace(set, map, gone) = UNION {wish[k] : k \in set}
<1>1. Replace(set, map, gone) \subseteq UNION {wish[k] : k \in set}
  <2> SUFFICES ASSUME NEW x \in Replace(set, map, gone)
               PROVE  \E k \in set : x \in wish[k]
    OBVIOUS
  <2>1. PICK k \in set : /\ k \in DOMAIN map \/ k \notin gone
                         /\ x = IF k \in DOMAIN map THEN map[k] ELSE k
    BY DEF Replace
  <2>2. x \in wish[k]
    BY <2>1 DEF Effect
  <2> QED BY <2>2
<1>2. UNION {wish[k] : k \in set} \subseteq Replace(set, map, gone)
  <2> SUFFICES ASSUME NEW k \in set, NEW x \in wish[k]
               PROVE  x \in Replace(set, map, gone)
    OBVIOUS
  <2>1. x \in Effect(map, gone, k)
    OBVIOUS
  <2> QED BY <2>1 DEF Effect, Replace
<1> QED BY <1>1, <1>2

LEMMA UpdateGrants ==
    ASSUME labels \in LabelSets, DocOf \in [Item -> Doc],
           NEW s, NEW d, NEW original, NEW keys, NEW changes, NEW removed, NEW wish, NEW declined,
           UpdateLabels(s, d, original, keys, changes, removed, wish, declined),
           last'.ok,
           \A k \in Key : wish[k] = Effect(RenameMap(original, keys, changes),
                                          RemovalTargets(original, keys, removed), k)
    PROVE  last'.wish = wish /\ last'.doc = d /\ Granted(d, wish)
<1> DEFINE map == RenameMap(original, keys, changes)
           gone == RemovalTargets(original, keys, removed)
           definitions == Redefined(d, keys, Propagated(changes))
           new == [i \in Item |-> IF DocOf[i] \in Subtree(d) THEN Replace(labels[i], map, gone)
                                 ELSE labels[i]]
<1>1. PICK r \in Rewritten(d, definitions, map, gone) :
         labels' = r.labels /\ last' = [nth |-> last.nth + 1, doc |-> d, ok |-> r.ok, wish |-> wish]
  BY DEF UpdateLabels
<1>2. r.ok
  BY <1>1
<1> HIDE DEF map, gone, definitions
<1>3. r.labels = new
  <2> DEFINE changed == {i \in ItemsOf(Subtree(d)) : labels[i] \cap (DOMAIN map \cup gone) # {}}
             bad == {i \in changed : ~Valid(definitions, DocOf[i], new[i])}
             Until(f, D) == {i \in changed : DocOf[i] \in D \/ (DocOf[i] = DocOf[f] /\ i < f)}
             W == {v \in bad \X SUBSET Doc : DocOf[v[1]] \notin v[2]
                                             /\ Until(v[1], v[2]) \cap bad = {}}
  <2>1. Rewritten(d, definitions, map, gone) =
          IF bad = {} THEN {[ok |-> TRUE, labels |-> new]}
          ELSE {[ok |-> FALSE, labels |-> [i \in Item |-> IF i \in Until(w[1], w[2]) THEN new[i]
                                                          ELSE labels[i]]] : w \in W}
    BY DEF Rewritten
  <2> HIDE DEF new, bad, Until, W
  <2> QED BY <1>2, <2>1
<1>4. ASSUME NEW i \in Item
      PROVE  labels'[i] = IF IsAncestor(DocOf[i], d) THEN UNION {wish[k] : k \in labels[i]}
                          ELSE labels[i]
  <2>1. labels[i] \in SUBSET Key
    BY DEF LabelSets
  <2>2. Replace(labels[i], map, gone) = UNION {wish[k] : k \in labels[i]}
    BY <2>1, ReplaceIs DEF map, gone
  <2>3. DocOf[i] \in Subtree(d) <=> IsAncestor(DocOf[i], d)
    BY DEF Subtree
  <2> QED BY <1>1, <1>3, <2>2, <2>3
<1> QED BY <1>1, <1>4 DEF Granted

\* The dialog's answers amount to what the user asked for.
LEMMA DialogWish ==
    ASSUME Types, Distinct(dialog), Faithful(dialog), NEW k \in Key
    PROVE  dialog.wish[k] =
             Effect(RenameMap(dialog.original, DOMAIN dialog.rows, dialog.changes),
                    RemovalTargets(dialog.original, DOMAIN dialog.rows, dialog.removed), k)
<1> DEFINE map == RenameMap(dialog.original, DOMAIN dialog.rows, dialog.changes)
           gone == RemovalTargets(dialog.original, DOMAIN dialog.rows, dialog.removed)
           C == dialog.changes
           R == dialog.removed
<1>1. dialog.wish[k] = Opinion(dialog, k)
  BY DEF Faithful
<1>2. \A o \in DOMAIN C : C[o].to # o /\ (C[o].yes => o \in dialog.original)
  BY DEF Faithful
<1>3. k \in DOMAIN map <=> k \in DOMAIN C /\ C[k].yes
  BY <1>2 DEF RenameMap, Propagated
<1>4. k \in DOMAIN map => map[k] = C[k].to
  BY DEF RenameMap, Propagated
<1>5. k \in gone <=> k \in DOMAIN R /\ R[k]
  BY DEF RemovalTargets, Faithful
<1> HIDE DEF map, gone
<1>6. Opinion(dialog, k) = Effect(map, gone, k)
  BY <1>3, <1>4, <1>5 DEF Opinion, Effect
<1> QED BY <1>1, <1>6 DEF map, gone

LEMMA ConfirmGrants ==
    ASSUME Types, Distinct(dialog), Faithful(dialog), ConfirmDialog, last'.ok
    PROVE  Granted(last'.doc, last'.wish)
<1>1. labels \in LabelSets /\ DocOf \in [Item -> Doc]
  BY LabelsAssumption DEF Types, FilesOK
<1>2. UpdateLabels("gui", dialog.doc, dialog.original, DOMAIN dialog.rows,
                   dialog.changes, dialog.removed, dialog.wish, dialog.declined)
  BY DEF ConfirmDialog
<1>3. \A k \in Key : dialog.wish[k] =
             Effect(RenameMap(dialog.original, DOMAIN dialog.rows, dialog.changes),
                    RemovalTargets(dialog.original, DOMAIN dialog.rows, dialog.removed), k)
  BY DialogWish
<1> QED BY <1>1, <1>2, <1>3, UpdateGrants

LEMMA CreateGrants ==
    ASSUME Types, NEW d \in Doc, NEW k \in Key, CreateLabel(d, k), last'.ok
    PROVE  Granted(last'.doc, last'.wish)
<1> DEFINE keys == cache["agent"][d]
           left == keys \cup {k}
           none == <<>>
           map == RenameMap(keys, left, none)
           gone == RemovalTargets(keys, left, none)
<1>1. labels \in LabelSets /\ DocOf \in [Item -> Doc]
  BY LabelsAssumption DEF Types, FilesOK
<1>2. UpdateLabels("agent", d, keys, left, none, none, Keep, {})
  BY DEF CreateLabel
<1>3. DOMAIN map = {} /\ gone = {}
  BY EmptyFunction DEF RenameMap, Propagated, RemovalTargets
<1> HIDE DEF keys, left, none, map, gone
<1>4. \A l \in Key : Keep[l] = Effect(map, gone, l)
  BY <1>3 DEF Keep, Effect
<1> QED BY <1>1, <1>2, <1>4, UpdateGrants DEF map, gone

LEMMA RenameGrants ==
    ASSUME Types, NEW d \in Doc, NEW k \in Key, NEW new \in Key, NEW yes \in BOOLEAN,
           UpdateLabel(d, k, new, yes), last'.ok
    PROVE  Granted(last'.doc, last'.wish)
<1> DEFINE keys == cache["agent"][d]
           left == (keys \ {k}) \cup {new}
           changes == [l \in {k} |-> [to |-> new, yes |-> yes]]
           wish == [Keep EXCEPT ![k] = IF yes THEN {new} ELSE {k}]
           map == RenameMap(keys, left, changes)
           gone == RemovalTargets(keys, left, <<>>)
<1>1. labels \in LabelSets /\ DocOf \in [Item -> Doc]
  BY LabelsAssumption DEF Types, FilesOK
<1>2. UpdateLabels("agent", d, keys, left, changes, <<>>, wish, IF yes THEN {} ELSE {k})
  BY DEF UpdateLabel
<1>3. k \in keys /\ new \notin keys /\ k # new
  BY DEF UpdateLabel
<1>4. /\ DOMAIN changes = {k} /\ changes[k].to = new /\ changes[k].yes = yes
  OBVIOUS
<1>5. \A l \in Key : wish[l] = IF l = k /\ yes THEN {new} ELSE {l}
  BY DEF Keep
<1>6. gone = {}
  BY EmptyFunction DEF RemovalTargets
<1> HIDE DEF keys, left, changes, wish
<1>7. /\ DOMAIN map = IF yes THEN {k} ELSE {}
      /\ yes => map[k] = new
  BY <1>3, <1>4 DEF RenameMap, Propagated
<1> HIDE DEF map, gone
<1>8. \A l \in Key : wish[l] = Effect(map, gone, l)
  BY <1>5, <1>6, <1>7 DEF Effect
<1> QED BY <1>1, <1>2, <1>8, UpdateGrants DEF map, gone

LEMMA DeleteGrants ==
    ASSUME Types, NEW d \in Doc, NEW k \in Key, NEW yes \in BOOLEAN,
           DeleteLabel(d, k, yes), last'.ok
    PROVE  Granted(last'.doc, last'.wish)
<1> DEFINE keys == cache["agent"][d]
           left == keys \ {k}
           removed == [l \in {k} |-> yes]
           wish == [Keep EXCEPT ![k] = IF yes THEN {} ELSE {k}]
           map == RenameMap(keys, left, <<>>)
           gone == RemovalTargets(keys, left, removed)
<1>1. labels \in LabelSets /\ DocOf \in [Item -> Doc]
  BY LabelsAssumption DEF Types, FilesOK
<1>2. UpdateLabels("agent", d, keys, left, <<>>, removed, wish, IF yes THEN {} ELSE {k})
  BY DEF DeleteLabel
<1>3. k \in keys
  BY DEF DeleteLabel
<1>4. DOMAIN removed = {k} /\ removed[k] = yes
  OBVIOUS
<1>5. \A l \in Key : wish[l] = IF l = k /\ yes THEN {} ELSE {l}
  BY DEF Keep
<1>6. DOMAIN map = {}
  BY EmptyFunction DEF RenameMap, Propagated
<1>7. gone = IF yes THEN {k} ELSE {}
  <2> HIDE DEF removed, keys
  <2> QED BY <1>3, <1>4 DEF RemovalTargets
<1> HIDE DEF keys, left, removed, wish, map, gone
<1>8. \A l \in Key : wish[l] = Effect(map, gone, l)
  BY <1>5, <1>6, <1>7 DEF Effect
<1> QED BY <1>1, <1>2, <1>8, UpdateGrants DEF map, gone

LEMMA UpdatesAreFour ==
    ASSUME [Next]_vars, last'.nth # last.nth
    PROVE  \/ ConfirmDialog
           \/ \E d \in Doc, k \in Key : CreateLabel(d, k)
           \/ \E d \in Doc, k, new \in Key, yes \in BOOLEAN : UpdateLabel(d, k, new, yes)
           \/ \E d \in Doc, k \in Key, yes \in BOOLEAN : DeleteLabel(d, k, yes)
<1>1. last' # last
  OBVIOUS
<1>2. CASE UNCHANGED vars
  BY <1>1, <1>2 DEF vars
<1>3. CASE Agent
  BY <1>1, <1>3 DEF Agent, SetRequirementLabels, history
<1>4. CASE ShowResult
  BY <1>1, <1>4 DEF ShowResult, history
<1>5. CASE User
  <2>1. \A d \in Doc : ~SelectDocument(d) /\ ~SwitchDocument(d)
    BY <1>1 DEF SelectDocument, SwitchDocument, history
  <2>2. \A D : ~Edited(D)
    BY <1>1 DEF Edited, history
  <2>3. \A k \in Key : ~AddLabel(k) /\ ~RetitleLabel(k)
    BY <2>2 DEF AddLabel, RetitleLabel
  <2>4. \A k, new \in Key, yes \in BOOLEAN : ~RenameLabel(k, new, yes)
    BY <2>2 DEF RenameLabel
  <2>5. \A K \in SUBSET Key, yes \in BOOLEAN : ~DeleteLabels(K, yes)
    BY <2>2 DEF DeleteLabels
  <2>6. \A i \in Item : ~SelectRequirement(i)
    BY <1>1 DEF SelectRequirement, history
  <2>7. \A k \in Key : ~PickLabel(k)
    BY <1>1 DEF PickLabel, history
  <2>8. ~SaveRequirement /\ ~DiscardEdits /\ ~OpenDialog /\ ~CancelDialog
    BY <1>1 DEF SaveRequirement, DiscardEdits, OpenDialog, CancelDialog, history
  <2> QED BY <1>5, <2>1, <2>3, <2>4, <2>5, <2>6, <2>7, <2>8 DEF User
<1> QED BY <1>2, <1>3, <1>4, <1>5 DEF Next

\* An update of definitions that reports no error has given every requirement
\* below the document what was asked for in place of each label and has left the
\* others alone, for any number of documents, requirements and labels, in runs
\* without the four behaviours of the dialog that are known to diverge.
THEOREM DecisionsReachRequirements ==
    ASSUME PlainDialog
    PROVE  Spec => DecisionsAreApplied
<1>1. Init => TrulyTracked
  BY InitDialog DEF TrulyTracked
<1>2. Types /\ TrulyTracked /\ [Next]_vars => TrulyTracked'
  <2>1. "reused" \notin Uses /\ "retitled" \notin Uses
    BY DEF PlainDialog
  <2> QED BY <2>1, DistinctStep, FaithfulStep DEF TrulyTracked
<1>3. Types /\ TrulyTracked /\ [Next]_vars =>
        [last'.nth # last.nth /\ last'.ok =>
           \A i \in Item :
             labels'[i] = IF IsAncestor(DocOf[i], last'.doc)
                          THEN UNION {last'.wish[k] : k \in labels[i]} ELSE labels[i]]_vars
  <2> SUFFICES ASSUME Types, TrulyTracked, [Next]_vars, last'.nth # last.nth, last'.ok
               PROVE  Granted(last'.doc, last'.wish)
    BY DEF Granted
  <2> QED BY UpdatesAreFour, ConfirmGrants, CreateGrants, RenameGrants, DeleteGrants
          DEF TrulyTracked
<1> QED BY <1>1, <1>2, <1>3, AlwaysTypes, PTL DEF Spec, DecisionsAreApplied

-----------------------------------------------------------------------------
(* A document and its ancestors.                                           *)

\* The list of ancestors, built one parent at a time.
Climbed(s) == IF Parent[Last(s)] = NoDoc THEN s ELSE Append(s, Parent[Last(s)])
Lists == Seq(Doc) \ {<<>>}
Climb(d, up) ==
    /\ up \in [0 .. Cardinality(Doc) -> Lists]
    /\ up[0] = <<d>> /\ \A n \in 1 .. Cardinality(Doc) : up[n] = Climbed(up[n - 1])

LEMMA LastIs ==
    ASSUME NEW s \in Lists
    PROVE  Last(s) \in Doc /\ Last(s) \in ToSet(s) /\ ToSet(s) \subseteq Doc
<1>1. Len(s) \in DOMAIN s /\ s \in Seq(Doc)
  BY DEF Lists
<1> QED BY <1>1 DEF Last, ToSet

LEMMA ClimbedIs ==
    ASSUME NEW s \in Lists
    PROVE  LET p == Parent[Last(s)]
           IN  /\ Climbed(s) \in Lists /\ p \in Doc \cup {NoDoc}
               /\ p = NoDoc => Climbed(s) = s
               /\ p # NoDoc => ToSet(Climbed(s)) = ToSet(s) \cup {p} /\ Last(Climbed(s)) = p
<1> DEFINE p == Parent[Last(s)]
           t == Append(s, p)
<1>1. p \in Doc \cup {NoDoc} /\ s \in Seq(Doc) /\ NoDoc \notin Doc
  BY LastIs, LabelsAssumption DEF Lists
<1>2. ASSUME p # NoDoc PROVE t \in Lists /\ ToSet(t) = ToSet(s) \cup {p} /\ Last(t) = p
  <2>1. p \in Doc
    BY <1>1, <1>2
  <2>2. t \in Seq(Doc) /\ Len(t) = Len(s) + 1 /\ t[Len(s) + 1] = p
        /\ \A i \in 1 .. Len(s) : t[i] = s[i]
    BY <1>1, <2>1
  <2> HIDE DEF t, p
  <2>3. DOMAIN t = 1 .. (Len(s) + 1) /\ DOMAIN s = 1 .. Len(s) /\ Len(s) \in Nat
    BY <1>1, <2>2
  <2>4. ToSet(t) = ToSet(s) \cup {p}
    <3>1. ToSet(t) \subseteq ToSet(s) \cup {p}
      BY <2>2, <2>3 DEF ToSet
    <3>2. \A x \in ToSet(s) : x \in ToSet(t)
      <4> SUFFICES ASSUME NEW i \in 1 .. Len(s) PROVE s[i] \in ToSet(t)
        BY <2>3 DEF ToSet
      <4>1. i \in DOMAIN t /\ t[i] = s[i]
        BY <2>2, <2>3
      <4> QED BY <4>1 DEF ToSet
    <3>3. p \in ToSet(t)
      <4>1. Len(s) + 1 \in DOMAIN t
        BY <2>3
      <4> QED BY <2>2, <4>1 DEF ToSet
    <3> QED BY <3>1, <3>2, <3>3
  <2>5. Last(t) = p
    BY <2>2 DEF Last
  <2>6. t # <<>>
    BY <2>2, <2>3
  <2> QED BY <2>2, <2>4, <2>5, <2>6 DEF Lists
<1>3. Climbed(s) = IF p = NoDoc THEN s ELSE t
  BY DEF Climbed
<1> QED BY <1>1, <1>2, <1>3

LEMMA LineageClimbs ==
    ASSUME NEW d \in Doc
    PROVE  \E up : Climb(d, up) /\ Lineage(d) = up[Cardinality(Doc) - 1]
<1> DEFINE n == Cardinality(Doc)
           step == [i \in 1 .. n |-> [s \in Lists |-> Climbed(s)]]
           IsUp(up) == up = [i \in 0 .. n |-> IF i = 0 THEN <<d>> ELSE Climbed(up[i - 1])]
           up == CHOOSE u : IsUp(u)
<1>1. n \in Nat
  BY FS_CardinalityType, LabelsAssumption
<1>2. <<d>> \in Lists
  BY DEF Lists
<1>3. step \in [1 .. n -> [Lists -> Lists]]
  BY ClimbedIs
<1>4. Lineage(d) = up[n - 1]
  BY DEF Lineage, Lineages, Climbed
<1>5. \A i \in 1 .. n, s \in Lists : step[i][s] = Climbed(s)
  OBVIOUS
<1> HIDE DEF n, step
<1>6. PICK v \in [0 .. n -> Lists] : Iteration(v, <<d>>, n, step)
  BY <1>1, <1>2, <1>3, Iterates
<1>7. \A i \in 1 .. n : v[i] = Climbed(v[i - 1])
  <2> SUFFICES ASSUME NEW i \in 1 .. n PROVE v[i] = Climbed(v[i - 1])
    OBVIOUS
  <2>1. i - 1 \in 0 .. n
    BY <1>1
  <2> QED BY <1>5, <1>6, <2>1 DEF Iteration
<1>8. v[0] = <<d>>
  BY <1>6 DEF Iteration
<1>9. IsUp(v)
  <2>1. \A i \in 0 .. n : v[i] = IF i = 0 THEN <<d>> ELSE Climbed(v[i - 1])
    <3> SUFFICES ASSUME NEW i \in 0 .. n
                 PROVE  v[i] = IF i = 0 THEN <<d>> ELSE Climbed(v[i - 1])
      OBVIOUS
    <3>1. i # 0 => i \in 1 .. n
      BY <1>1
    <3> QED BY <1>7, <1>8, <3>1
  <2> QED BY <2>1
<1>10. IsUp(up)
  <2> HIDE DEF IsUp
  <2> QED BY <1>9
<1> HIDE DEF up
<1>11. \A i \in 0 .. n : up[i] = IF i = 0 THEN <<d>> ELSE Climbed(up[i - 1])
  BY <1>10
<1>12. DOMAIN up = 0 .. n /\ up = [i \in 0 .. n |-> up[i]]
  BY <1>10
<1> HIDE DEF IsUp
<1>13. up[0] = <<d>> /\ \A i \in 1 .. n : up[i] = Climbed(up[i - 1])
  <2>1. 0 \in 0 .. n /\ \A i \in 1 .. n : i \in 0 .. n /\ i # 0
    BY <1>1
  <2> QED BY <1>11, <2>1
<1> DEFINE G == {i \in 0 .. n : up[i] \in Lists}
<1>14. 0 \in G
  BY <1>1, <1>2, <1>13
<1>15. \A i \in 0 .. n : i \in G /\ i < n => i + 1 \in G
  <2> SUFFICES ASSUME NEW i \in 0 .. n, i \in G, i < n PROVE i + 1 \in G
    OBVIOUS
  <2>1. i + 1 \in 1 .. n /\ i + 1 \in 0 .. n /\ (i + 1) - 1 = i
    BY <1>1
  <2>2. up[i + 1] = Climbed(up[i])
    BY <1>13, <2>1
  <2> QED BY <2>1, <2>2, ClimbedIs
<1> HIDE DEF G
<1>16. 0 .. n \subseteq G
  BY <1>1, <1>14, <1>15, CountedUp
<1>17. up \in [0 .. n -> Lists]
  BY <1>12, <1>16 DEF G
<1>18. Climb(d, up)
  BY <1>13, <1>17 DEF Climb, n
<1> QED BY <1>4, <1>18 DEF n

\* Documents with their parents.
Closed(D) == \A e \in D : Parent[e] \in D \cup {NoDoc}

\* The list holds the document, and whatever is above one it holds; for it has
\* either come to the top, or taken a document more with each step.
LEMMA LineageClosed ==
    ASSUME NEW d \in Doc
    PROVE  /\ Lineage(d) \in Lists /\ d \in ToSet(Lineage(d))
           /\ Closed(ToSet(Lineage(d)))
<1> DEFINE n == Cardinality(Doc)
<1>1. IsFiniteSet(Doc) /\ n \in Nat /\ n # 0 /\ NoDoc \notin Doc
  BY FS_CardinalityType, FS_EmptySet, LabelsAssumption
<1>2. PICK up : Climb(d, up) /\ Lineage(d) = up[n - 1]
  BY LineageClimbs
<1> HIDE DEF n
<1>3. \A i \in 0 .. n : up[i] \in Lists
  BY <1>2 DEF Climb, n
<1>4. up[0] = <<d>> /\ \A i \in 1 .. n : up[i] = Climbed(up[i - 1])
  BY <1>2 DEF Climb, n
<1> DEFINE A(i) == ToSet(up[i])
           Open(i) == \A e \in A(i) : e = Last(up[i]) \/ Parent[e] \in A(i) \cup {NoDoc}
           G == {i \in 0 .. n : /\ d \in A(i) /\ IsFiniteSet(A(i)) /\ Open(i)
                                /\ Closed(A(i)) \/ Cardinality(A(i)) = i + 1}
<1>5. 0 \in G
  <2>1. A(0) = {d} /\ Last(up[0]) = d
    BY <1>4 DEF ToSet, Last
  <2>2. IsFiniteSet({d}) /\ Cardinality({d}) = 1
    BY FS_Singleton
  <2> HIDE DEF A
  <2> QED BY <1>1, <2>1, <2>2
<1>6. \A i \in 0 .. n : i \in G /\ i < n => i + 1 \in G
  <2> SUFFICES ASSUME NEW i \in 0 .. n, i \in G, i < n PROVE i + 1 \in G
    OBVIOUS
  <2> DEFINE p == Parent[Last(up[i])]
  <2>1. i + 1 \in 1 .. n /\ i + 1 \in 0 .. n /\ (i + 1) - 1 = i
    BY <1>1
  <2>2. up[i + 1] = Climbed(up[i]) /\ up[i] \in Lists
    BY <1>3, <1>4, <2>1
  <2>3. /\ p = NoDoc => up[i + 1] = up[i]
        /\ p # NoDoc => A(i + 1) = A(i) \cup {p} /\ Last(up[i + 1]) = p
    BY <2>2, ClimbedIs
  <2>4. Last(up[i]) \in A(i)
    BY <2>2, LastIs
  <2>5. /\ d \in A(i) /\ IsFiniteSet(A(i)) /\ Open(i)
        /\ Closed(A(i)) \/ Cardinality(A(i)) = i + 1
    OBVIOUS
  <2>6. CASE p = NoDoc
    <3>1. Closed(A(i))
      BY <2>5, <2>6 DEF Closed
    <3> QED BY <2>1, <2>3, <2>5, <2>6, <3>1
  <2>7. CASE p \in A(i)
    <3>1. A(i + 1) = A(i)
      BY <2>3, <2>7
    <3>2. Closed(A(i))
      BY <2>5, <2>7 DEF Closed
    <3> HIDE DEF A
    <3> QED BY <2>1, <2>5, <3>1, <3>2 DEF Closed
  <2>8. CASE p # NoDoc /\ p \notin A(i)
    <3>1. A(i + 1) = A(i) \cup {p} /\ Last(up[i + 1]) = p
      BY <2>3, <2>8
    <3>2. Cardinality(A(i)) = i + 1
      BY <2>4, <2>5, <2>8 DEF Closed
    <3>3. IsFiniteSet(A(i + 1)) /\ Cardinality(A(i + 1)) = (i + 1) + 1
      <4> HIDE DEF A
      <4> QED BY <2>5, <2>8, <3>1, <3>2, FS_AddElement
    <3>4. Open(i + 1)
      <4> HIDE DEF A
      <4> QED BY <2>5, <3>1
    <3> HIDE DEF A
    <3> QED BY <2>1, <2>5, <3>1, <3>3, <3>4
  <2> QED BY <2>6, <2>7, <2>8
<1> HIDE DEF G
<1>7. 0 .. n \subseteq G
  BY <1>1, <1>5, <1>6, CountedUp
<1>8. n - 1 \in 0 .. n
  BY <1>1
<1>9. /\ d \in A(n - 1)
      /\ Closed(A(n - 1)) \/ Cardinality(A(n - 1)) = (n - 1) + 1
  BY <1>7, <1>8 DEF G
<1>10. up[n - 1] \in Lists
  BY <1>3, <1>8
<1>11. A(n - 1) \subseteq Doc
  BY <1>10, LastIs
<1>12. Closed(A(n - 1))
  <2>1. CASE Cardinality(A(n - 1)) = (n - 1) + 1
    <3>1. Cardinality(A(n - 1)) = Cardinality(Doc)
      BY <1>1, <2>1 DEF n
    <3>2. A(n - 1) = Doc
      <4> HIDE DEF A
      <4> QED BY <1>1, <1>11, <3>1, FS_Subset
    <3> HIDE DEF A
    <3> QED BY <3>2, LabelsAssumption DEF Closed
  <2> QED BY <1>9, <2>1
<1> QED BY <1>2, <1>9, <1>10, <1>12

\* Nothing else is in the list.
LEMMA LineageLeast ==
    ASSUME NEW d \in Doc, NEW D, d \in D, Closed(D)
    PROVE  ToSet(Lineage(d)) \subseteq D
<1> DEFINE n == Cardinality(Doc)
<1>1. IsFiniteSet(Doc) /\ n \in Nat /\ n # 0
  BY FS_CardinalityType, FS_EmptySet, LabelsAssumption
<1>2. PICK up : Climb(d, up) /\ Lineage(d) = up[n - 1]
  BY LineageClimbs
<1> HIDE DEF n
<1>3. \A i \in 0 .. n : up[i] \in Lists
  BY <1>2 DEF Climb, n
<1>4. up[0] = <<d>> /\ \A i \in 1 .. n : up[i] = Climbed(up[i - 1])
  BY <1>2 DEF Climb, n
<1> DEFINE G == {i \in 0 .. n : ToSet(up[i]) \subseteq D}
<1>5. 0 \in G
  <2>1. ToSet(up[0]) = {d}
    BY <1>4 DEF ToSet
  <2> QED BY <1>1, <2>1
<1>6. \A i \in 0 .. n : i \in G /\ i < n => i + 1 \in G
  <2> SUFFICES ASSUME NEW i \in 0 .. n, i \in G, i < n PROVE i + 1 \in G
    OBVIOUS
  <2> DEFINE p == Parent[Last(up[i])]
  <2>1. i + 1 \in 1 .. n /\ i + 1 \in 0 .. n /\ (i + 1) - 1 = i
    BY <1>1
  <2>2. up[i + 1] = Climbed(up[i]) /\ up[i] \in Lists
    BY <1>3, <1>4, <2>1
  <2>3. /\ p = NoDoc => up[i + 1] = up[i]
        /\ p # NoDoc => ToSet(up[i + 1]) = ToSet(up[i]) \cup {p}
    BY <2>2, ClimbedIs
  <2>4. Last(up[i]) \in ToSet(up[i])
    BY <2>2, LastIs
  <2>5. p \in D \cup {NoDoc}
    BY <2>4 DEF Closed
  <2> QED BY <2>1, <2>3, <2>5
<1> HIDE DEF G
<1>7. 0 .. n \subseteq G
  BY <1>1, <1>5, <1>6, CountedUp
<1>8. n - 1 \in 0 .. n
  BY <1>1
<1> QED BY <1>2, <1>7, <1>8 DEF G

\* An ancestor's ancestor is an ancestor.
LEMMA AncestorsAbove ==
    ASSUME NEW c \in Doc, NEW d \in ToSet(Lineage(c))
    PROVE  d \in Doc /\ ToSet(Lineage(d)) \subseteq ToSet(Lineage(c))
<1>1. Lineage(c) \in Lists /\ Closed(ToSet(Lineage(c)))
  BY LineageClosed
<1>2. d \in Doc
  BY <1>1, LastIs
<1> QED BY <1>1, <1>2, LineageLeast

-----------------------------------------------------------------------------
(* Labels nobody defines.                                                  *)

\* Definitions count where no document on the way up takes any key.
Agree(definitions, others) == \A e \in Doc \ Freeform : definitions[e] = others[e]

LEMMA CountedAlike ==
    ASSUME NEW definitions, NEW others, Agree(definitions, others), NEW d \in Doc, ~AnyKey(d)
    PROVE  Allowed(definitions, d) = Allowed(others, d)
<1>1. ToSet(Lineage(d)) \subseteq Doc
  BY LineageClosed, LastIs
<1>2. \A e \in ToSet(Lineage(d)) : e \notin Freeform
  BY DEF AnyKey, IsAncestor
<1>3. \A e \in ToSet(Lineage(d)) : definitions[e] = others[e]
  BY <1>1, <1>2 DEF Agree
<1> QED BY <1>3 DEF Allowed

\* A label without a definition, in terms of what the documents above define.
LEMMA UndefinedMeans ==
    ASSUME NEW definitions, NEW set, NEW p \in Item \X Key
    PROVE  p \in Undefined(definitions, set) <=>
             /\ p[2] \in set[p[1]] /\ ~AnyKey(DocOf[p[1]])
             /\ p[2] \notin Allowed(definitions, DocOf[p[1]])
BY DEF Undefined, Valid

\* The nearest document that takes any key takes any key.
LEMMA NearestTakesAny ==
    ASSUME NEW d \in Doc, AnyKey(d)
    PROVE  Nearest(d) \in Freeform
<1> DEFINE L == Lineage(d)
           N == {n \in DOMAIN L : L[n] \in Freeform}
<1>1. L \in Seq(Doc)
  BY LineageClosed DEF Lists
<1>2. DOMAIN L \in SUBSET Nat
  BY <1>1
<1>3. N # {}
  BY DEF AnyKey, IsAncestor, ToSet
<1> HIDE DEF L
<1>4. N \in SUBSET Nat
  BY <1>2
<1>5. Min(N) \in N
  <2>1. \E n \in N : \A m \in N : n <= m
    <3> HIDE DEF N
    <3> QED BY <1>3, <1>4, Minimum
  <2> HIDE DEF N
  <2> QED BY <2>1 DEF Min
<1> QED BY <1>5 DEF Nearest, L

\* So a promotion changes nothing that counts, whatever the service has cached.
LEMMA PromoteAgrees ==
    ASSUME FilesOK, NEW s \in Service, NEW d \in Doc, NEW observed \in SUBSET Key,
           Promote(s, d, observed)
    PROVE  /\ Agree(defs', defs)
           /\ Agree(cache[s], defs) => Agree(cache'[s], defs')
           /\ \A t \in Service : Agree(cache[t], defs) => Agree(cache'[t], defs')
<1> DEFINE written == Promoted(cache[s], d, observed)
           missing == observed \ Allowed(cache[s], d)
<1>1. /\ defs \in Definitions /\ cache \in [Service -> Definitions] /\ cache[s] \in Definitions
  BY DEF FilesOK
<1>2. written = cache[s] \/ (AnyKey(d) /\ written = [cache[s] EXCEPT ![Nearest(d)] = @ \cup missing])
  BY DEF Promoted
<1> HIDE DEF missing
<1>3. \A e \in Doc \ Freeform : written[e] = cache[s][e]
  BY <1>1, <1>2, NearestTakesAny DEF Definitions
<1>4. \/ UNCHANGED <<defs, cache>>
      \/ /\ defs' = [e \in Doc |-> IF written[e] = cache[s][e] THEN defs[e] ELSE written[e]]
         /\ cache' = [cache EXCEPT ![s] = defs']
  BY DEF Promote
<1> HIDE DEF written
<1>5. Agree(defs', defs)
  BY <1>3, <1>4 DEF Agree
<1>6. ASSUME NEW t \in Service, Agree(cache[t], defs) PROVE Agree(cache'[t], defs')
  <2>1. cache'[t] = cache[t] \/ cache'[t] = defs'
    BY <1>1, <1>4
  <2> QED BY <1>5, <1>6, <2>1 DEF Agree
<1> QED BY <1>5, <1>6

LEMMA AgreeUndefined ==
    ASSUME NEW definitions, NEW others, Agree(definitions, others), NEW set,
           DocOf \in [Item -> Doc]
    PROVE  Undefined(definitions, set) = Undefined(others, set)
<1>1. ASSUME NEW p \in Item \X Key
      PROVE  p \in Undefined(definitions, set) <=> p \in Undefined(others, set)
  <2>1. DocOf[p[1]] \in Doc
    OBVIOUS
  <2> QED BY <2>1, CountedAlike, UndefinedMeans
<1>2. Undefined(definitions, set) \subseteq Item \X Key /\ Undefined(others, set) \subseteq Item \X Key
  BY DEF Undefined
<1> QED BY <1>1, <1>2

\* What an update does not settle: labels that lose their definition, are not
\* replaced on the requirements and were not left undefined on purpose.
Unsettled(d, original, keys, changes, removed, declined) ==
    LET map == RenameMap(original, keys, changes)
        gone == RemovalTargets(original, keys, removed)
    IN  {l \in Key : /\ l \notin DOMAIN map \cup gone
                     /\ \/ l \in DOMAIN Propagated(changes)
                        \/ l \in defs[d] \ keys /\ l \notin declined}

\* An update that settles every label of a document whose definitions count leaves
\* no requirement with a label nobody defines and nobody knows of: the requirements
\* it rewrites are validated, and the others keep labels it does not touch.
LEMMA UpdateSettles ==
    ASSUME FilesOK, NEW s \in Service, NEW d \in Doc, NEW original, NEW keys \in SUBSET Key,
           NEW changes \in Answers, NEW removed, NEW wish, NEW declined,
           UpdateLabels(s, d, original, keys, changes, removed, wish, declined),
           d \notin Freeform => Unsettled(d, original, keys, changes, removed, declined) = {},
           UndefinedIsKnown
    PROVE  UndefinedIsKnown'
<1> DEFINE map == RenameMap(original, keys, changes)
           gone == RemovalTargets(original, keys, removed)
           all == Propagated(changes)
           definitions == Redefined(d, keys, all)
           new == [i \in Item |-> IF DocOf[i] \in Subtree(d) THEN Replace(labels[i], map, gone)
                                 ELSE labels[i]]
           changed == {i \in ItemsOf(Subtree(d)) : labels[i] \cap (DOMAIN map \cup gone) # {}}
           bad == {i \in changed : ~Valid(definitions, DocOf[i], new[i])}
<1>1. PICK r \in Rewritten(d, definitions, map, gone) :
         /\ defs' = definitions /\ labels' = r.labels
         /\ LET undefined == Undefined(definitions, r.labels)
            IN known' = undefined \cap (known \cup
                 {p \in undefined : \/ ~r.ok
                                    \/ p[1] \in ItemsOf(Subtree(d)) /\ p[2] \in declined})
  BY DEF UpdateLabels
<1>2. r.ok => r.labels = new /\ bad = {}
  <2> DEFINE Until(f, D) == {i \in changed : DocOf[i] \in D \/ (DocOf[i] = DocOf[f] /\ i < f)}
             W == {v \in bad \X SUBSET Doc : DocOf[v[1]] \notin v[2]
                                             /\ Until(v[1], v[2]) \cap bad = {}}
  <2>1. Rewritten(d, definitions, map, gone) =
          IF bad = {} THEN {[ok |-> TRUE, labels |-> new]}
          ELSE {[ok |-> FALSE, labels |-> [i \in Item |-> IF i \in Until(w[1], w[2]) THEN new[i]
                                                          ELSE labels[i]]] : w \in W}
    BY DEF Rewritten
  <2> HIDE DEF new, bad, Until, W, definitions, map, gone
  <2> QED BY <2>1
<1>3. DocOf \in [Item -> Doc] /\ labels \in LabelSets /\ defs \in Definitions
  BY LabelsAssumption DEF FilesOK
<1> SUFFICES ASSUME NEW p \in Undefined(definitions, r.labels), r.ok, p \notin known
             PROVE  p[1] \in ItemsOf(Subtree(d)) /\ p[2] \in declined
  <2> HIDE DEF definitions, map, gone, new, bad
  <2> QED BY <1>1 DEF UndefinedIsKnown
<1> DEFINE i == p[1]
           l == p[2]
           c == DocOf[i]
<1>4. i \in Item /\ l \in Key /\ p \in Item \X Key /\ c \in Doc
  BY <1>3 DEF Undefined
<1>5. l \in new[i] /\ ~AnyKey(c) /\ l \notin Allowed(definitions, c)
  BY <1>2, <1>4, UndefinedMeans
<1>6. ~(l \in labels[i] /\ l \notin Allowed(defs, c))
  BY <1>4, <1>5, UndefinedMeans DEF UndefinedIsKnown
<1> HIDE DEF definitions, new, map, gone, bad, changed
<1>7. i \in ItemsOf(Subtree(d)) <=> c \in Subtree(d)
  BY <1>4 DEF ItemsOf
<1>8. new[i] = IF c \in Subtree(d) THEN Replace(labels[i], map, gone) ELSE labels[i]
  BY <1>4 DEF new
<1>9. \A e \in Doc : definitions[e] = IF e = d THEN keys
                                     ELSE IF e \in Subtree(d) THEN Replace(defs[e], all, {}) ELSE defs[e]
  BY DEF definitions, Redefined
<1>10. ToSet(Lineage(c)) \subseteq Doc /\ \A e \in ToSet(Lineage(c)) : e \notin Freeform
  BY <1>4, <1>5, LineageClosed, LastIs DEF AnyKey, IsAncestor
<1>11. CASE c \notin Subtree(d)
  <2>1. \A e \in ToSet(Lineage(c)) : e # d /\ e \notin Subtree(d)
    <3> SUFFICES ASSUME NEW e \in ToSet(Lineage(c)), e = d \/ e \in Subtree(d) PROVE FALSE
      OBVIOUS
    <3>1. d \in ToSet(Lineage(e))
      BY <1>10, LineageClosed DEF Subtree, IsAncestor
    <3>2. d \in ToSet(Lineage(c))
      BY <1>4, <3>1, AncestorsAbove
    <3> QED BY <1>4, <1>11, <3>2 DEF Subtree, IsAncestor
  <2>2. Allowed(definitions, c) = Allowed(defs, c)
    BY <1>9, <1>10, <2>1 DEF Allowed
  <2> QED BY <1>5, <1>6, <1>8, <1>11, <2>2
<1>12. CASE c \in Subtree(d)
  <2>1. d \in ToSet(Lineage(c))
    BY <1>12 DEF Subtree, IsAncestor
  <2>2. d \notin Freeform
    BY <1>10, <2>1
  <2>3. i \notin changed
    <3> SUFFICES ASSUME i \in changed PROVE FALSE
      OBVIOUS
    <3>1. Valid(definitions, c, new[i])
      BY <1>2 DEF bad
    <3> QED BY <1>5, <3>1 DEF Valid
  <2>4. labels[i] \cap (DOMAIN map \cup gone) = {}
    BY <1>7, <1>12, <2>3 DEF changed
  <2>5. new[i] = labels[i]
    BY <1>8, <1>12, <2>4 DEF Replace
  <2>6. l \in labels[i] /\ l \in Allowed(defs, c) /\ l \notin DOMAIN map \cup gone
    BY <1>5, <1>6, <2>4, <2>5
  <2>7. PICK e \in ToSet(Lineage(c)) : l \in defs[e]
    BY <2>6 DEF Allowed
  <2>8. l \notin definitions[e] /\ e \in Doc
    BY <1>5, <1>10, <2>7 DEF Allowed
  <2>9. Unsettled(d, original, keys, changes, removed, declined) = {}
    BY <2>2
  <2>10. l \notin DOMAIN all
    BY <1>4, <2>6, <2>9 DEF Unsettled, map, gone
  <2>11. e = d
    <3> SUFFICES ASSUME e # d PROVE FALSE
      OBVIOUS
    <3>1. l \notin Replace(defs[e], all, {})
      BY <1>9, <2>7, <2>8
    <3> HIDE DEF all
    <3> QED BY <2>7, <2>10, <3>1 DEF Replace
  <2>12. l \in defs[d] \ keys
    BY <1>9, <2>7, <2>8, <2>11
  <2>13. l \in declined
    BY <1>4, <2>6, <2>9, <2>12 DEF Unsettled, map, gone
  <2> QED BY <1>7, <1>12, <2>13
<1> QED BY <1>11, <1>12

\* Each label the dialog has loaded is still what its row says, or the user was
\* asked about it: he wants another one or none in its place, or none of that.
Heard(D, loaded) ==
    \A l \in loaded : \/ D.wish[l] # {l} \/ l \in D.declined
                      \/ l \in DOMAIN D.rows /\ D.rows[l] = l

LEMMA OpenedHeard ==
    ASSUME NEW d, NEW original, NEW keys
    PROVE  Heard(Opened(d, original, keys), keys)
BY DEF Opened, Heard

LEMMA AddLabelHeard ==
    ASSUME Types, NEW k \in Key, AddLabel(k), NEW loaded \in SUBSET Key, Heard(dialog, loaded)
    PROVE  Heard(dialog', loaded)
<1> DEFINE D == dialog
           E == dialog'
<1>1. D \in Dialogs
  BY DEF Types
<1>2. k \notin DOMAIN D.rows
  BY DEF AddLabel
<1>3. E.rows = With(D.rows, k, NoKey) /\ E.wish = D.wish /\ E.declined = D.declined
  BY <1>1, <1>2, DialogSet DEF AddLabel, Edited
<1>4. \A l \in DOMAIN D.rows : l \in DOMAIN E.rows /\ E.rows[l] = D.rows[l]
  BY <1>2, <1>3 DEF With
<1> HIDE DEF E
<1> QED BY <1>3, <1>4 DEF Heard, E

LEMMA RetitleLabelHeard ==
    ASSUME Types, NEW k \in Key, RetitleLabel(k), NEW loaded \in SUBSET Key, Heard(dialog, loaded)
    PROVE  Heard(dialog', loaded)
<1>1. dialog \in Dialogs
  BY DEF Types
<1>2. dialog'.rows = dialog.rows /\ dialog'.wish = dialog.wish /\ dialog'.declined = dialog.declined
  BY <1>1, DialogSet DEF RetitleLabel, Edited
<1> QED BY <1>2 DEF Heard

LEMMA RenameLabelHeard ==
    ASSUME Types, NEW k \in Key, NEW new \in Key, NEW yes \in BOOLEAN, RenameLabel(k, new, yes),
           NEW loaded \in SUBSET Key, Heard(dialog, loaded)
    PROVE  Heard(dialog', loaded)
<1> DEFINE D == dialog
           E == dialog'
           was == D.rows[k]
<1>1. D \in Dialogs /\ NoKey \notin Key
  BY LabelsAssumption DEF Types
<1>2. k \in DOMAIN D.rows /\ new \notin DOMAIN D.rows /\ k # new
  BY DEF RenameLabel
<1>3. /\ E.rows = With(Without(D.rows, k), new, was)
      /\ E.wish = IF was = NoKey THEN D.wish
                  ELSE [D.wish EXCEPT ![was] = IF yes THEN {new} ELSE {was}]
      /\ E.declined = IF yes \/ new = was THEN D.declined \ {was} ELSE D.declined \cup {was}
  BY <1>1, DialogSet DEF RenameLabel, Edited
<1>4. /\ new \in DOMAIN E.rows /\ E.rows[new] = was
      /\ \A l \in DOMAIN D.rows : l # k => l \in DOMAIN E.rows /\ E.rows[l] = D.rows[l]
  BY <1>2, <1>3 DEF With, Without
<1>5. D.wish \in Wishes
  BY <1>1 DEF Dialogs
<1> HIDE DEF E
<1>6. ASSUME NEW l \in loaded
      PROVE  E.wish[l] # {l} \/ l \in E.declined \/ (l \in DOMAIN E.rows /\ E.rows[l] = l)
  <2>1. l \in Key /\ (D.wish[l] # {l} \/ l \in D.declined \/ (l \in DOMAIN D.rows /\ D.rows[l] = l))
    BY DEF Heard
  <2>2. CASE l = was
    <3>1. E.wish[l] = IF yes THEN {new} ELSE {l}
      BY <1>1, <1>3, <1>5, <2>1, <2>2 DEF Wishes
    <3>2. CASE new = l
      BY <1>4, <2>2, <3>2
    <3>3. CASE new # l
      BY <1>3, <2>2, <3>1, <3>3
    <3> QED BY <3>2, <3>3
  <2>3. CASE l # was
    <3>1. E.wish[l] = D.wish[l]
      BY <1>3, <1>5, <2>1, <2>3 DEF Wishes
    <3>2. l \in D.declined => l \in E.declined
      BY <1>3, <2>3
    <3>3. l \in DOMAIN D.rows /\ D.rows[l] = l => l # k
      BY <2>3
    <3> QED BY <1>4, <2>1, <3>1, <3>2, <3>3
  <2> QED BY <2>2, <2>3
<1> QED BY <1>6 DEF Heard, E

LEMMA DeleteLabelsHeard ==
    ASSUME Types, NEW K \in SUBSET Key, NEW yes \in BOOLEAN, DeleteLabels(K, yes),
           NEW loaded \in SUBSET Key, Heard(dialog, loaded)
    PROVE  Heard(dialog', loaded)
<1> DEFINE D == dialog
           E == dialog'
           W == {D.rows[k] : k \in K} \ {NoKey}
<1>1. D \in Dialogs /\ NoKey \notin Key
  BY LabelsAssumption DEF Types
<1>2. K \subseteq DOMAIN D.rows
  BY DEF DeleteLabels
<1>3. /\ E.rows = [k \in DOMAIN D.rows \ K |-> D.rows[k]]
      /\ E.wish = [k \in Key |-> IF k \in W THEN IF yes THEN {} ELSE {k} ELSE D.wish[k]]
      /\ E.declined = IF yes THEN D.declined \ W ELSE D.declined \cup W
  BY <1>1, DialogSet DEF DeleteLabels, Edited
<1>4. \A k \in K : D.rows[k] # NoKey => D.rows[k] \in W
  OBVIOUS
<1> HIDE DEF E, W
<1>5. ASSUME NEW l \in loaded
      PROVE  E.wish[l] # {l} \/ l \in E.declined \/ (l \in DOMAIN E.rows /\ E.rows[l] = l)
  <2>1. /\ l \in Key /\ l # NoKey
        /\ D.wish[l] # {l} \/ l \in D.declined \/ (l \in DOMAIN D.rows /\ D.rows[l] = l)
    BY <1>1 DEF Heard
  <2>2. CASE l \in W
    BY <1>3, <2>1, <2>2
  <2>3. CASE l \notin W
    <3>1. E.wish[l] = D.wish[l] /\ (l \in D.declined => l \in E.declined)
      BY <1>3, <2>1, <2>3
    <3>2. l \in DOMAIN D.rows /\ D.rows[l] = l => l \notin K
      BY <1>4, <2>1, <2>3
    <3> QED BY <1>3, <2>1, <3>1, <3>2
  <2> QED BY <2>2, <2>3
<1> QED BY <1>5 DEF Heard, E

-----------------------------------------------------------------------------
(* The files, the dialog and the editor between two steps.                  *)

\* No use that lets a label fall through unnoticed.
AttentiveUses == PlainDialog /\ Uses \cap {"strict", "during", "stale"} = {}

\* The dialog has asked about each definition it was filled with; the editor holds
\* only requirements that may carry any label.
Attentive ==
    /\ Distinct(dialog) /\ Faithful(dialog)
    /\ Modal => Heard(dialog, dialog.loaded)
    /\ editor.item # 0 => current \in Freeform /\ DocOf[editor.item] = current
    /\ UndefinedIsKnown

\* A step that touches neither files nor what is known of them.
LEMMA StillKnown ==
    ASSUME UndefinedIsKnown, defs' = defs, labels' = labels, known' = known
    PROVE  UndefinedIsKnown'
BY DEF UndefinedIsKnown, Undefined, Valid, AnyKey, IsAncestor, Allowed, Lineage

LEMMA PromotedKnown ==
    ASSUME UndefinedIsKnown, DocOf \in [Item -> Doc], Agree(defs', defs), labels' = labels,
           known' = known
    PROVE  UndefinedIsKnown'
<1>1. Undefined(defs', labels) = Undefined(defs, labels)
  BY AgreeUndefined
<1> QED BY <1>1 DEF UndefinedIsKnown

LEMMA SettingsAre ==
    ASSUME AttentiveUses
    PROVE  /\ "strict" \notin Uses /\ "during" \notin Uses /\ "stale" \notin Uses
           /\ "reused" \notin Uses /\ "retitled" \notin Uses
BY DEF AttentiveUses, PlainDialog

\* The windows' own actions on files and editor.
LEMMA EditorAttentive ==
    ASSUME Types, Attentive, AttentiveUses,
           \/ \E d \in Doc : SelectDocument(d)
           \/ \E i \in Item : SelectRequirement(i)
           \/ \E k \in Key : PickLabel(k)
           \/ SaveRequirement \/ DiscardEdits
    PROVE  /\ ~Modal /\ dialog' = dialog
           /\ editor'.item # 0 => current' \in Freeform /\ DocOf[editor'.item] = current'
           /\ UndefinedIsKnown'
<1>1. "strict" \notin Uses
  BY SettingsAre
<1>2. ASSUME NEW d \in Doc, SelectDocument(d)
      PROVE  /\ ~Modal /\ dialog' = dialog /\ editor'.item = 0
             /\ defs' = defs /\ labels' = labels /\ known' = known
  BY <1>2 DEF SelectDocument, NoEditor, files
<1>3. ASSUME NEW i \in Item, SelectRequirement(i)
      PROVE  /\ ~Modal /\ dialog' = dialog /\ current' = current
             /\ editor'.item = i /\ current \in Freeform /\ DocOf[i] = current
             /\ defs' = defs /\ labels' = labels /\ known' = known
  BY <1>1, <1>3 DEF SelectRequirement, Loaded, Fits, files, history
<1>4. editor \in Editors
  BY DEF Types, ScreenOK
<1>5. ASSUME NEW k \in Key, PickLabel(k)
      PROVE  /\ ~Modal /\ dialog' = dialog /\ current' = current /\ editor'.item = editor.item
             /\ defs' = defs /\ labels' = labels /\ known' = known
  BY <1>4, <1>5 DEF PickLabel, Editors, files, history
<1>6. ASSUME DiscardEdits
      PROVE  /\ ~Modal /\ dialog' = dialog /\ current' = current /\ editor'.item = editor.item
             /\ defs' = defs /\ labels' = labels /\ known' = known
  BY <1>6 DEF DiscardEdits, Loaded, files, history
<1>7. ASSUME SaveRequirement
      PROVE  /\ ~Modal /\ dialog' = dialog /\ current' = current /\ editor'.item = editor.item
             /\ UndefinedIsKnown'
  <2>1. /\ ~Modal /\ dialog' = dialog /\ current' = current /\ editor.item # 0
        /\ labels' = [labels EXCEPT ![editor.item] = editor.labels]
        /\ defs' = defs /\ known' = known
    BY <1>7 DEF SaveRequirement, history
  <2>2. editor'.item = editor.item
    BY <1>7 DEF SaveRequirement, Listed, Loaded
  <2>3. current \in Freeform /\ DocOf[editor.item] = current /\ current \in Doc
    BY <2>1 DEF Attentive, Types, ScreenOK
  <2>4. AnyKey(current)
    BY <2>3, LineageClosed DEF AnyKey, IsAncestor
  <2>5. Undefined(defs, labels') \subseteq Undefined(defs, labels)
    <3> SUFFICES ASSUME NEW p \in Undefined(defs, labels')
                 PROVE  p \in Undefined(defs, labels)
      OBVIOUS
    <3>1. p \in Item \X Key
      BY DEF Undefined
    <3>2. p[1] # editor.item
      BY <2>3, <2>4, <3>1, UndefinedMeans
    <3>3. labels'[p[1]] = labels[p[1]]
      BY <2>1, <3>1, <3>2 DEF Types, FilesOK, LabelSets
    <3> QED BY <3>1, <3>3, UndefinedMeans
  <2>6. UndefinedIsKnown'
    BY <2>1, <2>5 DEF Attentive, UndefinedIsKnown
  <2> QED BY <2>1, <2>2, <2>6
<1> QED BY <1>2, <1>3, <1>5, <1>6, <1>7, StillKnown DEF Attentive

LEMMA OpenAttentive ==
    ASSUME Types, Attentive, OpenDialog \/ \E d \in Doc : SwitchDocument(d)
    PROVE  /\ Heard(dialog', dialog'.loaded)
           /\ current' = current /\ editor' = editor /\ UndefinedIsKnown'
<1>1. PICK d, original :
         /\ d \in Doc /\ Sync("gui", d) /\ dialog' = Opened(d, original, cache'["gui"][d])
         /\ labels' = labels /\ current' = current /\ editor' = editor /\ known' = known
  <2>1. CASE OpenDialog
    <3>1. current \in Doc
      BY DEF Types, ScreenOK
    <3> QED BY <2>1, <3>1 DEF OpenDialog, screen, history
  <2>2. CASE \E d \in Doc : SwitchDocument(d)
    BY <2>2 DEF SwitchDocument, screen, history
  <2> QED BY <2>1, <2>2
<1>2. FilesOK /\ DocOf \in [Item -> Doc] /\ "gui" \in Service
  BY LabelsAssumption DEF Types, Service
<1>3. UNION {labels[i] : i \in ItemsOf({d})} \in SUBSET Key
  BY <1>2 DEF FilesOK, LabelSets, ItemsOf
<1>4. Agree(defs', defs)
  BY <1>1, <1>2, <1>3, PromoteAgrees DEF Sync
<1>5. UndefinedIsKnown'
  BY <1>1, <1>2, <1>4, PromotedKnown DEF Attentive
<1>6. dialog'.loaded = cache'["gui"][d]
  BY <1>1 DEF Opened
<1> QED BY <1>1, <1>5, <1>6, OpenedHeard

Edits ==
    /\ Modal /\ dialog'.doc = dialog.doc /\ dialog'.loaded = dialog.loaded
    /\ UNCHANGED <<files, screen, results, history>>

LEMMA RowsEdit ==
    ASSUME Types,
           \/ \E k \in Key : AddLabel(k) \/ RetitleLabel(k)
           \/ \E k, new \in Key, yes \in BOOLEAN : RenameLabel(k, new, yes)
           \/ \E K \in SUBSET Key, yes \in BOOLEAN : DeleteLabels(K, yes)
    PROVE  Edits
<1>1. \A E : Edited(E) /\ E.doc = dialog.doc /\ E.loaded = dialog.loaded => Edits
  BY DEF Edited, Edits
<1>2. dialog \in Dialogs
  BY DEF Types
<1>3. \A k \in Key : AddLabel(k) => Edits
  <2> SUFFICES ASSUME NEW k \in Key, AddLabel(k) PROVE Edits
    OBVIOUS
  <2> DEFINE rows == With(dialog.rows, k, NoKey)
             lookup == IF k \in DOMAIN dialog.lookup THEN dialog.lookup
                       ELSE With(dialog.lookup, k, k)
             E == [dialog EXCEPT !.rows = rows, !.lookup = lookup]
  <2>1. Edited(E)
    BY DEF AddLabel
  <2> HIDE DEF rows, lookup
  <2>2. E.doc = dialog.doc /\ E.loaded = dialog.loaded
    BY <1>2, DialogSet
  <2> QED BY <1>1, <2>1, <2>2
<1>4. \A k \in Key : RetitleLabel(k) => Edits
  <2> SUFFICES ASSUME NEW k \in Key, RetitleLabel(k) PROVE Edits
    OBVIOUS
  <2> DEFINE changes == Without(dialog.changes, Original(k))
             E == [dialog EXCEPT !.changes = changes]
  <2>1. Edited(E)
    BY DEF RetitleLabel
  <2> HIDE DEF changes
  <2>2. E.doc = dialog.doc /\ E.loaded = dialog.loaded
    BY <1>2, DialogSet
  <2> QED BY <1>1, <2>1, <2>2
<1>5. \A k, new \in Key, yes \in BOOLEAN : RenameLabel(k, new, yes) => Edits
  <2> SUFFICES ASSUME NEW k \in Key, NEW new \in Key, NEW yes \in BOOLEAN,
                      RenameLabel(k, new, yes)
               PROVE  Edits
    OBVIOUS
  <2> DEFINE o == Original(k)
             was == dialog.rows[k]
             rows == With(Without(dialog.rows, k), new, was)
             lookup == With(Without(dialog.lookup, k), new, o)
             removed == Without(dialog.removed, o)
             changes == IF new = o THEN Without(dialog.changes, o)
                        ELSE With(dialog.changes, o, [to |-> new, yes |-> yes])
             wish == IF was = NoKey THEN dialog.wish
                     ELSE [dialog.wish EXCEPT ![was] = IF yes THEN {new} ELSE {was}]
             declined == IF yes \/ new = was THEN dialog.declined \ {was}
                         ELSE dialog.declined \cup {was}
             E == [dialog EXCEPT !.rows = rows, !.lookup = lookup, !.removed = removed,
                                 !.changes = changes, !.wish = wish, !.declined = declined]
  <2>1. Edited(E)
    BY DEF RenameLabel
  <2> HIDE DEF o, was, rows, lookup, removed, changes, wish, declined
  <2>2. E.doc = dialog.doc /\ E.loaded = dialog.loaded
    BY <1>2, DialogSet
  <2> QED BY <1>1, <2>1, <2>2
<1>6. \A K \in SUBSET Key, yes \in BOOLEAN : DeleteLabels(K, yes) => Edits
  <2> SUFFICES ASSUME NEW K \in SUBSET Key, NEW yes \in BOOLEAN, DeleteLabels(K, yes)
               PROVE  Edits
    OBVIOUS
  <2> DEFINE O == {Original(k) : k \in K}
             W == {dialog.rows[k] : k \in K} \ {NoKey}
             rows == [k \in DOMAIN dialog.rows \ K |-> dialog.rows[k]]
             lookup == [k \in DOMAIN dialog.lookup \ K |-> dialog.lookup[k]]
             removed == [o \in DOMAIN dialog.removed \cup O |-> IF o \in O THEN yes
                                                               ELSE dialog.removed[o]]
             changes == [o \in DOMAIN dialog.changes \ O |-> dialog.changes[o]]
             wish == [k \in Key |-> IF k \in W THEN IF yes THEN {} ELSE {k} ELSE dialog.wish[k]]
             declined == IF yes THEN dialog.declined \ W ELSE dialog.declined \cup W
             E == [dialog EXCEPT !.rows = rows, !.lookup = lookup, !.removed = removed,
                                 !.changes = changes, !.wish = wish, !.declined = declined]
  <2>1. Edited(E)
    BY DEF DeleteLabels
  <2> HIDE DEF rows, lookup, removed, changes, wish, declined
  <2>2. E.doc = dialog.doc /\ E.loaded = dialog.loaded
    BY <1>2, DialogSet
  <2> QED BY <1>1, <2>1, <2>2
<1> QED BY <1>3, <1>4, <1>5, <1>6

LEMMA DialogAttentive ==
    ASSUME Types, Attentive, Modal,
           \/ \E k \in Key : AddLabel(k) \/ RetitleLabel(k)
           \/ \E k, new \in Key, yes \in BOOLEAN : RenameLabel(k, new, yes)
           \/ \E K \in SUBSET Key, yes \in BOOLEAN : DeleteLabels(K, yes)
    PROVE  /\ Heard(dialog', dialog'.loaded)
           /\ current' = current /\ editor' = editor /\ UndefinedIsKnown'
<1>1. dialog \in Dialogs
  BY DEF Types
<1> DEFINE loaded == dialog.loaded
<1>2. loaded \in SUBSET Key /\ Heard(dialog, loaded)
  BY <1>1, DialogIs DEF Attentive
<1> HIDE DEF loaded
<1>3. Heard(dialog', loaded)
  BY <1>2, AddLabelHeard, RetitleLabelHeard, RenameLabelHeard, DeleteLabelsHeard
<1>4. Edits
  BY RowsEdit
<1>5. /\ dialog'.loaded = dialog.loaded /\ defs' = defs /\ labels' = labels /\ known' = known
      /\ current' = current /\ editor' = editor
  BY <1>4 DEF Edits, files, screen, history
<1> QED BY <1>3, <1>5, StillKnown DEF Attentive, loaded

\* What the user was not asked about when he closes the dialog keeps its row.
LEMMA ConfirmAttentive ==
    ASSUME Types, Attentive, AttentiveUses, ConfirmDialog
    PROVE  /\ dialog' = NoDialog /\ current' = current /\ editor'.item = editor.item
           /\ UndefinedIsKnown'
<1> DEFINE d == dialog.doc
           original == dialog.original
           keys == DOMAIN dialog.rows
           C == dialog.changes
           map == RenameMap(original, keys, C)
           gone == RemovalTargets(original, keys, dialog.removed)
<1>1. /\ FilesOK /\ d \in Doc /\ keys \in SUBSET Key /\ C \in Answers /\ "gui" \in Service
  BY DialogIs DEF Types, ConfirmDialog, Modal, Dialogs, Service
<1>2. UpdateLabels("gui", d, original, keys, C, dialog.removed, dialog.wish, dialog.declined)
  BY DEF ConfirmDialog
<1>3. Modal /\ dialog' = NoDialog /\ current' = current
  BY DEF ConfirmDialog
<1>4. defs[d] = dialog.loaded /\ Heard(dialog, dialog.loaded)
  BY <1>3, SettingsAre DEF Attentive, ConfirmDialog, Fits
<1>5. editor'.item = editor.item
  <2>1. Listed(editor, offered').item = editor.item
    BY DEF Listed, Types, ScreenOK, Editors
  <2> QED BY <2>1 DEF ConfirmDialog, Loaded
<1>6. \A l \in Key : dialog.wish[l] = Effect(map, gone, l)
  BY DialogWish DEF Attentive
<1>7. \A o \in DOMAIN C : C[o].yes => o \in original
  BY DEF Attentive, Faithful
<1>8. DOMAIN Propagated(C) \subseteq DOMAIN map
  BY <1>7 DEF RenameMap, Propagated
<1>9. d \notin Freeform => Unsettled(d, original, keys, C, dialog.removed, dialog.declined) = {}
  <2> SUFFICES ASSUME d \notin Freeform,
                      NEW l \in Unsettled(d, original, keys, C, dialog.removed, dialog.declined)
               PROVE  FALSE
    OBVIOUS
  <2>1. /\ l \in Key /\ l \notin DOMAIN map \cup gone
        /\ l \in DOMAIN Propagated(C) \/ (l \in defs[d] \ keys /\ l \notin dialog.declined)
    BY DEF Unsettled
  <2> HIDE DEF map, gone
  <2>2. l \in defs[d] \ keys /\ l \notin dialog.declined
    BY <1>8, <2>1
  <2>3. dialog.wish[l] # {l}
    BY <1>4, <2>2 DEF Heard
  <2> QED BY <1>6, <2>1, <2>3 DEF Effect
<1>10. UndefinedIsKnown'
  <2> HIDE DEF keys, C, d, original
  <2> QED BY <1>1, <1>2, <1>9, UpdateSettles DEF Attentive
<1> QED BY <1>3, <1>5, <1>10

LEMMA AgentAttentive ==
    ASSUME Types, Attentive, AttentiveUses, Agent
    PROVE  /\ dialog' = dialog /\ current' = current /\ editor' = editor
           /\ UndefinedIsKnown'
<1>1. "stale" \notin Uses /\ "agent" \in Service
  BY SettingsAre DEF Service
<1>2. Working => Agree(cache["agent"], defs)
  BY <1>1 DEF Working, Fits, UpToDate, Agree
<1>3. FilesOK /\ cache["agent"] \in Definitions /\ UndefinedIsKnown /\ DocOf \in [Item -> Doc]
  BY <1>1, LabelsAssumption DEF Types, FilesOK, Attentive
<1>4. \A d \in Doc : cache["agent"][d] \in SUBSET Key
  BY <1>3 DEF Definitions
<1>5. <<>> \in Answers /\ DOMAIN Propagated(<<>>) = {}
  BY EmptyFunction DEF Answers, Propagated
<1>6. ASSUME NEW d \in Doc, NEW k \in Key, CreateLabel(d, k)
      PROVE  UNCHANGED <<dialog, current, editor>> /\ UndefinedIsKnown'
  <2> DEFINE keys == cache["agent"][d]
             left == keys \cup {k}
  <2>1. /\ UpdateLabels("agent", d, keys, left, <<>>, <<>>, Keep, {})
        /\ Working /\ UNCHANGED <<dialog, current, editor>>
    BY <1>6 DEF CreateLabel, screen
  <2>2. left \in SUBSET Key
    BY <1>4
  <2>3. d \notin Freeform => Unsettled(d, keys, left, <<>>, <<>>, {}) = {}
    BY <1>2, <1>5, <2>1 DEF Unsettled, Agree
  <2> HIDE DEF left, keys
  <2>4. UndefinedIsKnown'
    BY <1>1, <1>3, <1>5, <2>1, <2>2, <2>3, UpdateSettles
  <2> QED BY <1>2, <2>1, <2>4
<1>7. ASSUME NEW d \in Doc, NEW k \in Key, NEW new \in Key, NEW yes \in BOOLEAN,
             UpdateLabel(d, k, new, yes)
      PROVE  UNCHANGED <<dialog, current, editor>> /\ UndefinedIsKnown'
  <2> DEFINE keys == cache["agent"][d]
             left == (keys \ {k}) \cup {new}
             changes == [l \in {k} |-> [to |-> new, yes |-> yes]]
             wish == [Keep EXCEPT ![k] = IF yes THEN {new} ELSE {k}]
             declined == IF yes THEN {} ELSE {k}
  <2>1. /\ UpdateLabels("agent", d, keys, left, changes, <<>>, wish, declined)
        /\ Working /\ k \in keys /\ new \notin keys
        /\ UNCHANGED <<dialog, current, editor>>
    BY <1>7 DEF UpdateLabel, screen
  <2>2. left \in SUBSET Key
    BY <1>4
  <2>3. changes \in Answers
    <3>1. changes \in [{k} -> [to : Key, yes : BOOLEAN]]
      OBVIOUS
    <3> HIDE DEF changes
    <3> QED BY <3>1 DEF Answers
  <2>4. d \notin Freeform => keys = defs[d]
    BY <1>2, <2>1 DEF Agree
  <2> HIDE DEF keys
  <2>5. DOMAIN changes = {k} /\ changes[k].yes = yes /\ changes[k].to = new
    OBVIOUS
  <2> HIDE DEF changes
  <2>6. DOMAIN Propagated(changes) = IF yes THEN {k} ELSE {}
    BY <2>1, <2>5 DEF Propagated
  <2>7. DOMAIN RenameMap(keys, left, changes) = IF yes THEN {k} ELSE {}
    BY <2>1, <2>6 DEF RenameMap
  <2>8. d \notin Freeform => Unsettled(d, keys, left, changes, <<>>, declined) = {}
    BY <2>4, <2>6, <2>7 DEF Unsettled
  <2> HIDE DEF left, wish, declined
  <2>9. UndefinedIsKnown'
    BY <1>1, <1>3, <2>1, <2>2, <2>3, <2>8, UpdateSettles
  <2> QED BY <1>2, <2>1, <2>9
<1>8. ASSUME NEW d \in Doc, NEW k \in Key, NEW yes \in BOOLEAN, DeleteLabel(d, k, yes)
      PROVE  UNCHANGED <<dialog, current, editor>> /\ UndefinedIsKnown'
  <2> DEFINE keys == cache["agent"][d]
             left == keys \ {k}
             removed == [l \in {k} |-> yes]
             wish == [Keep EXCEPT ![k] = IF yes THEN {} ELSE {k}]
             declined == IF yes THEN {} ELSE {k}
  <2>1. /\ UpdateLabels("agent", d, keys, left, <<>>, removed, wish, declined)
        /\ Working /\ k \in keys /\ UNCHANGED <<dialog, current, editor>>
    BY <1>8 DEF DeleteLabel, screen
  <2>2. left \in SUBSET Key
    BY <1>4
  <2>3. d \notin Freeform => keys = defs[d]
    BY <1>2, <2>1 DEF Agree
  <2> HIDE DEF keys
  <2>4. DOMAIN removed = {k} /\ removed[k] = yes
    OBVIOUS
  <2> HIDE DEF removed
  <2>5. RemovalTargets(keys, left, removed) = IF yes THEN {k} ELSE {}
    BY <2>1, <2>4 DEF RemovalTargets
  <2>6. d \notin Freeform => Unsettled(d, keys, left, <<>>, removed, declined) = {}
    BY <1>5, <2>3, <2>5 DEF Unsettled
  <2> HIDE DEF left, wish, declined
  <2>7. UndefinedIsKnown'
    BY <1>1, <1>3, <1>5, <2>1, <2>2, <2>6, UpdateSettles
  <2> QED BY <1>2, <2>1, <2>7
<1>9. ASSUME NEW i \in Item, NEW set \in SUBSET Key, SetRequirementLabels(i, set)
      PROVE  UNCHANGED <<dialog, current, editor>> /\ UndefinedIsKnown'
  <2>1. /\ Working /\ Valid(cache["agent"], DocOf[i], set)
        /\ Promote("agent", DocOf[i], set) /\ labels' = [labels EXCEPT ![i] = set]
        /\ UNCHANGED <<dialog, current, editor>> /\ known' = known
    BY <1>9 DEF SetRequirementLabels, screen, history
  <2>2. DocOf[i] \in Doc /\ Agree(cache["agent"], defs)
    BY <1>2, <1>3, <2>1
  <2>3. Agree(defs', defs)
    BY <1>1, <1>3, <2>1, <2>2, PromoteAgrees
  <2>4. Undefined(defs', labels') = Undefined(defs, labels')
    BY <1>3, <2>3, AgreeUndefined
  <2>5. Undefined(defs, labels') \subseteq Undefined(defs, labels)
    <3> SUFFICES ASSUME NEW p \in Undefined(defs, labels')
                 PROVE  p \in Undefined(defs, labels)
      OBVIOUS
    <3>1. p \in Item \X Key
      BY DEF Undefined
    <3>2. p[1] # i
      <4> SUFFICES ASSUME p[1] = i PROVE FALSE
        OBVIOUS
      <4>1. labels'[i] = set
        BY <1>3, <2>1 DEF FilesOK, LabelSets
      <4>2. p[2] \in set /\ ~AnyKey(DocOf[i]) /\ p[2] \notin Allowed(defs, DocOf[i])
        BY <3>1, <4>1, UndefinedMeans
      <4>3. Allowed(cache["agent"], DocOf[i]) = Allowed(defs, DocOf[i])
        BY <2>2, <4>2, CountedAlike
      <4> QED BY <2>1, <4>2, <4>3 DEF Valid
    <3>3. labels'[p[1]] = labels[p[1]]
      BY <1>3, <2>1, <3>1, <3>2 DEF FilesOK, LabelSets
    <3> QED BY <3>1, <3>3, UndefinedMeans
  <2>6. UndefinedIsKnown'
    BY <1>3, <2>1, <2>4, <2>5 DEF UndefinedIsKnown
  <2> QED BY <1>2, <2>1, <2>6
<1> QED BY <1>6, <1>7, <1>8, <1>9, GivenType DEF Agent

LEMMA ShowAttentive ==
    ASSUME Types, Attentive, ShowResult
    PROVE  /\ dialog' = dialog /\ current' = current /\ editor'.item = editor.item
           /\ UndefinedIsKnown'
<1>1. /\ dialog' = dialog /\ current' = current /\ defs' = defs /\ labels' = labels
      /\ known' = known
  BY DEF ShowResult, history
<1>2. editor'.item = editor.item
  <2>1. Listed(editor, offered').item = editor.item
    BY DEF Listed, Types, ScreenOK, Editors
  <2> QED BY <2>1 DEF ShowResult, Loaded
<1> QED BY <1>1, <1>2, StillKnown DEF Attentive

LEMMA AttentiveStep ==
    ASSUME Types, Types', Attentive, [Next]_vars, AttentiveUses
    PROVE  Attentive'
<1>1. Distinct(dialog') /\ Faithful(dialog')
  BY DistinctStep, FaithfulStep, SettingsAre DEF Attentive, AttentiveUses
<1>2. CASE UNCHANGED vars
  <2>1. UndefinedIsKnown'
    BY <1>2, StillKnown DEF Attentive, vars
  <2> QED BY <1>1, <1>2, <2>1 DEF Attentive, Modal, vars
<1>3. CASE \/ \E d \in Doc : SelectDocument(d)
           \/ \E i \in Item : SelectRequirement(i)
           \/ \E k \in Key : PickLabel(k)
           \/ SaveRequirement \/ DiscardEdits
  BY <1>1, <1>3, EditorAttentive DEF Attentive, Modal
<1>4. CASE OpenDialog \/ \E d \in Doc : SwitchDocument(d)
  BY <1>1, <1>4, OpenAttentive DEF Attentive, Modal
<1>5. CASE \/ \E k \in Key : AddLabel(k) \/ RetitleLabel(k)
           \/ \E k, new \in Key, yes \in BOOLEAN : RenameLabel(k, new, yes)
           \/ \E K \in SUBSET Key, yes \in BOOLEAN : DeleteLabels(K, yes)
  <2>1. Modal
    BY <1>5, RowsEdit DEF Edits
  <2> QED BY <1>1, <1>5, <2>1, DialogAttentive DEF Attentive, Modal
<1>6. CASE ConfirmDialog
  <2>1. NoDialog.doc = NoDoc
    BY DEF NoDialog, Opened
  <2> QED BY <1>1, <1>6, <2>1, ConfirmAttentive DEF Attentive, Modal
<1>7. CASE CancelDialog
  <2>1. dialog'.doc = NoDoc /\ current' = current /\ editor' = editor
    BY <1>7 DEF CancelDialog, NoDialog, Opened, screen
  <2>2. UndefinedIsKnown'
    BY <1>7, StillKnown DEF CancelDialog, Attentive, files, history
  <2> QED BY <1>1, <2>1, <2>2 DEF Attentive, Modal
<1>8. CASE Agent
  BY <1>1, <1>8, AgentAttentive DEF Attentive, Modal
<1>9. CASE ShowResult
  BY <1>1, <1>9, ShowAttentive DEF Attentive, Modal
<1>10. Next => \/ \E d \in Doc : SelectDocument(d)
               \/ \E d \in Doc : SwitchDocument(d)
               \/ \E i \in Item : SelectRequirement(i)
               \/ \E k \in Key : PickLabel(k)
               \/ \E k \in Key : AddLabel(k) \/ RetitleLabel(k)
               \/ \E k, new \in Key, yes \in BOOLEAN : RenameLabel(k, new, yes)
               \/ \E K \in SUBSET Key, yes \in BOOLEAN : DeleteLabels(K, yes)
               \/ SaveRequirement \/ DiscardEdits
               \/ OpenDialog \/ ConfirmDialog \/ CancelDialog
               \/ Agent \/ ShowResult
  BY DEF Next, User
<1> QED BY <1>2, <1>3, <1>4, <1>5, <1>6, <1>7, <1>8, <1>9, <1>10

\* A requirement carries a label nobody defines only where it did so at first, where
\* the user wanted that, or after an error: for any hierarchy of documents, however
\* dialog, editor and agent take turns, and whatever updates end half-way, in runs
\* without the uses that AttentiveUses names.
THEOREM UndefinedLabelsAreKnown ==
    ASSUME AttentiveUses
    PROVE  Spec => []UndefinedIsKnown
<1>1. Init => Attentive
  <2> SUFFICES ASSUME Init PROVE Attentive
    OBVIOUS
  <2>1. ~Modal
    BY DEF Init, Modal, NoDialog, Opened
  <2>2. UndefinedIsKnown
    BY DEF Init, UndefinedIsKnown
  <2>3. editor.item = 0
    BY DEF Init, NoEditor
  <2> QED BY <2>1, <2>2, <2>3, InitDialog DEF Attentive
<1>2. Types /\ Types' /\ Attentive /\ [Next]_vars => Attentive'
  BY AttentiveStep
<1>3. Attentive => UndefinedIsKnown
  BY DEF Attentive
<1> QED BY <1>1, <1>2, <1>3, AlwaysTypes, PTL DEF Spec

-----------------------------------------------------------------------------
(* Results on their way: the labels S in a window that shows d, and those on    *)
(* disk, L.                                                                     *)

\* The window's labels after each of the results R.
Views(v, S, R, d) ==
    /\ v[0] = S
    /\ \A n \in 1 .. Len(R) : v[n] = Applied(v[n - 1], R[n], d)

\* When all results have arrived, the window has the labels on disk.
CaughtUp(R, L, S, d) ==
    \E v \in [0 .. Len(R) -> LabelSets] :
      Views(v, S, R, d) /\ \A i \in ItemsOf({d}) : v[Len(R)][i] = L[i]

\* Results about other documents change nothing.
LEMMA NothingAbout ==
    ASSUME NEW R \in Results, NEW d, \A n \in DOMAIN R : ~About(R[n], d),
           NEW L, NEW S \in LabelSets
    PROVE  CaughtUp(R, L, S, d) <=> \A i \in ItemsOf({d}) : L[i] = S[i]
<1> DEFINE n == Len(R)
<1>1. n \in Nat /\ DOMAIN R = 1 .. n
  BY DEF Results
<1>2. ASSUME NEW v \in [0 .. n -> LabelSets], Views(v, S, R, d)
      PROVE  v[n] = S
  <2> DEFINE G == {k \in 0 .. n : v[k] = S}
  <2>1. 0 \in G
    BY <1>1, <1>2 DEF Views
  <2>2. \A k \in 0 .. n : k \in G /\ k < n => k + 1 \in G
    <3> SUFFICES ASSUME NEW k \in 0 .. n, k \in G, k < n PROVE k + 1 \in G
      OBVIOUS
    <3>1. k + 1 \in 1 .. n /\ k + 1 \in 0 .. n /\ (k + 1) - 1 = k /\ v[k] = S
      BY <1>1
    <3>2. v[k + 1] = Applied(v[(k + 1) - 1], R[k + 1], d) /\ ~About(R[k + 1], d)
      BY <1>1, <1>2, <3>1 DEF Views
    <3>3. v[k + 1] = S
      BY <3>1, <3>2 DEF Applied
    <3> QED BY <3>1, <3>3
  <2> HIDE DEF G
  <2>3. 0 .. n \subseteq G
    BY <1>1, <2>1, <2>2, CountedUp
  <2>4. n \in 0 .. n
    BY <1>1
  <2> QED BY <2>3, <2>4 DEF G
<1>3. CaughtUp(R, L, S, d) => \A i \in ItemsOf({d}) : L[i] = S[i]
  BY <1>2 DEF CaughtUp
<1> DEFINE v == [k \in 0 .. n |-> S]
<1>4. v \in [0 .. n -> LabelSets] /\ v[n] = S /\ Views(v, S, R, d)
  <2>1. v \in [0 .. n -> LabelSets]
    OBVIOUS
  <2>2. \A k \in 0 .. n : v[k] = S
    OBVIOUS
  <2>3. 0 \in 0 .. n /\ n \in 0 .. n /\ \A k \in 1 .. n : k \in 0 .. n /\ k - 1 \in 0 .. n
    BY <1>1
  <2> HIDE DEF v
  <2>4. v[0] = S /\ v[n] = S
    BY <2>2, <2>3
  <2>5. ASSUME NEW k \in 1 .. n PROVE v[k] = Applied(v[k - 1], R[k], d)
    <3>1. v[k] = S /\ v[k - 1] = S /\ ~About(R[k], d)
      BY <1>1, <2>2, <2>3
    <3> QED BY <3>1 DEF Applied
  <2> QED BY <2>1, <2>4, <2>5 DEF Views
<1>5. (\A i \in ItemsOf({d}) : L[i] = S[i]) => CaughtUp(R, L, S, d)
  <2> HIDE DEF v
  <2> QED BY <1>4 DEF CaughtUp
<1> QED BY <1>3, <1>5

\* A change on disk, and its result as the last one.
LEMMA OneMore ==
    ASSUME NEW R \in Results, NEW r \in ToolResults, NEW d,
           NEW L \in LabelSets, NEW K, NEW S, CaughtUp(R, L, S, d),
           \A i \in ItemsOf({d}) : K[i] = Applied(L, r, d)[i]
    PROVE  CaughtUp(Append(R, r), K, S, d)
<1> DEFINE n == Len(R)
           T == Append(R, r)
<1>1. /\ n \in Nat /\ Len(T) = n + 1 /\ T[n + 1] = r /\ \A k \in 1 .. n : T[k] = R[k]
  BY DEF Results
<1>2. PICK v \in [0 .. n -> LabelSets] :
         Views(v, S, R, d) /\ \A i \in ItemsOf({d}) : v[n][i] = L[i]
  BY DEF CaughtUp
<1> HIDE DEF T
<1> DEFINE w == [k \in 0 .. (n + 1) |-> IF k = n + 1 THEN Applied(v[n], r, d) ELSE v[k]]
<1>3. n \in 0 .. n /\ v[n] \in LabelSets
  BY <1>1
<1>4. w \in [0 .. (n + 1) -> LabelSets]
  <2>1. Applied(v[n], r, d) \in LabelSets
    BY <1>3, AppliedType
  <2>2. \A k \in 0 .. (n + 1) : k # n + 1 => k \in 0 .. n
    BY <1>1
  <2> QED BY <2>1, <2>2
<1>5. /\ w[n + 1] = Applied(v[n], r, d)
      /\ \A k \in 0 .. n : w[k] = v[k]
  BY <1>1
<1> HIDE DEF w
<1>6. Views(w, S, T, d)
  <2>1. w[0] = S
    BY <1>1, <1>2, <1>5 DEF Views
  <2>2. ASSUME NEW k \in 1 .. (n + 1) PROVE w[k] = Applied(w[k - 1], T[k], d)
    <3>1. CASE k = n + 1
      <4>1. k - 1 = n
        BY <1>1, <3>1
      <4> QED BY <1>1, <1>3, <1>5, <3>1, <4>1
    <3>2. CASE k # n + 1
      <4>1. k \in 1 .. n /\ k \in 0 .. n /\ k - 1 \in 0 .. n
        BY <1>1, <3>2
      <4>2. v[k] = Applied(v[k - 1], R[k], d)
        BY <1>2, <4>1 DEF Views
      <4> QED BY <1>1, <1>5, <4>1, <4>2
    <3> QED BY <3>1, <3>2
  <2> QED BY <1>1, <2>1, <2>2 DEF Views
<1>7. ASSUME NEW i \in ItemsOf({d}) PROVE w[n + 1][i] = K[i]
  <2>1. i \in Item /\ v[n][i] = L[i] /\ K[i] = Applied(L, r, d)[i]
    BY <1>2 DEF ItemsOf
  <2>2. Applied(v[n], r, d)[i] = Applied(L, r, d)[i]
    <3>1. CASE ~About(r, d)
      BY <2>1, <3>1 DEF Applied
    <3>2. CASE About(r, d) /\ r.tool = "set"
      <4>1. /\ Applied(v[n], r, d) = [v[n] EXCEPT ![r.item] = r.labels]
            /\ Applied(L, r, d) = [L EXCEPT ![r.item] = r.labels]
        BY <3>2 DEF Applied
      <4> QED BY <1>3, <2>1, <4>1 DEF LabelSets
    <3>3. CASE About(r, d) /\ r.tool # "set"
      BY <2>1, <3>3 DEF Applied
    <3> QED BY <3>1, <3>2, <3>3
  <2> QED BY <1>5, <2>1, <2>2
<1>8. \E u \in [0 .. Len(T) -> LabelSets] :
        Views(u, S, T, d) /\ \A i \in ItemsOf({d}) : u[Len(T)][i] = K[i]
  BY <1>1, <1>4, <1>6, <1>7
<1> QED BY <1>8 DEF CaughtUp, T

\* The first result reaches the window.
LEMMA OneLess ==
    ASSUME NEW R \in Results, R # <<>>, NEW d, NEW L, NEW S, CaughtUp(R, L, S, d)
    PROVE  CaughtUp(Tail(R), L, Applied(S, Head(R), d), d)
<1> DEFINE n == Len(R)
           T == Tail(R)
<1>1. /\ n \in Nat /\ n # 0 /\ Len(T) = n - 1 /\ Head(R) = R[1]
      /\ \A k \in 1 .. (n - 1) : T[k] = R[k + 1]
  BY DEF Results
<1>2. PICK v \in [0 .. n -> LabelSets] :
         Views(v, S, R, d) /\ \A i \in ItemsOf({d}) : v[n][i] = L[i]
  BY DEF CaughtUp
<1> HIDE DEF T
<1> DEFINE w == [k \in 0 .. (n - 1) |-> v[k + 1]]
<1>3. /\ \A k \in 0 .. (n - 1) : k + 1 \in 1 .. n /\ k + 1 \in 0 .. n
      /\ 0 \in 0 .. (n - 1) /\ n - 1 \in 0 .. (n - 1) /\ (n - 1) + 1 = n /\ 1 - 1 = 0
  BY <1>1
<1>4. w \in [0 .. (n - 1) -> LabelSets] /\ \A k \in 0 .. (n - 1) : w[k] = v[k + 1]
  BY <1>3
<1> HIDE DEF w
<1>5. Views(w, Applied(S, Head(R), d), T, d)
  <2>1. v[1] = Applied(v[1 - 1], R[1], d) /\ v[0] = S
    BY <1>1, <1>2 DEF Views
  <2>2. w[0] = Applied(S, Head(R), d)
    BY <1>1, <1>3, <1>4, <2>1
  <2>3. ASSUME NEW k \in 1 .. (n - 1) PROVE w[k] = Applied(w[k - 1], T[k], d)
    <3>1. /\ k \in 0 .. (n - 1) /\ k - 1 \in 0 .. (n - 1) /\ (k - 1) + 1 = k
          /\ k + 1 \in 1 .. n /\ (k + 1) - 1 = k
      BY <1>1
    <3>2. v[k + 1] = Applied(v[(k + 1) - 1], R[k + 1], d)
      BY <1>2, <3>1 DEF Views
    <3>3. w[k] = v[k + 1] /\ w[k - 1] = v[(k - 1) + 1]
      BY <1>4, <3>1
    <3> QED BY <1>1, <3>1, <3>2, <3>3
  <2> QED BY <1>1, <2>2, <2>3 DEF Views
<1>6. \A i \in ItemsOf({d}) : w[n - 1][i] = L[i]
  BY <1>2, <1>3, <1>4
<1>7. \E u \in [0 .. Len(T) -> LabelSets] :
        Views(u, Applied(S, Head(R), d), T, d) /\ \A i \in ItemsOf({d}) : u[Len(T)][i] = L[i]
  BY <1>1, <1>4, <1>5, <1>6
<1> QED BY <1>7 DEF CaughtUp, T

-----------------------------------------------------------------------------
(* The window, the editor and the files between two steps.                  *)

\* No use after which the window does not show what is on disk.
FollowingUses == PlainDialog /\ Uses \cap {"strict", "pending"} = {}

\* A dialog without an answer that reaches requirements.
Quiet(D) ==
    /\ \A o \in DOMAIN D.changes : ~D.changes[o].yes
    /\ \A o \in DOMAIN D.removed : ~D.removed[o]

DialogHere == Modal /\ dialog.doc # current => Quiet(dialog)
EditorFollows ==
    editor.item # 0 =>
      /\ current \in Freeform /\ DocOf[editor.item] = current
      /\ ~editor.touched => editor.labels = shown[editor.item] /\ editor.saved = shown[editor.item]

Abreast ==
    /\ Distinct(dialog) /\ Faithful(dialog) /\ DialogHere /\ EditorFollows
    /\ ~failed => CaughtUp(results, labels, shown, current)

LEMMA FollowingMeans ==
    ASSUME FollowingUses
    PROVE  /\ "strict" \notin Uses /\ "pending" \notin Uses
           /\ "reused" \notin Uses /\ "retitled" \notin Uses /\ "switched" \notin Uses
BY DEF FollowingUses, PlainDialog

\* Without results about it the document shows the labels on disk.
LEMMA NoneAwaited ==
    ASSUME results \in Results, NEW d, ~Awaited(d), NEW L, NEW S \in LabelSets
    PROVE  CaughtUp(results, L, S, d) <=> \A i \in ItemsOf({d}) : L[i] = S[i]
BY NothingAbout DEF Awaited

LEMMA AbreastShows ==
    ASSUME Types, Abreast
    PROVE  ScreenShowsDisk
<1> SUFFICES ASSUME ~failed, ~Awaited(current)
             PROVE  /\ \A i \in ItemsOf({current}) : shown[i] = labels[i]
                    /\ editor.item # 0 /\ ~editor.touched => editor.labels = shown[editor.item]
  BY DEF ScreenShowsDisk
<1>1. shown \in LabelSets /\ results \in Results
  BY DEF Types, ScreenOK
<1> QED BY <1>1, NoneAwaited DEF Abreast, EditorFollows

\* The window reads the labels of the document it shows.
LEMMA SelectDocumentAbreast ==
    ASSUME Types, Types', Abreast, FollowingUses, NEW d \in Doc, SelectDocument(d)
    PROVE  /\ DialogHere' /\ EditorFollows'
           /\ CaughtUp(results', labels', shown', current')
<1>1. /\ ~Modal /\ dialog' = dialog /\ results' = results /\ labels' = labels /\ current' = d
      /\ shown' = [i \in Item |-> IF DocOf[i] = d THEN labels[i] ELSE {}] /\ editor'.item = 0
      /\ ~Awaited(d)
  BY FollowingMeans DEF SelectDocument, Fits, files, NoEditor
<1>2. results \in Results /\ shown' \in LabelSets
  BY DEF Types, ScreenOK
<1>3. \A i \in ItemsOf({d}) : labels[i] = shown'[i]
  BY <1>1 DEF ItemsOf
<1>4. CaughtUp(results, labels, shown', d)
  BY <1>1, <1>2, <1>3, NoneAwaited
<1>5. ~Modal'
  BY <1>1 DEF Modal
<1> QED BY <1>1, <1>4, <1>5 DEF DialogHere, EditorFollows

LEMMA SelectRequirementAbreast ==
    ASSUME Types, Abreast, FollowingUses, NEW i \in Item, SelectRequirement(i)
    PROVE  /\ DialogHere' /\ EditorFollows' /\ UNCHANGED <<results, labels, shown, current, failed>>
<1>1. /\ ~Modal /\ dialog' = dialog /\ current \in Freeform /\ DocOf[i] = current
      /\ editor' = Loaded(i, shown[i])
      /\ UNCHANGED <<results, labels, shown, current, failed>>
  BY FollowingMeans DEF SelectRequirement, Fits, files, history
<1>2. ~Modal'
  BY <1>1 DEF Modal
<1> QED BY <1>1, <1>2 DEF DialogHere, EditorFollows, Loaded

LEMMA PickLabelAbreast ==
    ASSUME Types, Abreast, NEW k \in Key, PickLabel(k)
    PROVE  /\ DialogHere' /\ EditorFollows' /\ UNCHANGED <<results, labels, shown, current, failed>>
<1>1. editor \in Editors
  BY DEF Types, ScreenOK
<1>2. /\ ~Modal /\ dialog' = dialog /\ editor'.item = editor.item /\ editor'.touched
      /\ UNCHANGED <<results, labels, shown, current, failed>>
  BY <1>1 DEF PickLabel, files, history, Editors
<1>3. ~Modal'
  BY <1>2 DEF Modal
<1> QED BY <1>2, <1>3 DEF DialogHere, EditorFollows, Abreast

LEMMA SaveAbreast ==
    ASSUME Types, Types', Abreast, FollowingUses, SaveRequirement
    PROVE  /\ DialogHere' /\ EditorFollows'
           /\ ~failed' => CaughtUp(results', labels', shown', current')
<1> DEFINE i == editor.item
<1>1. /\ ~Modal /\ dialog' = dialog /\ i # 0 /\ ~Awaited(current) /\ results' = results
      /\ labels' = [labels EXCEPT ![i] = editor.labels] /\ shown' = [shown EXCEPT ![i] = editor.labels]
      /\ editor' = Listed(Loaded(i, editor.labels), offered')
      /\ current' = current /\ failed' = failed
  BY FollowingMeans DEF SaveRequirement, Fits, history
<1>2. /\ labels \in LabelSets /\ shown \in LabelSets /\ shown' \in LabelSets
      /\ editor \in Editors /\ i \in Item /\ results \in Results
  BY <1>1 DEF Types, FilesOK, ScreenOK, Editors
<1>3. current \in Freeform /\ DocOf[i] = current
  BY <1>1 DEF Abreast, EditorFollows
<1> HIDE DEF i
<1>4. editor' = Loaded(i, editor.labels)
  BY <1>1, <1>3 DEF Listed, Loaded
<1>5. shown'[i] = editor.labels
  BY <1>1, <1>2 DEF LabelSets
<1>6. EditorFollows'
  <2>1. editor'.item = i /\ editor'.labels = shown'[i] /\ editor'.saved = shown'[i]
    BY <1>4, <1>5 DEF Loaded
  <2> QED BY <1>1, <1>3, <2>1 DEF EditorFollows
<1>7. ASSUME ~failed, NEW j \in ItemsOf({current}) PROVE labels'[j] = shown'[j]
  <2>1. j \in Item
    BY DEF ItemsOf
  <2>2. labels[j] = shown[j]
    BY <1>1, <1>2, <1>7, NoneAwaited DEF Abreast
  <2> QED BY <1>1, <1>2, <2>1, <2>2 DEF LabelSets
<1>8. ~failed' => CaughtUp(results', labels', shown', current')
  <2> DEFINE K == labels'
             S == shown'
  <2>1. S \in LabelSets /\ (~failed => \A j \in ItemsOf({current}) : K[j] = S[j])
    BY <1>2, <1>7
  <2> HIDE DEF K, S
  <2>2. ~failed => CaughtUp(results, K, S, current)
    BY <1>1, <1>2, <2>1, NoneAwaited
  <2> QED BY <1>1, <2>2 DEF K, S
<1>9. ~Modal'
  BY <1>1 DEF Modal
<1> QED BY <1>6, <1>8, <1>9 DEF DialogHere

LEMMA DiscardAbreast ==
    ASSUME Types, Types', Abreast, FollowingUses, DiscardEdits
    PROVE  /\ DialogHere' /\ EditorFollows'
           /\ ~failed' => CaughtUp(results', labels', shown', current')
<1> DEFINE i == editor.item
<1>1. /\ ~Modal /\ dialog' = dialog /\ results' = results /\ labels' = labels
      /\ shown' = [shown EXCEPT ![i] = labels[i]] /\ editor' = Loaded(i, labels[i])
      /\ current' = current /\ failed' = failed /\ Dirty /\ ~Awaited(current)
  BY FollowingMeans DEF DiscardEdits, Fits, files, history
<1>2. /\ labels \in LabelSets /\ shown \in LabelSets /\ shown' \in LabelSets
      /\ editor \in Editors /\ results \in Results
  BY DEF Types, FilesOK, ScreenOK
<1>3. i \in Item /\ i # 0
  BY <1>1, <1>2 DEF Editors, Dirty
<1>4. current \in Freeform /\ DocOf[i] = current
  BY <1>3 DEF Abreast, EditorFollows
<1> HIDE DEF i
<1>5. shown'[i] = labels[i] /\ \A j \in Item : j # i => shown'[j] = shown[j]
  BY <1>1, <1>2, <1>3 DEF LabelSets
<1>6. EditorFollows'
  BY <1>1, <1>4, <1>5 DEF EditorFollows, Loaded
<1>7. ASSUME ~failed PROVE CaughtUp(results, labels, shown', current)
  <2>1. \A j \in ItemsOf({current}) : labels[j] = shown[j] /\ j \in Item
    BY <1>1, <1>2, <1>7, NoneAwaited DEF Abreast, ItemsOf
  <2>2. \A j \in ItemsOf({current}) : labels[j] = shown'[j]
    BY <1>5, <2>1
  <2> QED BY <1>1, <1>2, <2>2, NoneAwaited
<1>8. ~Modal'
  BY <1>1 DEF Modal
<1> QED BY <1>1, <1>6, <1>7, <1>8 DEF DialogHere

LEMMA OpenAbreast ==
    ASSUME OpenDialog \/ \E d \in Doc : SwitchDocument(d)
    PROVE  /\ DialogHere' /\ UNCHANGED <<editor, results, labels, shown, current, failed>>
<1>1. PICK d, original, keys :
         /\ dialog' = Opened(d, original, keys)
         /\ UNCHANGED <<editor, results, labels, shown, current, failed>>
  <2>1. CASE OpenDialog
    BY <2>1 DEF OpenDialog, screen, history
  <2>2. CASE \E d \in Doc : SwitchDocument(d)
    BY <2>2 DEF SwitchDocument, screen, history
  <2> QED BY <2>1, <2>2
<1>2. Quiet(dialog')
  BY <1>1, EmptyFunction DEF Opened, Quiet
<1> QED BY <1>1, <1>2 DEF DialogHere

\* In the dialog of another document the user says "yes" to nothing.
LEMMA EditsAbreast ==
    ASSUME Types, Abreast, FollowingUses,
           \/ \E k \in Key : AddLabel(k) \/ RetitleLabel(k)
           \/ \E k, new \in Key, yes \in BOOLEAN : RenameLabel(k, new, yes)
           \/ \E K \in SUBSET Key, yes \in BOOLEAN : DeleteLabels(K, yes)
    PROVE  /\ DialogHere' /\ UNCHANGED <<editor, results, labels, shown, current, failed>>
<1>1. /\ Modal /\ dialog'.doc = dialog.doc
      /\ UNCHANGED <<editor, results, labels, shown, current, failed>>
  BY RowsEdit DEF Edits, files, screen, history
<1>2. dialog \in Dialogs /\ (dialog.doc # current => Quiet(dialog))
  BY <1>1 DEF Types, Abreast, DialogHere
<1>3. ASSUME NEW k \in Key, AddLabel(k) PROVE Quiet(dialog) => Quiet(dialog')
  <2>1. dialog'.changes = dialog.changes /\ dialog'.removed = dialog.removed
    BY <1>2, <1>3, DialogSet DEF AddLabel, Edited
  <2> QED BY <2>1 DEF Quiet
<1>4. ASSUME NEW k \in Key, RetitleLabel(k) PROVE Quiet(dialog) => Quiet(dialog')
  <2>1. dialog'.changes = Without(dialog.changes, Original(k)) /\ dialog'.removed = dialog.removed
    BY <1>2, <1>4, DialogSet DEF RetitleLabel, Edited
  <2> QED BY <2>1 DEF Quiet, Without
<1>5. ASSUME NEW k \in Key, NEW new \in Key, NEW yes \in BOOLEAN, RenameLabel(k, new, yes),
             dialog.doc # current, Quiet(dialog)
      PROVE  Quiet(dialog')
  <2> DEFINE o == Original(k)
             given == [to |-> new, yes |-> yes]
  <2>1. ~yes
    BY <1>5, FollowingMeans DEF RenameLabel, Asked, Fits
  <2>2. /\ dialog'.removed = Without(dialog.removed, o)
        /\ dialog'.changes = IF new = o THEN Without(dialog.changes, o)
                             ELSE With(dialog.changes, o, given)
    BY <1>2, <1>5, DialogSet DEF RenameLabel, Edited
  <2>3. ~given.yes
    BY <2>1
  <2> HIDE DEF o, given
  <2> QED BY <1>5, <2>2, <2>3 DEF Quiet, With, Without
<1>6. ASSUME NEW K \in SUBSET Key, NEW yes \in BOOLEAN, DeleteLabels(K, yes),
             dialog.doc # current, Quiet(dialog)
      PROVE  Quiet(dialog')
  <2> DEFINE O == {Original(k) : k \in K}
  <2>1. ~yes
    BY <1>6, FollowingMeans DEF DeleteLabels, Asked, Fits
  <2>2. /\ dialog'.removed = [o \in DOMAIN dialog.removed \cup O |->
                                IF o \in O THEN yes ELSE dialog.removed[o]]
        /\ dialog'.changes = [o \in DOMAIN dialog.changes \ O |-> dialog.changes[o]]
    BY <1>2, <1>6, DialogSet DEF DeleteLabels, Edited
  <2> HIDE DEF O
  <2> QED BY <1>6, <2>1, <2>2 DEF Quiet
<1>7. dialog'.doc # current' => Quiet(dialog')
  BY <1>1, <1>2, <1>3, <1>4, <1>5, <1>6
<1> QED BY <1>1, <1>2, <1>7 DEF DialogHere

\* What an update does to the labels, whether it ends or is cut short.
LEMMA UpdateRewrites ==
    ASSUME labels \in LabelSets, DocOf \in [Item -> Doc],
           NEW s, NEW d, NEW original, NEW keys, NEW changes, NEW removed, NEW wish, NEW declined,
           UpdateLabels(s, d, original, keys, changes, removed, wish, declined),
           NEW map, map = RenameMap(original, keys, changes),
           NEW gone, gone = RemovalTargets(original, keys, removed)
    PROVE  /\ \A i \in Item : labels'[i] = labels[i] \/ labels'[i] = Replace(labels[i], map, gone)
           /\ last'.ok => \A i \in Item :
                labels'[i] = IF IsAncestor(DocOf[i], d) THEN Replace(labels[i], map, gone)
                             ELSE labels[i]
           /\ ~failed' => last'.ok /\ ~failed
<1> DEFINE definitions == Redefined(d, keys, Propagated(changes))
           new == [i \in Item |-> IF DocOf[i] \in Subtree(d) THEN Replace(labels[i], map, gone)
                                 ELSE labels[i]]
<1>1. PICK r \in Rewritten(d, definitions, map, gone) :
         /\ labels' = r.labels /\ failed' = (failed \/ ~r.ok)
         /\ last' = [nth |-> last.nth + 1, doc |-> d, ok |-> r.ok, wish |-> wish]
  BY DEF UpdateLabels
<1>2. last'.ok = r.ok
  BY <1>1
<1> HIDE DEF definitions
<1>3. /\ r.ok => r.labels = new
      /\ \A i \in Item : r.labels[i] = labels[i] \/ r.labels[i] = new[i]
  <2> DEFINE changed == {i \in ItemsOf(Subtree(d)) : labels[i] \cap (DOMAIN map \cup gone) # {}}
             bad == {i \in changed : ~Valid(definitions, DocOf[i], new[i])}
             Until(f, D) == {i \in changed : DocOf[i] \in D \/ (DocOf[i] = DocOf[f] /\ i < f)}
             W == {v \in bad \X SUBSET Doc : DocOf[v[1]] \notin v[2]
                                             /\ Until(v[1], v[2]) \cap bad = {}}
  <2>1. Rewritten(d, definitions, map, gone) =
          IF bad = {} THEN {[ok |-> TRUE, labels |-> new]}
          ELSE {[ok |-> FALSE, labels |-> [i \in Item |-> IF i \in Until(w[1], w[2]) THEN new[i]
                                                          ELSE labels[i]]] : w \in W}
    BY DEF Rewritten
  <2> HIDE DEF new, bad, Until, W
  <2>2. CASE bad = {}
    <3>1. r.ok /\ r.labels = new
      BY <2>1, <2>2
    <3> QED BY <3>1
  <2>3. CASE bad # {}
    <3>1. PICK w \in W : r = [ok |-> FALSE, labels |-> [i \in Item |->
                                                IF i \in Until(w[1], w[2]) THEN new[i] ELSE labels[i]]]
      BY <2>1, <2>3
    <3>2. ~r.ok /\ r.labels = [i \in Item |-> IF i \in Until(w[1], w[2]) THEN new[i] ELSE labels[i]]
      BY <3>1
    <3> QED BY <3>2
  <2> QED BY <2>2, <2>3
<1>4. \A i \in Item : new[i] = IF IsAncestor(DocOf[i], d) THEN Replace(labels[i], map, gone)
                               ELSE labels[i]
  BY DEF Subtree
<1> HIDE DEF new
<1>5. \A i \in Item : labels'[i] = labels[i] \/ labels'[i] = Replace(labels[i], map, gone)
  BY <1>1, <1>3, <1>4
<1> QED BY <1>1, <1>2, <1>3, <1>4, <1>5

\* The answers in the dialog are the renames and removals the files get.
LEMMA AnswersReach ==
    ASSUME Types, Faithful(dialog)
    PROVE  /\ RenameMap(dialog.original, DOMAIN dialog.rows, dialog.changes) = Propagated(dialog.changes)
           /\ RemovalTargets(dialog.original, DOMAIN dialog.rows, dialog.removed) =
                {k \in DOMAIN dialog.removed : dialog.removed[k]}
<1> DEFINE C == dialog.changes
           map == Propagated(C)
           D == {l \in DOMAIN C : C[l].yes /\ C[l].to # l}
<1>1. \A o \in D : o \in dialog.original
  BY DEF Faithful
<1>2. map = [k \in D |-> C[k].to]
  BY DEF Propagated
<1>3. RenameMap(dialog.original, DOMAIN dialog.rows, C) = [k \in DOMAIN map \cap dialog.original |-> map[k]]
  BY DEF RenameMap
<1> HIDE DEF map, D, C
<1>4. DOMAIN map \cap dialog.original = DOMAIN map
  BY <1>1, <1>2
<1>5. map = [k \in DOMAIN map |-> map[k]]
  BY <1>2
<1>6. RenameMap(dialog.original, DOMAIN dialog.rows, C) = map
  BY <1>3, <1>4, <1>5
<1>7. RemovalTargets(dialog.original, DOMAIN dialog.rows, dialog.removed) =
        {k \in DOMAIN dialog.removed : dialog.removed[k]}
  BY DEF RemovalTargets, Faithful
<1> QED BY <1>6, <1>7 DEF map, C

LEMMA ConfirmAbreast ==
    ASSUME Types, Types', Abreast, FollowingUses, ConfirmDialog
    PROVE  /\ DialogHere' /\ EditorFollows'
           /\ ~failed' => CaughtUp(results', labels', shown', current')
<1> DEFINE d == dialog.doc
           map == Propagated(dialog.changes)
           gone == {k \in DOMAIN dialog.removed : dialog.removed[k]}
           e == Listed(editor, offered')
<1>1. /\ Modal /\ dialog' = NoDialog /\ current' = current /\ results' = results
      /\ UpdateLabels("gui", d, dialog.original, DOMAIN dialog.rows,
                      dialog.changes, dialog.removed, dialog.wish, dialog.declined)
      /\ ~last'.ok => UNCHANGED <<shown, editor>>
      /\ last'.ok =>
           /\ shown' = IF d = current THEN Followed(dialog.changes, dialog.removed) ELSE shown
           /\ editor' = IF e.item = 0 \/ shown' = shown \/ e.labels # e.saved THEN e
                        ELSE Loaded(e.item, shown'[e.item])
  BY DEF ConfirmDialog
<1>2. ~Awaited(current) /\ (d # current => Quiet(dialog))
  BY <1>1, FollowingMeans DEF Abreast, DialogHere, ConfirmDialog, Fits
<1>3. /\ results \in Results /\ labels \in LabelSets /\ shown \in LabelSets
      /\ shown' \in LabelSets /\ editor \in Editors /\ DocOf \in [Item -> Doc] /\ current \in Doc
  BY LabelsAssumption DEF Types, FilesOK, ScreenOK
<1>4. ~Modal' /\ DialogHere'
  BY <1>1 DEF Modal, NoDialog, Opened, DialogHere
<1>5. EditorFollows'
  <2>1. CASE editor.item = 0
    <3>1. e.item = 0
      BY <1>3, <2>1 DEF Listed, Editors
    <3>2. editor'.item = 0
      BY <1>1, <2>1, <3>1
    <3> QED BY <3>2 DEF EditorFollows
  <2>2. CASE editor.item # 0
    <3>1. current \in Freeform /\ DocOf[editor.item] = current
      BY <2>2 DEF Abreast, EditorFollows
    <3>2. e = editor
      BY <1>3, <3>1 DEF Listed, Editors
    <3>6. last'.ok => editor' = IF editor.item = 0 \/ shown' = shown \/ editor.labels # editor.saved
                                THEN editor ELSE Loaded(editor.item, shown'[editor.item])
      BY <1>1, <3>2
    <3> HIDE DEF e
    <3>3. CASE editor' = editor /\ shown' = shown
      BY <1>1, <3>3 DEF Abreast, EditorFollows
    <3>4. CASE editor' = editor /\ editor.labels # editor.saved
      BY <1>1, <2>2, <3>1, <3>4 DEF Abreast, EditorFollows
    <3>5. CASE editor' = Loaded(editor.item, shown'[editor.item])
      <4>1. /\ editor'.item = editor.item /\ editor'.labels = shown'[editor.item]
            /\ editor'.saved = shown'[editor.item]
        BY <3>5 DEF Loaded
      <4> QED BY <1>1, <3>1, <4>1 DEF EditorFollows
    <3> QED BY <1>1, <2>2, <3>3, <3>4, <3>5, <3>6
  <2> QED BY <2>1, <2>2
<1>6. ASSUME ~failed', NEW i \in ItemsOf({current}) PROVE labels'[i] = shown'[i]
  <2>1. /\ last'.ok /\ ~failed
        /\ \A j \in Item : labels'[j] = IF IsAncestor(DocOf[j], d) THEN Replace(labels[j], map, gone)
                                        ELSE labels[j]
    <3>1. /\ map = RenameMap(dialog.original, DOMAIN dialog.rows, dialog.changes)
          /\ gone = RemovalTargets(dialog.original, DOMAIN dialog.rows, dialog.removed)
      BY AnswersReach DEF Abreast
    <3> HIDE DEF map, gone
    <3> QED BY <1>1, <1>3, <1>6, <3>1, UpdateRewrites
  <2>2. i \in Item /\ DocOf[i] = current
    BY DEF ItemsOf
  <2>3. labels[i] = shown[i]
    BY <1>2, <1>3, <2>1, NoneAwaited DEF Abreast
  <2>4. CASE d = current
    <3>1. shown'[i] = Replace(shown[i], map, gone)
      BY <1>1, <2>1, <2>2, <2>4 DEF Followed
    <3>2. IsAncestor(DocOf[i], d)
      BY <1>3, <2>2, <2>4, LineageClosed DEF IsAncestor
    <3> QED BY <2>1, <2>2, <2>3, <3>1, <3>2
  <2>5. CASE d # current
    <3>1. DOMAIN map = {} /\ gone = {}
      BY <1>2, <2>5 DEF Quiet, Propagated
    <3> HIDE DEF map, gone
    <3>2. Replace(labels[i], map, gone) = labels[i]
      BY <3>1 DEF Replace
    <3>3. shown' = shown
      BY <1>1, <2>1, <2>5
    <3> QED BY <2>1, <2>2, <2>3, <3>2, <3>3
  <2> QED BY <2>4, <2>5
<1>7. ~failed' => CaughtUp(results', labels', shown', current')
  <2> DEFINE K == labels'
             S == shown'
             f == failed'
  <2>1. S \in LabelSets /\ (~f => \A j \in ItemsOf({current}) : K[j] = S[j])
    BY <1>3, <1>6
  <2> HIDE DEF K, S, f
  <2>2. ~f => CaughtUp(results, K, S, current)
    BY <1>2, <1>3, <2>1, NoneAwaited
  <2> QED BY <1>1, <2>2 DEF K, S, f
<1> QED BY <1>4, <1>5, <1>7

\* An update of the agent and its result.
LEMMA AgentUpdates ==
    ASSUME Types, Types', Abreast, NEW d \in Doc,
           NEW original, NEW keys, NEW changes, NEW removed, NEW wish, NEW declined,
           UpdateLabels("agent", d, original, keys, changes, removed, wish, declined),
           NEW map \in Maps, NEW gone \in SUBSET Key,
           map = RenameMap(original, keys, changes), gone = RemovalTargets(original, keys, removed),
           Returned(last'.ok, LabelResult(d, map, gone)),
           shown' = shown, current' = current
    PROVE  ~failed' => CaughtUp(results', labels', shown', current')
<1> DEFINE r == LabelResult(d, map, gone)
<1>1. r \in ToolResults /\ r.tool = "label" /\ r.doc = d /\ r.map = map /\ r.gone = gone
  BY LabelResultType DEF LabelResult
<1>2. results' = IF last'.ok THEN Append(results, r) ELSE results
  BY DEF Returned
<1> HIDE DEF r
<1>3. /\ labels \in LabelSets /\ results \in Results /\ DocOf \in [Item -> Doc]
  BY LabelsAssumption DEF Types, FilesOK
<1>4. /\ last'.ok => \A i \in Item :
           labels'[i] = IF IsAncestor(DocOf[i], d) THEN Replace(labels[i], map, gone) ELSE labels[i]
      /\ ~failed' => last'.ok /\ ~failed
  BY <1>3, UpdateRewrites
<1>5. ASSUME last'.ok, NEW i \in ItemsOf({current})
      PROVE  labels'[i] = Applied(labels, r, current)[i]
  <2>1. i \in Item /\ DocOf[i] = current
    BY DEF ItemsOf
  <2>2. About(r, current) <=> IsAncestor(current, d)
    BY <1>1 DEF About
  <2>3. Applied(labels, r, current)[i] =
          IF IsAncestor(current, d) THEN Replace(labels[i], map, gone) ELSE labels[i]
    BY <1>1, <2>1, <2>2 DEF Applied
  <2> QED BY <1>4, <1>5, <2>1, <2>3
<1> DEFINE K == labels'
<1>6. last'.ok /\ ~failed => CaughtUp(Append(results, r), K, shown, current)
  <2>1. last'.ok => \A i \in ItemsOf({current}) : K[i] = Applied(labels, r, current)[i]
    BY <1>5
  <2> HIDE DEF K
  <2> QED BY <1>1, <1>3, <2>1, OneMore DEF Abreast
<1> QED BY <1>2, <1>4, <1>6

LEMMA AgentAbreast ==
    ASSUME Types, Types', Abreast, Agent
    PROVE  /\ DialogHere' /\ EditorFollows'
           /\ ~failed' => CaughtUp(results', labels', shown', current')
<1>1. dialog' = dialog /\ current' = current /\ editor' = editor /\ shown' = shown
  <2>1. \A d \in Doc, k \in Key : CreateLabel(d, k) => UNCHANGED <<screen, dialog>>
    BY DEF CreateLabel
  <2>2. \A d \in Doc, k, new \in Key, yes \in BOOLEAN :
          UpdateLabel(d, k, new, yes) => UNCHANGED <<screen, dialog>>
    BY DEF UpdateLabel
  <2>3. \A d \in Doc, k \in Key, yes \in BOOLEAN :
          DeleteLabel(d, k, yes) => UNCHANGED <<screen, dialog>>
    BY DEF DeleteLabel
  <2>4. \A i \in Item, set \in SUBSET Key :
          SetRequirementLabels(i, set) => UNCHANGED <<screen, dialog>>
    BY DEF SetRequirementLabels
  <2> QED BY <2>1, <2>2, <2>3, <2>4, GivenType DEF Agent, screen
<1>2. DialogHere' /\ EditorFollows'
  BY <1>1 DEF DialogHere, EditorFollows, Modal, Abreast
<1> DEFINE Good == ~failed' => CaughtUp(results', labels', shown', current')
<1>3. /\ <<>> \in Maps /\ \A original, keys : DOMAIN RenameMap(original, keys, <<>>) = {}
      /\ \A original, keys : RemovalTargets(original, keys, <<>>) = {}
  <2>1. <<>> \in [{} -> Key]
    OBVIOUS
  <2> QED BY <2>1, EmptyFunction DEF Maps, RenameMap, Propagated, RemovalTargets
<1>4. \A original, keys : RenameMap(original, keys, <<>>) = <<>>
  BY <1>3, EmptyFunction DEF RenameMap, Propagated
<1>5. ASSUME NEW d \in Doc, NEW k \in Key, CreateLabel(d, k) PROVE Good
  <2> DEFINE keys == cache["agent"][d]
             left == keys \cup {k}
             map == <<>>
             changes == <<>>
             removed == <<>>
             gone == {}
             wish == Keep
             declined == {}
  <2>1. /\ UpdateLabels("agent", d, keys, left, changes, removed, wish, declined)
        /\ Returned(last'.ok, LabelResult(d, map, gone))
    BY <1>5 DEF CreateLabel
  <2>2. map = RenameMap(keys, left, changes) /\ gone = RemovalTargets(keys, left, removed)
        /\ map \in Maps
    BY <1>3, <1>4
  <2>3. gone \in SUBSET Key
    OBVIOUS
  <2> HIDE DEF keys, left, map, changes, removed, gone, wish, declined, Good
  <2> QED BY <1>1, <2>1, <2>2, <2>3, AgentUpdates DEF Good
<1>6. ASSUME NEW d \in Doc, NEW k \in Key, NEW new \in Key, NEW yes \in BOOLEAN,
             UpdateLabel(d, k, new, yes)
      PROVE  Good
  <2> DEFINE keys == cache["agent"][d]
             left == (keys \ {k}) \cup {new}
             changes == [l \in {k} |-> [to |-> new, yes |-> yes]]
             wish == [Keep EXCEPT ![k] = IF yes THEN {new} ELSE {k}]
             declined == IF yes THEN {} ELSE {k}
             map == [l \in IF yes THEN {k} ELSE {} |-> new]
             none == <<>>
             gone == {}
  <2>1. /\ UpdateLabels("agent", d, keys, left, changes, none, wish, declined)
        /\ Returned(last'.ok, LabelResult(d, map, gone))
        /\ k \in keys /\ new \notin keys
    BY <1>6 DEF UpdateLabel
  <2>2. k # new
    BY <2>1
  <2>3. DOMAIN map = (IF yes THEN {k} ELSE {}) /\ \A l \in DOMAIN map : map[l] = new
    OBVIOUS
  <2>4. map \in Maps
    <3> DEFINE S == IF yes THEN {k} ELSE {}
    <3>1. S \in SUBSET Key
      OBVIOUS
    <3> HIDE DEF S
    <3>2. [l \in S |-> new] \in [S -> Key]
      OBVIOUS
    <3> QED BY <3>1, <3>2, IsMap DEF S
  <2>5. map = RenameMap(keys, left, changes)
    <3>1. DOMAIN changes = {k} /\ changes[k].to = new /\ changes[k].yes = yes
      OBVIOUS
    <3> HIDE DEF keys, changes
    <3>2. DOMAIN Propagated(changes) = IF yes THEN {k} ELSE {}
      BY <2>2, <3>1 DEF Propagated
    <3>3. \A l \in DOMAIN Propagated(changes) : Propagated(changes)[l] = new
      BY <3>1 DEF Propagated
    <3>4. DOMAIN Propagated(changes) \cap keys = IF yes THEN {k} ELSE {}
      BY <2>1, <3>2
    <3>5. RenameMap(keys, left, changes) =
            [l \in DOMAIN Propagated(changes) \cap keys |-> Propagated(changes)[l]]
      BY DEF RenameMap
    <3> QED BY <3>3, <3>4, <3>5
  <2>6. gone = RemovalTargets(keys, left, none)
    BY <1>3
  <2>7. gone \in SUBSET Key
    OBVIOUS
  <2> HIDE DEF keys, left, changes, wish, declined, map, none, gone, Good
  <2> QED BY <1>1, <2>1, <2>4, <2>5, <2>6, <2>7, AgentUpdates DEF Good
<1>7. ASSUME NEW d \in Doc, NEW k \in Key, NEW yes \in BOOLEAN, DeleteLabel(d, k, yes)
      PROVE  Good
  <2> DEFINE keys == cache["agent"][d]
             left == keys \ {k}
             removed == [l \in {k} |-> yes]
             wish == [Keep EXCEPT ![k] = IF yes THEN {} ELSE {k}]
             declined == IF yes THEN {} ELSE {k}
             map == <<>>
             none == <<>>
             gone == IF yes THEN {k} ELSE {}
  <2>1. /\ UpdateLabels("agent", d, keys, left, none, removed, wish, declined)
        /\ Returned(last'.ok, LabelResult(d, map, gone))
        /\ k \in keys
    BY <1>7 DEF DeleteLabel
  <2>2. map = RenameMap(keys, left, none) /\ map \in Maps /\ DOMAIN map = {}
    BY <1>3, <1>4, EmptyFunction
  <2>3. gone = RemovalTargets(keys, left, removed)
    <3>1. DOMAIN removed = {k} /\ removed[k] = yes
      OBVIOUS
    <3> HIDE DEF keys, removed
    <3> QED BY <2>1, <3>1 DEF RemovalTargets
  <2>4. gone \in SUBSET Key
    OBVIOUS
  <2> HIDE DEF keys, left, removed, wish, declined, map, none, gone, Good
  <2> QED BY <1>1, <2>1, <2>2, <2>3, <2>4, AgentUpdates DEF Good
<1>8. ASSUME NEW i \in Item, NEW set \in SUBSET Key, SetRequirementLabels(i, set) PROVE Good
  <2>1. /\ labels' = [labels EXCEPT ![i] = set] /\ failed' = failed
        /\ results' = Append(results, SetResult(i, set))
    BY <1>8 DEF SetRequirementLabels, Returned, history
  <2> DEFINE r == SetResult(i, set)
             K == labels'
  <2>2. /\ labels \in LabelSets /\ results \in Results /\ DocOf \in [Item -> Doc]
        /\ r \in ToolResults /\ r.tool = "set" /\ r.item = i /\ r.labels = set
    BY LabelsAssumption DEF Types, FilesOK, SetResult, SetToolResults, ToolResults
  <2> HIDE DEF r
  <2>3. ASSUME NEW j \in ItemsOf({current}) PROVE K[j] = Applied(labels, r, current)[j]
    <3>1. j \in Item /\ DocOf[j] = current
      BY DEF ItemsOf
    <3>2. CASE DocOf[i] = current
      BY <2>1, <2>2, <3>2 DEF Applied, About
    <3>3. CASE DocOf[i] # current
      <4>1. j # i /\ ~About(r, current)
        BY <2>2, <3>1, <3>3 DEF About
      <4> QED BY <2>1, <2>2, <3>1, <4>1 DEF Applied, LabelSets
    <3> QED BY <3>2, <3>3
  <2> HIDE DEF K
  <2>4. ~failed => CaughtUp(Append(results, r), K, shown, current)
    BY <2>2, <2>3, OneMore DEF Abreast
  <2> QED BY <1>1, <2>1, <2>4 DEF K, r
<1>9. Good
  <2> HIDE DEF Good
  <2> QED BY <1>5, <1>6, <1>7, <1>8, GivenType DEF Agent
<1> QED BY <1>2, <1>9

LEMMA ShowAbreast ==
    ASSUME Types, Types', Abreast, ShowResult
    PROVE  /\ DialogHere' /\ EditorFollows'
           /\ ~failed' => CaughtUp(results', labels', shown', current')
<1> DEFINE r == Head(results)
           relevant == r.tool = "label" /\ About(r, current)
           given == r.tool = "set" /\ r.item = editor.item
           e == IF relevant THEN Listed(editor, offered') ELSE editor
<1>1. /\ results # <<>> /\ results' = Tail(results) /\ shown' = Applied(shown, r, current)
      /\ dialog' = dialog /\ current' = current /\ labels' = labels /\ failed' = failed
      /\ editor' = IF e.item # 0 /\ (given \/ shown'[e.item] # shown[e.item])
                   THEN Loaded(e.item, shown'[e.item]) ELSE e
  BY DEF ShowResult, FollowedResult, Applied, history
<1>2. DialogHere'
  BY <1>1 DEF Abreast, DialogHere, Modal
<1>3. editor \in Editors /\ results \in Results
  BY DEF Types, ScreenOK
<1> HIDE DEF r, relevant, given
<1>4. EditorFollows'
  <2>1. CASE editor.item = 0
    <3>1. e.item = 0
      BY <1>3, <2>1 DEF Listed, Editors
    <3>2. editor'.item = 0
      BY <1>1, <3>1
    <3> QED BY <3>2 DEF EditorFollows
  <2>2. CASE editor.item # 0
    <3>1. current \in Freeform /\ DocOf[editor.item] = current
      BY <2>2 DEF Abreast, EditorFollows
    <3>2. e = editor
      BY <1>3, <3>1 DEF Listed, Editors
    <3>3. editor' = IF given \/ shown'[editor.item] # shown[editor.item]
                    THEN Loaded(editor.item, shown'[editor.item]) ELSE editor
      BY <1>1, <2>2, <3>2
    <3> HIDE DEF e
    <3>4. CASE editor' = Loaded(editor.item, shown'[editor.item])
      <4>1. /\ editor'.item = editor.item /\ editor'.labels = shown'[editor.item]
            /\ editor'.saved = shown'[editor.item]
        BY <3>4 DEF Loaded
      <4> QED BY <1>1, <3>1, <4>1 DEF EditorFollows
    <3>5. CASE editor' = editor /\ shown'[editor.item] = shown[editor.item]
      BY <1>1, <3>1, <3>5 DEF Abreast, EditorFollows
    <3> QED BY <3>3, <3>4, <3>5
  <2> QED BY <2>1, <2>2
<1>5. ~failed => CaughtUp(Tail(results), labels, Applied(shown, r, current), current)
  BY <1>1, <1>3, OneLess DEF Abreast, r
<1> QED BY <1>1, <1>2, <1>4, <1>5

LEMMA AbreastStep ==
    ASSUME Types, Types', Abreast, [Next]_vars, FollowingUses
    PROVE  Abreast'
<1>1. Distinct(dialog') /\ Faithful(dialog')
  BY DistinctStep, FaithfulStep, FollowingMeans DEF Abreast, FollowingUses
<1> DEFINE Rest == /\ DialogHere' /\ EditorFollows'
                   /\ ~failed' => CaughtUp(results', labels', shown', current')
<1>2. ASSUME DialogHere', EditorFollows', UNCHANGED <<results, labels, shown, current, failed>>
      PROVE  Rest
  BY <1>2 DEF Abreast
<1>3. ASSUME DialogHere', UNCHANGED <<editor, results, labels, shown, current, failed>>
      PROVE  Rest
  BY <1>3 DEF Abreast, EditorFollows
<1> HIDE DEF Rest
<1>4. CASE UNCHANGED vars
  <2>1. DialogHere' /\ UNCHANGED <<editor, results, labels, shown, current, failed>>
    BY <1>4 DEF vars, Abreast, DialogHere, Modal
  <2> QED BY <1>1, <1>3, <2>1 DEF Abreast, Rest
<1>5. CASE Next
  <2>1. ASSUME NEW d \in Doc, SelectDocument(d) PROVE Rest
    BY <2>1, SelectDocumentAbreast DEF Rest
  <2>2. ASSUME OpenDialog \/ \E d \in Doc : SwitchDocument(d) PROVE Rest
    BY <1>3, <2>2, OpenAbreast
  <2>3. ASSUME NEW i \in Item, SelectRequirement(i) PROVE Rest
    BY <1>2, <2>3, SelectRequirementAbreast
  <2>4. ASSUME NEW k \in Key, PickLabel(k) PROVE Rest
    BY <1>2, <2>4, PickLabelAbreast
  <2>5. ASSUME \/ \E k \in Key : AddLabel(k) \/ RetitleLabel(k)
               \/ \E k, new \in Key, yes \in BOOLEAN : RenameLabel(k, new, yes)
               \/ \E K \in SUBSET Key, yes \in BOOLEAN : DeleteLabels(K, yes)
        PROVE  Rest
    BY <1>3, <2>5, EditsAbreast
  <2>6. ASSUME SaveRequirement PROVE Rest
    BY <2>6, SaveAbreast DEF Rest
  <2>7. ASSUME DiscardEdits PROVE Rest
    BY <2>7, DiscardAbreast DEF Rest
  <2>8. ASSUME ConfirmDialog PROVE Rest
    BY <2>8, ConfirmAbreast DEF Rest
  <2>9. ASSUME CancelDialog PROVE Rest
    <3>1. DialogHere' /\ UNCHANGED <<editor, results, labels, shown, current, failed>>
      BY <2>9 DEF CancelDialog, DialogHere, Modal, NoDialog, Opened, files, screen, history
    <3> QED BY <1>3, <3>1
  <2>10. ASSUME Agent PROVE Rest
    BY <2>10, AgentAbreast DEF Rest
  <2>11. ASSUME ShowResult PROVE Rest
    BY <2>11, ShowAbreast DEF Rest
  <2>12. \/ \E d \in Doc : SelectDocument(d)
         \/ \E d \in Doc : SwitchDocument(d)
         \/ \E i \in Item : SelectRequirement(i)
         \/ \E k \in Key : PickLabel(k)
         \/ \E k \in Key : AddLabel(k) \/ RetitleLabel(k)
         \/ \E k, new \in Key, yes \in BOOLEAN : RenameLabel(k, new, yes)
         \/ \E K \in SUBSET Key, yes \in BOOLEAN : DeleteLabels(K, yes)
         \/ SaveRequirement \/ DiscardEdits
         \/ OpenDialog \/ ConfirmDialog \/ CancelDialog
         \/ Agent \/ ShowResult
    BY <1>5 DEF Next, User
  <2>13. Rest
    BY <2>1, <2>2, <2>3, <2>4, <2>5, <2>6, <2>7, <2>8, <2>9, <2>10, <2>11, <2>12
  <2> QED BY <1>1, <2>13 DEF Abreast, Rest
<1> QED BY <1>4, <1>5

\* The labels in the window are those on disk whenever no result of the agent's tools
\* about the document is on its way, unless an update ended half-way, and an untouched
\* editor holds those of its requirement: for any documents and requirements, however
\* many results are on their way and whatever they rename again, and in whatever order
\* dialog, editor and agent change labels, in runs without the uses that FollowingUses
\* names.
THEOREM ScreenFollowsDisk ==
    ASSUME FollowingUses
    PROVE  Spec => []ScreenShowsDisk
<1>1. Init => Abreast
  <2> SUFFICES ASSUME Init PROVE Abreast
    OBVIOUS
  <2>1. DialogHere /\ EditorFollows
    BY DEF Init, NoDialog, Opened, NoEditor, DialogHere, Modal, EditorFollows
  <2>2. shown \in LabelSets /\ results \in Results
    BY InitTypes DEF Types, ScreenOK
  <2>3. \A i \in ItemsOf({current}) : labels[i] = shown[i]
    BY DEF Init, ItemsOf
  <2>4. ~Awaited(current)
    BY EmptyFunction DEF Init, Awaited
  <2>5. CaughtUp(results, labels, shown, current)
    BY <2>2, <2>3, <2>4, NoneAwaited
  <2> QED BY <2>1, <2>5, InitDialog DEF Abreast
<1>2. Types /\ Types' /\ Abreast /\ [Next]_vars => Abreast'
  BY AbreastStep
<1>3. Types /\ Abreast => ScreenShowsDisk
  BY AbreastShows
<1> QED BY <1>1, <1>2, <1>3, AlwaysTypes, PTL DEF Spec

=============================================================================
