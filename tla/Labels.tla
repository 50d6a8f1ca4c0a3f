------------------------------- MODULE Labels -------------------------------
(* The labels of requirements: their definitions in the documents, the labels  *)
(* on the items, and the two ways definitions are changed, the labels dialog   *)
(* (labels_dialog.py) and the agent's tools, both through                      *)
(* RequirementsService.update_document_labels (services/requirements.py). The  *)
(* window keeps the labels of the document it shows in memory and follows      *)
(* every change (main_frame/documents.py, main_frame/agent.py); an editor      *)
(* holds the labels of one requirement (editor_panel.py).                      *)
EXTENDS Integers, FiniteSets, SequencesExt

CONSTANTS Doc, NoDoc, Parent,   \* documents and their parents
          Freeform,             \* the documents with allow_freeform
          Key, NoKey,           \* label keys, all distinct also without their case
          Items, DocOf,         \* requirements 1..Items, each document's in file order
          FirstDefs, FirstLabels,
          Given,                \* the sets of labels the agent gives requirements
          Uses,                 \* what the user and the agent do besides the plain
          MaxActs, MaxUpdates   \* bounds: steps of the user and the agent, updates

Item == 1..Items
Service == {"gui", "agent"}

ASSUME LabelsAssumption ==
    /\ IsFiniteSet(Doc) /\ NoDoc \notin Doc /\ NoKey \notin Key
    /\ Parent \in [Doc -> Doc \cup {NoDoc}] /\ Freeform \subseteq Doc
    /\ Items \in Nat /\ DocOf \in [Item -> Doc]
    /\ FirstDefs \in [Doc -> SUBSET Key] /\ FirstLabels \in [Item -> SUBSET Key]
    /\ Given \subseteq SUBSET Key
    /\ Uses \subseteq {"switched", "retitled", "reused", "added", "strict",
                       "during", "stale", "pending"}
    /\ {MaxActs, MaxUpdates} \subseteq Nat

VARIABLES
  defs, labels,   \* the files: keys a document defines, labels on an item
  cache,          \* per service: the definitions in its cached documents
  current,        \* current_doc_prefix
  shown,          \* labels of the requirements in the window's model
  offered,        \* _label_defs: the labels the editor was given
  editor,         \* [item, labels, saved, touched]; item 0 when nothing is selected
  dialog,         \* the labels dialog
  results,        \* results of the agent's tools on their way to the window
  \* history and bounds
  last,           \* the last update of definitions: [nth, doc, ok, wish]
  known,          \* <<item, label>>: undefined at first, by choice or after an error
  failed,         \* an update failed since the window loaded the document
  acts

vars == <<defs, labels, cache, current, shown, offered, editor, dialog, results,
          last, known, failed, acts>>
files == <<defs, labels, cache>>
screen == <<current, shown, offered, editor>>
history == <<last, known, failed>>

NoEditor == [item |-> 0, labels |-> {}, saved |-> {}, touched |-> FALSE]
Keep == [k \in Key |-> {k}]  \* a wish: what the user wants in place of each label

\* loaded, rows: the keys the list was filled with and those in it now; a row's
\* value is the definition it was loaded as.
\* wish and declined are what the user has asked for so far (history).
Opened(d, original, keys) ==
    [doc |-> d, original |-> original, loaded |-> keys,
     rows |-> [k \in keys |-> k],
     lookup |-> [k \in keys |-> k],       \* _original_key_lookup
     changes |-> <<>>, removed |-> <<>>,  \* _key_changes, _removed_labels
     wish |-> Keep, declined |-> {}]
NoDialog == Opened(NoDoc, {}, {})

-------------------------------------------------------------------------------
(* Documents and the labels they know                                          *)

\* d and its ancestors, nearest first.
Lineages ==
    [d \in Doc |->
       LET up[n \in 0..Cardinality(Doc)] ==
               IF n = 0 THEN <<d>>
               ELSE LET p == Parent[Last(up[n - 1])]
                    IN IF p = NoDoc THEN up[n - 1] ELSE Append(up[n - 1], p)
       IN up[Cardinality(Doc) - 1]]
Lineage(d) == Lineages[d]
IsAncestor(e, d) == d \in ToSet(Lineage(e))
Subtree(d) == {e \in Doc : IsAncestor(e, d)}
ItemsOf(D) == {i \in Item : DocOf[i] \in D}

\* collect_labels: the keys allowed in d, and whether any key is.
Allowed(definitions, d) == UNION {definitions[e] : e \in ToSet(Lineage(d))}
AnyKey(d) == \E e \in Freeform : IsAncestor(d, e)
Valid(definitions, d, set) == AnyKey(d) \/ set \subseteq Allowed(definitions, d)

\* _promote_label_definitions: labels nobody defines become definitions of the
\* nearest document that takes any key.
Nearest(d) == Lineage(d)[Min({n \in DOMAIN Lineage(d) : Lineage(d)[n] \in Freeform})]
Promoted(definitions, d, observed) ==
    LET missing == observed \ Allowed(definitions, d)
    IN IF missing = {} \/ ~AnyKey(d) THEN definitions
       ELSE [definitions EXCEPT ![Nearest(d)] = @ \cup missing]

\* Definitions after service s has promoted: saving writes its cached document
\* and reloads the cache.
Promote(s, d, observed) ==
    LET written == Promoted(cache[s], d, observed)
    IN IF written = cache[s] THEN UNCHANGED <<defs, cache>>
       ELSE /\ defs' = [e \in Doc |-> IF written[e] = cache[s][e] THEN defs[e] ELSE written[e]]
            /\ cache' = [cache EXCEPT ![s] = defs']

\* sync_labels_from_requirements.
Sync(s, d) == Promote(s, d, UNION {labels[i] : i \in ItemsOf({d})})

-------------------------------------------------------------------------------
(* update_document_labels                                                      *)

Replace(set, map, gone) ==  \* rename_map first, then removal_targets
    {IF k \in DOMAIN map THEN map[k] ELSE k : k \in {l \in set : l \in DOMAIN map \/ l \notin gone}}

\* The renames that are to reach the requirements.
Propagated(changes) ==
    [k \in {l \in DOMAIN changes : changes[l].yes /\ changes[l].to # l} |-> changes[k].to]

\* _propagate_label_definition_renames: the descendants' own definitions.
Redefined(d, keys, map) ==
    [e \in Doc |-> IF e = d THEN keys
                   ELSE IF e \in Subtree(d) THEN Replace(defs[e], map, {}) ELSE defs[e]]

\* Mutant: renames are looked up among the keys that are left.
RenameMap_Left(original, keys, changes) ==
    LET map == Propagated(changes)
    IN [k \in DOMAIN map \cap keys |-> map[k]]

RenameMap(original, keys, changes) ==
    LET map == Propagated(changes)
    IN [k \in DOMAIN map \cap original |-> map[k]]

RemovalTargets(original, keys, removed) ==
    {k \in original \ keys : k \in DOMAIN removed /\ removed[k]}

\* The items are rewritten document by document, in an order of documents the
\* file system gives, each document's in order; the first that does not validate
\* ends the call.
Rewritten(d, definitions, map, gone) ==
    LET new == [i \in Item |-> IF DocOf[i] \in Subtree(d) THEN Replace(labels[i], map, gone)
                               ELSE labels[i]]
        changed == {i \in ItemsOf(Subtree(d)) : labels[i] \cap (DOMAIN map \cup gone) # {}}
        bad == {i \in changed : ~Valid(definitions, DocOf[i], new[i])}
        Until(f, D) == {i \in changed : DocOf[i] \in D \/ (DocOf[i] = DocOf[f] /\ i < f)}
    IN IF bad = {} THEN {[ok |-> TRUE, labels |-> new]}
       ELSE {[ok |-> FALSE, labels |-> [i \in Item |-> IF i \in Until(w[1], w[2]) THEN new[i]
                                                       ELSE labels[i]]] :
               w \in {v \in bad \X SUBSET Doc : DocOf[v[1]] \notin v[2]
                                                /\ Until(v[1], v[2]) \cap bad = {}}}

Undefined(definitions, set) ==
    {p \in Item \X Key : p[2] \in set[p[1]] /\ ~Valid(definitions, DocOf[p[1]], {p[2]})}

\* The definitions of d become keys. For the record: what the caller wants in place
\* of a label, and which labels he wants to leave on the requirements undefined;
\* an error tells him of the others.
UpdateLabels(s, d, original, keys, changes, removed, wish, declined) ==
    LET map == RenameMap(original, keys, changes)
        gone == RemovalTargets(original, keys, removed)
        definitions == Redefined(d, keys, Propagated(changes))
    IN \E r \in Rewritten(d, definitions, map, gone) :
         /\ defs' = definitions /\ labels' = r.labels
         /\ cache' = [cache EXCEPT ![s] = definitions]
         /\ last' = [nth |-> last.nth + 1, doc |-> d, ok |-> r.ok, wish |-> wish]
         /\ LET undefined == Undefined(definitions, r.labels)
            IN known' = undefined \cap (known \cup
                 {p \in undefined : \/ ~r.ok
                                    \/ p[1] \in ItemsOf(Subtree(d)) /\ p[2] \in declined})
         /\ failed' = (failed \/ ~r.ok)

-------------------------------------------------------------------------------
(* The window                                                                  *)

Init ==
    /\ defs = FirstDefs /\ labels = FirstLabels /\ cache = [s \in Service |-> FirstDefs]
    /\ current \in Doc
    /\ shown = [i \in Item |-> IF DocOf[i] = current THEN FirstLabels[i] ELSE {}]
    /\ offered = FirstDefs[current] /\ editor = NoEditor
    /\ dialog = NoDialog /\ results = <<>>
    /\ last = [nth |-> 0, doc |-> NoDoc, ok |-> TRUE, wish |-> Keep]
    /\ known = Undefined(FirstDefs, FirstLabels) /\ failed = FALSE
    /\ acts = 0

Modal == dialog.doc # NoDoc
Dirty == editor.labels # editor.saved
Fits(use, harmless) == harmless \/ use \in Uses

\* The definitions service s works with are those on disk, where they count.
UpToDate(s) == \A d \in Doc \ Freeform : cache[s][d] = defs[d]

\* The documents a result tells of: its requirement's, or its labels' document and
\* those below. Awaited: a result that tells of d is on its way to the window.
About(r, d) == IF r.tool = "set" THEN DocOf[r.item] = d ELSE IsAncestor(d, r.doc)
Awaited(d) == \E n \in DOMAIN results : About(results[n], d)

\* update_labels_list: an editor forgets the labels the document does not define.
Listed(e, keys) ==
    [e EXCEPT !.labels = IF current \in Freeform THEN @ ELSE @ \cap keys]
Loaded(i, set) == [item |-> i, labels |-> set, saved |-> set, touched |-> FALSE]

\* _load_document_contents. Whoever leaves an item with unsaved edits has saved or
\* discarded them.
SelectDocument(d) ==
    /\ ~Modal /\ ~Dirty /\ d # current
    /\ Fits("pending", ~Awaited(d))
    /\ current' = d
    /\ shown' = [i \in Item |-> IF DocOf[i] = d THEN labels[i] ELSE {}]
    /\ offered' = cache["gui"][d]
    /\ editor' = NoEditor
    /\ failed' = FALSE
    /\ UNCHANGED <<files, dialog, results, last, known, acts>>

\* on_requirement_selected.
SelectRequirement(i) ==
    /\ ~Modal /\ ~Dirty /\ DocOf[i] = current /\ i # editor.item
    /\ Fits("strict", current \in Freeform)
    /\ editor' = Loaded(i, shown[i])
    /\ UNCHANGED <<files, current, shown, offered, dialog, results, history, acts>>

\* _on_labels_click: one label more or less, among the document's, the inherited
\* and the selected ones, or any where the document takes any key.
PickLabel(k) ==
    /\ ~Modal /\ editor.item # 0 /\ acts < MaxActs
    /\ current \in Freeform \/ k \in Allowed(cache["gui"], current) \cup editor.labels
    /\ LET picked == IF k \in editor.labels THEN editor.labels \ {k}
                     ELSE editor.labels \cup {k}
       IN editor' = [editor EXCEPT
            !.labels = IF current \in Freeform THEN picked ELSE picked \cap offered,
            !.touched = TRUE]
    /\ acts' = acts + 1
    /\ UNCHANGED <<files, current, shown, offered, dialog, results, history>>

\* _save_editor_contents: the item is written as the editor holds it, unchecked.
SaveRequirement ==
    /\ ~Modal /\ editor.item # 0 /\ acts < MaxActs
    /\ Fits("pending", ~Awaited(current))
    /\ labels' = [labels EXCEPT ![editor.item] = editor.labels]
    /\ shown' = [shown EXCEPT ![editor.item] = editor.labels]
    /\ offered' = cache["gui"][current]
    /\ editor' = Listed(Loaded(editor.item, editor.labels), offered')
    /\ acts' = acts + 1
    /\ UNCHANGED <<defs, cache, current, dialog, results, history>>

\* _handle_editor_discard reads the file again.
DiscardEdits ==
    /\ ~Modal /\ Dirty
    /\ Fits("pending", ~Awaited(current))
    /\ shown' = [shown EXCEPT ![editor.item] = labels[editor.item]]
    /\ editor' = Loaded(editor.item, labels[editor.item])
    /\ UNCHANGED <<files, current, offered, dialog, results, history, acts>>

-------------------------------------------------------------------------------
(* The labels dialog                                                           *)

\* on_manage_labels: the labels of the items become definitions, where they may.
OpenDialog ==
    /\ ~Modal /\ last.nth < MaxUpdates
    /\ Fits("stale", UpToDate("gui"))
    /\ Sync("gui", current)
    /\ dialog' = Opened(current, cache'["gui"][current], cache'["gui"][current])
    /\ UNCHANGED <<labels, screen, results, history, acts>>

\* _on_document_selected with _replace_state; on_manage_labels keeps the labels it
\* opened the dialog with as the original ones.
SwitchDocument(d) ==
    /\ Modal /\ d # dialog.doc /\ acts < MaxActs
    /\ Sync("gui", d)
    /\ dialog' = Opened(d, dialog.original, cache'["gui"][d])
    /\ acts' = acts + 1
    /\ UNCHANGED <<labels, screen, results, history>>

Without(f, k) == [l \in DOMAIN f \ {k} |-> f[l]]
With(f, k, value) == [l \in DOMAIN f \cup {k} |-> IF l = k THEN value ELSE f[l]]
Original(k) == IF k \in DOMAIN dialog.lookup THEN dialog.lookup[k] ELSE k
Renamed == {k \in Key : \E r \in DOMAIN dialog.rows : dialog.rows[r] = k /\ r # k}

\* What the user may answer "yes" to without meeting a known divergence.
Asked(k, yes) ==
    yes => /\ Fits("switched", /\ dialog.doc = current
                               /\ dialog.rows[k] \in dialog.original \cup {NoKey})
           /\ Fits("added", dialog.rows[k] # NoKey)

Edited(d) ==
    /\ Modal /\ acts < MaxActs
    /\ dialog' = d
    /\ acts' = acts + 1
    /\ UNCHANGED <<files, screen, results, history>>

\* _on_add_label, _on_add_preset_set.
AddLabel(k) ==
    /\ k \notin DOMAIN dialog.rows
    /\ Fits("reused", k \notin DOMAIN dialog.changes \cup DOMAIN dialog.removed)
    /\ Edited([dialog EXCEPT
         !.rows = With(@, k, NoKey),
         !.lookup = IF k \in DOMAIN @ THEN @ ELSE With(@, k, k)])

\* _on_edit_selected with another key; yes: the requirements are to follow.
RenameLabel(k, new, yes) ==
    /\ k \in DOMAIN dialog.rows /\ new \notin DOMAIN dialog.rows
    /\ Asked(k, yes) /\ Fits("reused", new \notin DOMAIN dialog.removed)
    /\ LET o == Original(k)
           was == dialog.rows[k]
       IN Edited([dialog EXCEPT
            !.rows = With(Without(@, k), new, was),
            !.lookup = With(Without(@, k), new, o),
            !.removed = Without(@, o),
            !.changes = IF new = o THEN Without(@, o)
                        ELSE With(@, o, [to |-> new, yes |-> yes]),
            !.wish = IF was = NoKey THEN @ ELSE [@ EXCEPT ![was] = IF yes THEN {new} ELSE {was}],
            !.declined = IF yes \/ new = was THEN @ \ {was} ELSE @ \cup {was}])

\* _on_edit_selected with the key left as it is.
RetitleLabel(k) ==
    /\ k \in DOMAIN dialog.rows
    /\ Fits("retitled", Original(k) \notin DOMAIN dialog.changes)
    /\ Edited([dialog EXCEPT !.changes = Without(@, Original(k))])

\* Mutant: a deleted label keeps the answer given when it was renamed.
DeleteLabels_KeepsChange(K, yes) ==
    /\ K # {} /\ K \subseteq DOMAIN dialog.rows /\ \A k \in K : Asked(k, yes)
    /\ LET O == {Original(k) : k \in K}
           W == {dialog.rows[k] : k \in K} \ {NoKey}
       IN /\ Fits("reused", yes => O \cap (DOMAIN dialog.rows \ K) = {})
          /\ Edited([dialog EXCEPT
            !.rows = [k \in DOMAIN @ \ K |-> @[k]],
            !.lookup = [k \in DOMAIN @ \ K |-> @[k]],
            !.removed = [o \in DOMAIN @ \cup O |-> IF o \in O THEN yes ELSE @[o]],
            !.wish = [k \in Key |-> IF k \in W THEN IF yes THEN {} ELSE {k} ELSE @[k]],
            !.declined = IF yes THEN @ \ W ELSE @ \cup W])

\* _on_delete_selected and _on_clear_all, of a set of rows with one answer.
DeleteLabels(K, yes) ==
    /\ K # {} /\ K \subseteq DOMAIN dialog.rows /\ \A k \in K : Asked(k, yes)
    /\ LET O == {Original(k) : k \in K}
           W == {dialog.rows[k] : k \in K} \ {NoKey}
       IN /\ Fits("reused", yes => O \cap (DOMAIN dialog.rows \ K) = {})
          /\ Edited([dialog EXCEPT
            !.rows = [k \in DOMAIN @ \ K |-> @[k]],
            !.lookup = [k \in DOMAIN @ \ K |-> @[k]],
            !.removed = [o \in DOMAIN @ \cup O |-> IF o \in O THEN yes ELSE @[o]],
            !.changes = [o \in DOMAIN @ \ O |-> @[o]],
            !.wish = [k \in Key |-> IF k \in W THEN IF yes THEN {} ELSE {k} ELSE @[k]],
            !.declined = IF yes THEN @ \ W ELSE @ \cup W])

CancelDialog ==
    /\ Modal
    /\ dialog' = NoDialog
    /\ UNCHANGED <<files, screen, results, history, acts>>

\* _apply_label_updates_to_requirements: the same renames and removals, read from
\* the dialog's answers alone; a clean editor is loaded again.
Followed(answers, removed) ==
    LET map == Propagated(answers)
        gone == {k \in DOMAIN removed : removed[k]}
    IN [i \in Item |-> IF DocOf[i] = current THEN Replace(shown[i], map, gone) ELSE shown[i]]

\* OK in the dialog. After an error the window follows nothing.
ConfirmDialog ==
    /\ Modal
    /\ Fits("pending", ~Awaited(current))
    /\ Fits("during", defs[dialog.doc] = dialog.loaded) /\ Fits("stale", UpToDate("gui"))
    /\ UpdateLabels("gui", dialog.doc, dialog.original, DOMAIN dialog.rows,
                    dialog.changes, dialog.removed, dialog.wish, dialog.declined)
    /\ dialog' = NoDialog
    /\ IF ~last'.ok THEN UNCHANGED <<shown, offered, editor>>
       ELSE /\ offered' = cache'["gui"][current]
            /\ shown' = IF dialog.doc = current THEN Followed(dialog.changes, dialog.removed)
                        ELSE shown
            /\ LET e == Listed(editor, offered')
               IN editor' = IF e.item = 0 \/ shown' = shown \/ e.labels # e.saved THEN e
                            ELSE Loaded(e.item, shown'[e.item])
    /\ UNCHANGED <<current, results, acts>>

-------------------------------------------------------------------------------
(* The agent's tools                                                           *)

\* The agent works with its own cached definitions.
Working ==
    /\ acts < MaxActs
    /\ Fits("stale", UpToDate("agent"))

\* A tool that reports an error is not announced.
Returned(ok, result) ==
    /\ results' = IF ok THEN Append(results, result) ELSE results
    /\ acts' = acts + 1

\* A result as the window reads it: the renames and removals that were to reach the
\* requirements, or the labels an item was given.
LabelResult(d, map, gone) == [tool |-> "label", doc |-> d, map |-> map, gone |-> gone]
SetResult(i, set) == [tool |-> "set", item |-> i, labels |-> set]

\* create_label.
CreateLabel(d, k) ==
    LET keys == cache["agent"][d]
    IN /\ Working /\ last.nth < MaxUpdates /\ k \notin keys
       /\ UpdateLabels("agent", d, keys, keys \cup {k}, <<>>, <<>>, Keep, {})
       /\ Returned(last'.ok, LabelResult(d, <<>>, {}))
       /\ UNCHANGED <<screen, dialog>>

\* update_label with a new key.
UpdateLabel(d, k, new, yes) ==
    LET keys == cache["agent"][d]
        changes == [l \in {k} |-> [to |-> new, yes |-> yes]]
    IN /\ Working /\ last.nth < MaxUpdates /\ k \in keys /\ new \notin keys
       /\ UpdateLabels("agent", d, keys, (keys \ {k}) \cup {new}, changes, <<>>,
                       [Keep EXCEPT ![k] = IF yes THEN {new} ELSE {k}],
                       IF yes THEN {} ELSE {k})
       /\ Returned(last'.ok, LabelResult(d, [l \in IF yes THEN {k} ELSE {} |-> new], {}))
       /\ UNCHANGED <<screen, dialog>>

\* delete_label.
DeleteLabel(d, k, yes) ==
    LET keys == cache["agent"][d]
    IN /\ Working /\ last.nth < MaxUpdates /\ k \in keys
       /\ UpdateLabels("agent", d, keys, keys \ {k}, <<>>, [l \in {k} |-> yes],
                       [Keep EXCEPT ![k] = IF yes THEN {} ELSE {k}],
                       IF yes THEN {} ELSE {k})
       /\ Returned(last'.ok, LabelResult(d, <<>>, IF yes THEN {k} ELSE {}))
       /\ UNCHANGED <<screen, dialog>>

\* Mutant: the labels are not validated.
SetRequirementLabels_Unchecked(i, set) ==
    /\ Working /\ set # labels[i]
    /\ Promote("agent", DocOf[i], set)
    /\ labels' = [labels EXCEPT ![i] = set]
    /\ Returned(TRUE, SetResult(i, set))
    /\ UNCHANGED <<screen, dialog, history>>

\* set_requirement_labels: promoted where that is allowed, refused where not.
SetRequirementLabels(i, set) ==
    /\ Working /\ set # labels[i]
    /\ Valid(cache["agent"], DocOf[i], set)
    /\ Promote("agent", DocOf[i], set)
    /\ labels' = [labels EXCEPT ![i] = set]
    /\ Returned(TRUE, SetResult(i, set))
    /\ UNCHANGED <<screen, dialog, history>>

\* Mutant: a label tool's result counts for the document it names alone.
FollowedResult_NamedDocument(r) ==
    IF ~About(r, current) THEN shown
    ELSE IF r.tool = "set" THEN [shown EXCEPT ![r.item] = r.labels]
    ELSE IF r.doc # current THEN shown
    ELSE [i \in Item |-> Replace(shown[i], r.map, r.gone)]

\* The window's labels after a result: those an item was given, or the renames and
\* removals of a label tool used on the document shown or one above it.
FollowedResult(r) ==
    IF ~About(r, current) THEN shown
    ELSE IF r.tool = "set" THEN [shown EXCEPT ![r.item] = r.labels]
    ELSE [i \in Item |-> Replace(shown[i], r.map, r.gone)]

\* _handle_mcp_tool_event: each result has an event of its own, and the GUI thread
\* takes the events in their order (_broadcast_tool_result, wx.CallAfter).
ShowResult ==
    /\ results # <<>>
    /\ results' = Tail(results)
    /\ LET r == Head(results)
           relevant == r.tool = "label" /\ About(r, current)
           given == r.tool = "set" /\ r.item = editor.item
       IN /\ shown' = FollowedResult(r)
          /\ cache' = IF r.tool = "label" THEN [cache EXCEPT !["gui"] = defs] ELSE cache
          /\ offered' = IF relevant THEN defs[current] ELSE offered
          /\ LET e == IF relevant THEN Listed(editor, offered') ELSE editor
             IN editor' = IF e.item # 0 /\ (given \/ shown'[e.item] # shown[e.item])
                          THEN Loaded(e.item, shown'[e.item]) ELSE e
    /\ UNCHANGED <<defs, labels, current, dialog, history, acts>>

-------------------------------------------------------------------------------
User ==
    \/ \E d \in Doc : SelectDocument(d) \/ SwitchDocument(d)
    \/ \E i \in Item : SelectRequirement(i)
    \/ \E k \in Key : PickLabel(k) \/ AddLabel(k) \/ RetitleLabel(k)
    \/ \E k, new \in Key, yes \in BOOLEAN : RenameLabel(k, new, yes)
    \/ \E K \in SUBSET Key, yes \in BOOLEAN : DeleteLabels(K, yes)
    \/ SaveRequirement \/ DiscardEdits
    \/ OpenDialog \/ ConfirmDialog \/ CancelDialog

Agent ==
    \/ \E d \in Doc, k \in Key :
         \/ CreateLabel(d, k)
         \/ \E new \in Key, yes \in BOOLEAN : UpdateLabel(d, k, new, yes)
         \/ \E yes \in BOOLEAN : DeleteLabel(d, k, yes)
    \/ \E i \in Item, set \in Given : SetRequirementLabels(i, set)

Next == User \/ Agent \/ ShowResult
Spec == Init /\ [][Next]_vars

-------------------------------------------------------------------------------
(* Properties                                                                  *)

TypeOK ==
    /\ defs \in [Doc -> SUBSET Key] /\ labels \in [Item -> SUBSET Key]
    /\ cache \in [Service -> [Doc -> SUBSET Key]]
    /\ current \in Doc /\ shown \in [Item -> SUBSET Key] /\ offered \subseteq Key
    /\ editor.item \in Item \cup {0} /\ editor.labels \cup editor.saved \subseteq Key
    /\ Modal => /\ dialog.doc \in Doc /\ dialog.original \subseteq Key
                /\ DOMAIN dialog.rows \subseteq Key
                /\ dialog.lookup \in [DOMAIN dialog.rows -> Key]
                \* no two rows come from one definition, and answers are about
                \* definitions that are gone or have another key
                /\ \A k, l \in DOMAIN dialog.rows :
                     dialog.lookup[k] = dialog.lookup[l] => k = l
                /\ DOMAIN dialog.changes \cap DOMAIN dialog.removed = {}

\* "ensuring that document metadata and requirement payloads stay in sync when keys
\* change or disappear" (docs/ARCHITECTURE.md:252): an update that reports no error
\* has given every requirement below the document what was asked for in place of
\* each label, whatever was renamed, renamed back, added and deleted before, and
\* has left the others alone.
DecisionsAreApplied ==
    [][last'.nth # last.nth /\ last'.ok =>
         \A i \in Item :
           labels'[i] = IF IsAncestor(DocOf[i], last'.doc)
                        THEN UNION {last'.wish[k] : k \in labels[i]} ELSE labels[i]]_vars

\* A requirement carries a label nobody defines only where that was asked for, or
\* after an error that said so (validate_labels, save_item).
UndefinedIsKnown == Undefined(defs, labels) \subseteq known

\* "so the editor and list widgets reflect the latest state immediately"
\* (docs/ARCHITECTURE.md:569): the labels in memory are those on disk, unless an
\* update failed or a result about the document is still on its way, and an editor
\* nobody picked labels in holds those of its requirement.
ScreenShowsDisk ==
    ~failed /\ ~Awaited(current) =>
      /\ \A i \in ItemsOf({current}) : shown[i] = labels[i]
      /\ editor.item # 0 /\ ~editor.touched => editor.labels = shown[editor.item]

\* An update that fails has changed nothing.
FailedChangesNothing ==
    [][last'.nth # last.nth /\ ~last'.ok => defs' = defs /\ labels' = labels]_vars
===============================================================================
