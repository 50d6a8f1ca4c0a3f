---------------------------- MODULE RequirementStore ----------------------------
(* The requirement directory (app/core/document_store) and the two             *)
(* RequirementsService objects that write it: the one of the GUI and the one of *)
(* the in-process MCP server, each with its own cache of the documents, on      *)
(* threads of their own.  A call reads and validates first and then changes the *)
(* files one at a time: it is one action that leaves a plan of effects, and one *)
(* step per effect.  An exception drops the rest of the plan.                   *)
EXTENDS Integers, Sequences, FiniteSets, FiniteSetsExt, Functions

CONSTANTS Prefix,         \* document prefixes
          MaxId,          \* bound: item numbers of a document
          Text,           \* requirement statements
          MaxCalls,       \* bound: calls asked for
          Editors,        \* editor windows of the GUI
          Uses,           \* the operations the users of this instance perform
          NotLoaded,      \* a service that has not read the documents yet
          InitialDocs,    \* the documents on disk at the start
          InitialItems    \* the requirements on disk at the start

VARIABLES docs,      \* document.json files: prefix -> [parent, rev]
          items,     \* items/<id>.json files: RID -> requirement
          cache,     \* RequirementsService._documents of each service
          call,      \* the effects each service's call still has to perform
          swept,     \* the item a sweep has read, without the link, and not yet written
          editor,    \* the requirement an editor window holds, if any
          calls,     \* calls asked for so far
          alive,     \* history: requirements saved and not deleted since
          changed    \* history: requirement set and statement changes per document

vars == <<docs, items, cache, call, swept, editor, calls, alive, changed>>

Services == {"gui", "mcp"}
NoDoc == "none"
Rid == Prefix \X (1..MaxId)
None == 0

-------------------------------------------------------------------------------
(* Documents                                                                   *)

Document == [parent : Prefix \cup {NoDoc}, rev : Nat]
IsDocuments(D) == DOMAIN D \subseteq Prefix /\ \A p \in DOMAIN D : D[p] \in Document

\* A service's documents: read on first use.
EnsureDocuments(s) == IF cache[s] = NotLoaded THEN docs ELSE cache[s]

\* get_document: a prefix the cache lacks is looked for on disk.
DocumentsWith(s, p) ==
    IF p \in DOMAIN EnsureDocuments(s) THEN EnsureDocuments(s) ELSE docs

ParentsIn(D) == [p \in DOMAIN D |-> D[p].parent]

\* The chain of parents the loop of is_ancestor walks, p itself first.
Chain(parents, p) ==
    LET up[n \in 0..Cardinality(Prefix)] ==
            IF n = 0 THEN p
            ELSE IF up[n - 1] \in DOMAIN parents THEN parents[up[n - 1]] ELSE NoDoc
    IN  {up[n] : n \in 0..Cardinality(Prefix)} \ {NoDoc}

IsAncestor(D, child, ancestor) == ancestor \in Chain(ParentsIn(D), child)

-------------------------------------------------------------------------------
(* Items and links.  uid and seen are history: which requirement a file holds, *)
(* and what the target said when the link took its revision.                   *)

Seen(item) == <<item.uid, item.text>>
Link == [rev : Nat, suspect : BOOLEAN, seen : {<<>>} \cup (Int \X Text)]
IsItem(item) ==
    /\ item \in [uid : Int, text : Text, rev : Nat, links : {item.links}]
    /\ item.links \in [DOMAIN item.links -> Link] /\ DOMAIN item.links \subseteq Rid
NewLink == [rev |-> None, suspect |-> FALSE, seen |-> <<>>]

RidsOf(p) == {r \in DOMAIN items : r[1] = p}
\* Mutants: the number of items, or the last number, instead of the next.
NextItemId_CountsItems(p) == Cardinality(RidsOf(p)) + 1
NextItemId_LastUsed(p) == Max({r[2] : r \in RidsOf(p)} \cup {0})
NextItemId(p) == Max({r[2] : r \in RidsOf(p)} \cup {0}) + 1

\* Mutant: storing a link takes over the target's current revision.
PrepareLinks_TakesRevision(D, links) ==
    [t \in DOMAIN links |->
        IF t[1] \notin DOMAIN D \/ t \notin DOMAIN items
        THEN [links[t] EXCEPT !.suspect = TRUE]
        ELSE [rev |-> items[t].rev, suspect |-> FALSE,
              seen |-> IF links[t].rev = None THEN Seen(items[t]) ELSE links[t].seen]]

\* _update_link_suspicions and _prepare_links_for_storage.
PrepareLinks(D, links) ==
    [t \in DOMAIN links |->
        IF t[1] \notin DOMAIN D \/ t \notin DOMAIN items
        THEN [links[t] EXCEPT !.suspect = TRUE]
        ELSE IF links[t].rev = None
             THEN [rev |-> items[t].rev, suspect |-> FALSE, seen |-> Seen(items[t])]
             ELSE [links[t] EXCEPT !.suspect = (links[t].rev # items[t].rev)]]

ValidItemLinks(D, rid, links) ==
    \A t \in DOMAIN links :
        /\ t = rid => links[t].suspect
        /\ t[1] \in DOMAIN D
        /\ IsAncestor(D, rid[1], t[1])
        /\ t \notin DOMAIN items => links[t].suspect

Loaded(D, rid) == [items[rid] EXCEPT !.links = PrepareLinks(D, @)]
LinksTo(T) == [t \in T |-> NewLink]
Without(links, t) == Restrict(links, DOMAIN links \ {t})
With(links, t, link) == [u \in DOMAIN links \cup {t} |-> IF u = t THEN link ELSE links[u]]

\* _resolve_requirement finds the file of rid.
Resolves(D, rid) == rid[1] \in DOMAIN D /\ rid \in DOMAIN items

-------------------------------------------------------------------------------
(* Effects                                                                     *)

Save(rid, item)     == <<[op |-> "save", rid |-> rid, item |-> item]>>
Bump(p)             == <<[op |-> "bump", prefix |-> p]>>
Unlink(rid)         == <<[op |-> "unlink", rid |-> rid]>>
DeleteItem(rid, must) == <<[op |-> "deleteItem", rid |-> rid, must |-> must]>>
Sweep(rid, todo, ids) == <<[op |-> "sweep", rid |-> rid, todo |-> todo, ids |-> ids]>>
WriteDocument(p, d) == <<[op |-> "writeDocument", prefix |-> p, doc |-> d]>>
DropDocument(p)     == <<[op |-> "dropDocument", prefix |-> p]>>
RemoveTree(p)       == <<[op |-> "removeTree", prefix |-> p]>>
Refresh             == <<[op |-> "refresh"]>>
CloseEditor(e)      == <<[op |-> "closeEditor", editor |-> e]>>
BumpIf(cond, p)     == IF cond THEN Bump(p) ELSE <<>>

\* _update_requirement: only a new statement raises the revision (mutant: none does).
WithStatement_KeepsRevision(item, text) == [item EXCEPT !.text = text]
WithStatement(item, text) ==
    [item EXCEPT !.text = text, !.rev = @ + (IF text # item.text THEN 1 ELSE 0)]

\* save_requirement_payload: a revision other than the stored one is an override
\* (mutant: a new statement leaves the revision as it is).
PayloadToSave_NeverRaises(rid, held, text) == [held EXCEPT !.text = text]
PayloadToSave(rid, held, text) ==
    LET raise == /\ rid \in DOMAIN items
                 /\ held.rev = items[rid].rev
                 /\ text # items[rid].text
    IN  [held EXCEPT !.text = text, !.rev = @ + (IF raise THEN 1 ELSE 0)]

\* A payload that is new or has a new statement bumps the document (mutant: the
\* first save of a requirement does not).
BumpsDocument_StoredOnly(rid, text) ==
    rid \in DOMAIN items /\ text # items[rid].text
BumpsDocument(rid, text) ==
    rid \in DOMAIN items => text # items[rid].text

CreatePlan(rid, item) == Save(rid, item) \o Bump(rid[1])

\* delete_requirement (mutant: the document's revision is forgotten).
DeletePlan_NoBump(rid) == DeleteItem(rid, TRUE)
DeletePlan(rid) == DeleteItem(rid, TRUE) \o Bump(rid[1])

\* move_requirement: the new file, the referrers, both documents, the old file.
\* Mutants: the old file goes first; the document moved from is not bumped.
MovePlan_UnlinksFirst(rid, new, item, redirect) ==
    Unlink(rid) \o Save(new, item) \o redirect \o Bump(rid[1]) \o Bump(new[1])
MovePlan_BumpsTarget(rid, new, item, redirect) ==
    Save(new, item) \o redirect \o Bump(new[1]) \o Unlink(rid)
MovePlan(rid, new, item, redirect) ==
    Save(new, item) \o redirect \o Bump(rid[1]) \o Bump(new[1]) \o Unlink(rid)

\* The directory a team starts from: documents with items that are well formed.
ASSUME StoreAssumption ==
    /\ IsFiniteSet(Prefix) /\ NoDoc \notin Prefix /\ MaxId \in Nat /\ MaxCalls \in Nat
    /\ IsDocuments(InitialDocs) /\ DOMAIN InitialItems \subseteq Rid
    /\ \A r \in DOMAIN InitialItems : IsItem(InitialItems[r])

Init ==
    /\ docs = InitialDocs
    /\ items = InitialItems
    /\ cache = [s \in Services |-> IF s = "gui" THEN InitialDocs ELSE NotLoaded]
    /\ call = [s \in Services |-> <<>>]
    /\ swept = [s \in Services |-> <<>>]
    /\ editor = [e \in Editors |-> <<>>]
    /\ calls = 0
    /\ alive = {items[r].uid : r \in DOMAIN items}
    /\ changed = [p \in Prefix |-> 0]

\* A service that is idle starts a call over documents D.
Begin(op, s, D, plan) ==
    /\ op \in Uses
    /\ calls < MaxCalls
    /\ call[s] = <<>>
    /\ calls' = calls + 1
    /\ cache' = [cache EXCEPT ![s] = D]
    /\ call' = [call EXCEPT ![s] = plan]
    /\ UNCHANGED <<docs, items, swept, alive, changed>>

-------------------------------------------------------------------------------
(* Calls of the agent's tools                                                  *)

ToolCreate ==
    LET D == EnsureDocuments("mcp") IN
    \E p \in DOMAIN D, text \in Text, T \in {{}} \cup {{t} : t \in Rid} :
        /\ NextItemId(p) <= MaxId
        /\ Begin("tool_create", "mcp", D,
                 CreatePlan(<<p, NextItemId(p)>>,
                            [uid |-> calls, text |-> text, rev |-> 1,
                             links |-> PrepareLinks(D, LinksTo(T))]))
        /\ UNCHANGED editor

ToolUpdateField ==
    LET D == EnsureDocuments("mcp") IN
    \E rid \in DOMAIN items, text \in Text :
        /\ Resolves(D, rid)
        /\ Begin("tool_update", "mcp", D,
                 Save(rid, WithStatement(Loaded(D, rid), text))
                 \o BumpIf(text # items[rid].text, rid[1]))
        /\ UNCHANGED editor

ToolSetLinks ==
    LET D == EnsureDocuments("mcp") IN
    \E rid \in DOMAIN items, T \in {{}} \cup {{t} : t \in Rid} :
        /\ Resolves(D, rid)
        /\ Begin("tool_set_links", "mcp", D,
                 Save(rid, [items[rid] EXCEPT !.links = PrepareLinks(D, LinksTo(T))]))
        /\ UNCHANGED editor

ToolLink ==
    LET D == EnsureDocuments("mcp") IN
    \E source, derived \in DOMAIN items :
        LET link == [rev |-> items[source].rev, suspect |-> FALSE,
                     seen |-> Seen(items[source])]
        IN
        /\ Resolves(D, source) /\ Resolves(D, derived)
        /\ IsAncestor(D, derived[1], source[1])
        /\ Begin("tool_link", "mcp", D,
                 Save(derived, [items[derived] EXCEPT
                                   !.links = PrepareLinks(D, With(@, source, link))]))
        /\ UNCHANGED editor

\* Deleting a requirement, from the GUI or by the agent.
DeleteRequirement(op, s) ==
    LET D == EnsureDocuments(s) IN
    \E rid \in DOMAIN items :
        /\ Resolves(D, rid)
        /\ Begin(op, s, D, DeletePlan(rid))
        /\ UNCHANGED editor

\* Reading loads the cache; listing a document it lacks loads it again.
ToolListDocument ==
    /\ "tool_list" \in Uses
    /\ call["mcp"] = <<>>
    /\ cache["mcp"] # NotLoaded => ~(DOMAIN docs \subseteq DOMAIN cache["mcp"])
    /\ cache' = [cache EXCEPT !["mcp"] = docs]
    /\ UNCHANGED <<docs, items, call, swept, editor, calls, alive, changed>>

-------------------------------------------------------------------------------
(* Calls of the GUI                                                            *)

OpenEditor(e) ==
    LET D == EnsureDocuments("gui") IN
    \E rid \in DOMAIN items :
        /\ "edit" \in Uses
        /\ call["gui"] = <<>>
        /\ editor[e] = <<>>
        /\ Resolves(D, rid)
        /\ editor' = [editor EXCEPT ![e] = <<[rid |-> rid, item |-> Loaded(D, rid)]>>]
        /\ cache' = [cache EXCEPT !["gui"] = D]
        /\ UNCHANGED <<docs, items, call, swept, calls, alive, changed>>

\* on_new_requirement: the number is taken now, the file is written on save.
NewRequirement(e) ==
    LET D == EnsureDocuments("gui") IN
    \E p \in DOMAIN D, text \in Text :
        /\ editor[e] = <<>>
        /\ NextItemId(p) <= MaxId
        /\ Begin("new", "gui", D, <<>>)
        /\ editor' = [editor EXCEPT ![e] =
               <<[rid |-> <<p, NextItemId(p)>>,
                  item |-> [uid |-> calls, text |-> text, rev |-> 1, links |-> <<>>]]>>]

SaveEditor(e) ==
    /\ editor[e] # <<>>
    /\ \E text \in Text :
        LET rid == editor[e][1].rid
            D == DocumentsWith("gui", rid[1])
        IN
        /\ rid[1] \in DOMAIN D
        /\ Begin("edit", "gui", D,
                 Save(rid, PayloadToSave(rid, editor[e][1].item, text))
                 \o BumpIf(BumpsDocument(rid, text), rid[1]) \o CloseEditor(e))
    /\ UNCHANGED editor

\* Clone within the document; Derive also links the copy to its source.
CloneRequirement ==
    LET D == EnsureDocuments("gui") IN
    \E rid \in DOMAIN items, derive \in BOOLEAN :
        LET source == Loaded(D, rid)
            up == [rev |-> source.rev, suspect |-> FALSE, seen |-> Seen(source)]
            copy == <<rid[1], NextItemId(rid[1])>>
        IN
        /\ Resolves(D, rid)
        /\ copy[2] <= MaxId
        /\ Begin("clone", "gui", D,
                 CreatePlan(copy, [source EXCEPT
                                      !.uid = calls, !.rev = 1,
                                      !.links = IF derive THEN With(@, rid, up) ELSE @]))
        /\ UNCHANGED editor

CopyRequirement ==
    LET D == EnsureDocuments("gui") IN
    \E rid \in DOMAIN items, p \in DOMAIN D, reset \in BOOLEAN :
        /\ Resolves(D, rid)
        /\ NextItemId(p) <= MaxId
        /\ Begin("copy", "gui", D,
                 CreatePlan(<<p, NextItemId(p)>>,
                            [Loaded(D, rid) EXCEPT !.uid = calls,
                                                   !.rev = IF reset THEN 1 ELSE @])
                 \o Refresh)
        /\ UNCHANGED editor

\* The referring items of the known documents (mutant: of its own document), and
\* what move writes to them.
Referrers_SameDocument(D, rid) == {r \in RidsOf(rid[1]) \ {rid} :
                                      rid \in DOMAIN items[r].links}
Referrers(D, rid) == {r \in DOMAIN items \ {rid} :
                         r[1] \in DOMAIN D /\ rid \in DOMAIN items[r].links}
Redirected(r, rid, new) ==
    [items[r] EXCEPT !.links = With(Without(@, rid), new, NewLink)]

MoveRequirement ==
    LET D == EnsureDocuments("gui") IN
    \E rid \in DOMAIN items, p \in DOMAIN D :
        LET new == <<p, NextItemId(p)>>
            order == CHOOSE f \in [1..Cardinality(Referrers(D, rid)) -> Referrers(D, rid)] :
                         IsInjective(f)
            redirect == [i \in DOMAIN order |->
                            Save(order[i], Redirected(order[i], rid, new))[1]]
        IN
        /\ Resolves(D, rid)
        /\ p # rid[1]
        /\ new[2] <= MaxId
        /\ \A r \in Referrers(D, rid) : IsAncestor(D, r[1], p)
        /\ Begin("move", "gui", D,
                 MovePlan(rid, new, Loaded(D, rid), redirect) \o Refresh)
        /\ UNCHANGED editor

CreateDocument ==
    LET D == EnsureDocuments("gui") IN
    \E p \in Prefix \ DOMAIN D, parent \in DOMAIN D \cup {NoDoc} :
        /\ Begin("create_document", "gui", D,
                 WriteDocument(p, [parent |-> parent, rev |-> 1]) \o Refresh)
        /\ UNCHANGED editor

MayBeParent(D, p, parent) ==
    /\ parent # D[p].parent
    /\ parent # NoDoc => ~IsAncestor(D, parent, p)

\* rename_document changes the parent in the cached document, then saves that.
ReparentDocument ==
    LET D == EnsureDocuments("gui") IN
    \E p \in DOMAIN D, parent \in DOMAIN D \cup {NoDoc} :
        LET moved == [D[p] EXCEPT !.parent = parent] IN
        /\ MayBeParent(D, p, parent)
        /\ Begin("reparent", "gui", [D EXCEPT ![p] = moved],
                 WriteDocument(p, moved) \o Refresh)
        /\ UNCHANGED editor

DeleteDocument ==
    LET D == EnsureDocuments("gui") IN
    \E p \in DOMAIN D :
        /\ Begin("delete_document", "gui", D, DropDocument(p) \o Refresh)
        /\ UNCHANGED editor

-------------------------------------------------------------------------------
(* One effect of the call of service s                                         *)

Current(s) == Head(call[s])
Doing(s, op) == call[s] # <<>> /\ Current(s).op = op
Continue(s, more) == call' = [call EXCEPT ![s] = more \o Tail(@)]
Raise(s) == call' = [call EXCEPT ![s] = <<>>]

Stored(D, rid, item) ==
    [r \in DOMAIN items \cup {rid} |->
        IF r = rid THEN [item EXCEPT !.links = PrepareLinks(D, @)] ELSE items[r]]

Count(p, n) == changed' = [changed EXCEPT ![p] = @ + n]

\* save_item: validate, prepare the links, write the file, and go on with the call;
\* when it raises, the call is over.  The requirements live count as saved.
StoreItem(s, rid, item, live, more) ==
    LET edited == rid \notin DOMAIN items \/ items[rid].text # item.text IN
    \/ /\ ValidItemLinks(cache[s], rid, item.links)
       /\ items' = Stored(cache[s], rid, item)
       /\ alive' = live
       /\ Count(rid[1], IF edited THEN 1 ELSE 0)
       /\ Continue(s, more)
    \/ /\ ~ValidItemLinks(cache[s], rid, item.links)
       /\ Raise(s)
       /\ UNCHANGED <<items, alive, changed>>

SaveItem(s) ==
    /\ Doing(s, "save")
    /\ StoreItem(s, Current(s).rid, Current(s).item,
                 alive \cup {Current(s).item.uid}, <<>>)
    /\ UNCHANGED <<docs, cache, swept, editor, calls>>

\* bump_document_revision writes the cached document, whatever the disk holds
\* (the cache of a call under way has the document the call found in it).
BumpDocument(s) ==
    LET p == Current(s).prefix
        bumped == [cache[s][p] EXCEPT !.rev = @ + 1]
    IN
    /\ Doing(s, "bump")
    /\ cache' = [cache EXCEPT ![s][p] = bumped]
    /\ docs' = With(docs, p, bumped)
    /\ Continue(s, <<>>)
    /\ UNCHANGED <<items, swept, editor, calls, alive, changed>>

DocumentsToSweep(D, rid) == DOMAIN D

\* delete_item removes the file first and then looks for links to it.
DeleteFile(s) ==
    LET rid == Current(s).rid IN
    /\ Doing(s, "deleteItem")
    /\ \/ /\ rid \in DOMAIN items
          /\ items' = Without(items, rid)
          /\ alive' = alive \ {items[rid].uid}
          /\ Count(rid[1], 1)
          /\ Continue(s, Sweep(rid, DocumentsToSweep(cache[s], rid), {}))
       \/ /\ rid \notin DOMAIN items
          /\ IF Current(s).must THEN Raise(s) ELSE Continue(s, <<>>)
          /\ UNCHANGED <<items, alive, changed>>
    /\ UNCHANGED <<docs, cache, swept, editor, calls>>

SweepDocument(s) ==
    /\ Doing(s, "sweep")
    /\ Current(s).ids = {}
    /\ \/ \E p \in Current(s).todo :
             Continue(s, Sweep(Current(s).rid, Current(s).todo \ {p}, RidsOf(p)))
       \/ Current(s).todo = {} /\ Continue(s, <<>>)
    /\ UNCHANGED <<docs, items, cache, swept, editor, calls, alive, changed>>

\* The next item of the sweep is read: it has no link to drop, or it will be saved
\* without the link, or its file is gone.
SweepItem(s) ==
    LET target == Current(s).rid IN
    /\ Doing(s, "sweep") /\ swept[s] = <<>>
    /\ \E r \in Current(s).ids :
         LET linked == r \in DOMAIN items /\ target \in DOMAIN items[r].links IN
         \/ /\ r \in DOMAIN items /\ ~linked
            /\ Continue(s, Sweep(target, Current(s).todo, Current(s).ids \ {r}))
            /\ UNCHANGED swept
         \/ /\ linked
            /\ swept' = [swept EXCEPT ![s] =
                  <<[rid |-> r, item |-> [items[r] EXCEPT !.links = Without(@, target)]]>>]
            /\ UNCHANGED call
         \/ r \notin DOMAIN items /\ Raise(s) /\ UNCHANGED swept
    /\ UNCHANGED <<docs, items, cache, editor, calls, alive, changed>>

\* The item is written as it was read, whatever its file holds by then (and without
\* it becoming a requirement somebody saved).
SweepSave(s) ==
    /\ Doing(s, "sweep") /\ swept[s] # <<>>
    /\ LET r == swept[s][1].rid IN
       StoreItem(s, r, swept[s][1].item, alive,
                 Sweep(Current(s).rid, Current(s).todo, Current(s).ids \ {r}))
    /\ swept' = [swept EXCEPT ![s] = <<>>]
    /\ UNCHANGED <<docs, cache, editor, calls>>

UnlinkFile(s) ==
    LET rid == Current(s).rid IN
    /\ Doing(s, "unlink")
    /\ items' = Without(items, rid)
    /\ Count(rid[1], IF rid \in DOMAIN items THEN 1 ELSE 0)
    /\ Continue(s, <<>>)
    /\ UNCHANGED <<docs, cache, swept, editor, calls, alive>>

SaveDocument(s) ==
    /\ Doing(s, "writeDocument")
    /\ docs' = With(docs, Current(s).prefix, Current(s).doc)
    /\ Continue(s, <<>>)
    /\ UNCHANGED <<items, cache, swept, editor, calls, alive, changed>>

\* delete_document: the children first, then the items, then the directory.
DropContents(s) ==
    LET p == Current(s).prefix
        children == {c \in DOMAIN cache[s] : cache[s][c].parent = p}
        rids == RidsOf(p)
        order == CHOOSE f \in [1..Cardinality(rids) -> rids] : IsInjective(f)
    IN
    /\ Doing(s, "dropDocument")
    /\ \/ \E c \in children : Continue(s, DropDocument(c) \o DropDocument(p))
       \/ /\ children = {}
          /\ Continue(s, [i \in DOMAIN order |-> DeleteItem(order[i], FALSE)[1]]
                         \o RemoveTree(p))
    /\ UNCHANGED <<docs, items, cache, swept, editor, calls, alive, changed>>

RemoveDirectory(s) ==
    LET p == Current(s).prefix IN
    /\ Doing(s, "removeTree")
    /\ docs' = Without(docs, p)
    /\ alive' = alive \ {items[r].uid : r \in RidsOf(p)}
    /\ items' = Restrict(items, DOMAIN items \ RidsOf(p))
    /\ changed' = [changed EXCEPT ![p] = 0]
    /\ cache' = [cache EXCEPT ![s] = Without(@, p)]
    /\ Continue(s, <<>>)
    /\ UNCHANGED <<swept, editor, calls>>

RefreshDocuments(s) ==
    /\ Doing(s, "refresh")
    /\ cache' = [cache EXCEPT ![s] = docs]
    /\ Continue(s, <<>>)
    /\ UNCHANGED <<docs, items, swept, editor, calls, alive, changed>>

EditorSaved(s) ==
    /\ Doing(s, "closeEditor")
    /\ editor' = [editor EXCEPT ![Current(s).editor] = <<>>]
    /\ Continue(s, <<>>)
    /\ UNCHANGED <<docs, items, cache, swept, calls, alive, changed>>

Tool == \/ ToolCreate \/ ToolUpdateField \/ ToolSetLinks \/ ToolLink
        \/ DeleteRequirement("tool_delete", "mcp") \/ ToolListDocument

User == \/ \E e \in Editors : OpenEditor(e) \/ NewRequirement(e) \/ SaveEditor(e)
        \/ CloneRequirement \/ CopyRequirement \/ MoveRequirement
        \/ DeleteRequirement("delete", "gui")
        \/ CreateDocument \/ ReparentDocument \/ DeleteDocument

Effect(s) == \/ SaveItem(s) \/ BumpDocument(s) \/ DeleteFile(s) \/ SweepDocument(s)
             \/ SweepItem(s) \/ SweepSave(s) \/ UnlinkFile(s) \/ SaveDocument(s)
             \/ DropContents(s) \/ RemoveDirectory(s) \/ RefreshDocuments(s)
             \/ EditorSaved(s)

Next == Tool \/ User \/ (\E s \in Services : Effect(s))

Spec == Init /\ [][Next]_vars

-------------------------------------------------------------------------------
(* Properties                                                                  *)

Idle == \A s \in Services : call[s] = <<>>

\* Type correctness of the files, the caches and the counters.
TypeOK ==
    /\ IsDocuments(docs)
    /\ DOMAIN items \subseteq Rid /\ \A r \in DOMAIN items : IsItem(items[r])
    /\ \A s \in Services : cache[s] = NotLoaded \/ IsDocuments(cache[s])
    /\ \A s \in Services : swept[s] # <<>> => IsItem(swept[s][1].item)
    /\ calls \in 0..MaxCalls
    /\ changed \in [Prefix -> Nat]

\* When no call is under way, a link whose target is gone is marked suspect: the
\* sweep of delete_item, the redirection of move_requirement and the validation
\* of save_item leave no dangling link that claims to be sound.
LinksResolve ==
    Idle => \A r \in DOMAIN items : \A t \in DOMAIN items[r].links :
                t \in DOMAIN items \/ items[r].links[t].suspect

\* A link that will be shown as sound (its revision is the target's) was made when
\* the target was this requirement with this statement: neither a reused RID nor
\* an edit that did not raise the revision passes for what was linked.
TraceTruth ==
    \A r \in DOMAIN items : \A t \in DOMAIN items[r].links \cap DOMAIN items :
        items[r].links[t].rev = items[t].rev => items[r].links[t].seen = Seen(items[t])

\* When no call is under way, doc_revision has counted each change of the set of
\* requirements and each statement edit: no bump is missing, doubled or lost.
DocRevisionCounts ==
    Idle => \A p \in DOMAIN docs : docs[p].rev = 1 + changed[p]

\* A requirement that was saved and not deleted is in the store at every moment,
\* in the middle of a move too: nothing is overwritten by another requirement.
RequirementKept == \A u \in alive : \E r \in DOMAIN items : items[r].uid = u

\* The documents on disk form a forest: is_ancestor and collect_label_defs, which
\* follow parents until there is none, terminate.
HierarchyAcyclic == \A p \in DOMAIN docs : p \notin Chain(ParentsIn(docs), docs[p].parent)

\* A new statement comes with a higher revision of the requirement.
StatementRaisesRevision ==
    [][\A r \in DOMAIN items \cap DOMAIN items' :
          items'[r].text # items[r].text => items'[r].rev > items[r].rev]_vars

\* A document deleted with its items does not come back by an edit of an item.
DeletedDocumentStaysDeleted ==
    [][\A p \in DOMAIN docs' \ DOMAIN docs :
          \E s \in Services : Doing(s, "writeDocument")]_vars

===============================================================================
