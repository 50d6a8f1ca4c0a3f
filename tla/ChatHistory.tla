------------------------------ MODULE ChatHistory ------------------------------
(* How the chat panel's conversations are kept in SQLite files: one file per    *)
(* project (history_store.py), the list a running program holds of the one that *)
(* is open, with its dirty marks (history.py), and what opening, pruning and    *)
(* switching do to both (history_sync.py, panel.py).  A save is one transaction; *)
(* any database call may fail, and a failed save is only logged.                *)
EXTENDS Naturals, Sequences, FiniteSets

CONSTANTS Program,        \* running instances of the program
          Project,        \* history files
          WithDocuments,  \* the projects that hold requirement documents
          MaxChats,       \* bound: conversations that exist at a time
          MaxEntries,     \* bound: entries of a conversation
          MaxCleanUps,    \* bound: clean-ups posted and not yet run
          MaxActs,        \* bound: acts of the user
          Faults,         \* the database calls that may fail: "read", "write"
          None            \* no active conversation, no run

\* The one clean-up posted at the start fits into the bound.
ASSUME ChatHistoryAssumption ==
    /\ WithDocuments \subseteq Project /\ Faults \subseteq {"read", "write"}
    /\ {MaxChats, MaxEntries, MaxActs} \subseteq Nat /\ MaxCleanUps \in Nat \ {0}
    /\ None \notin Project /\ None \notin 1..MaxChats

VARIABLES db,       \* history files: whether they exist, their rows, active_id
          mem,      \* per program: the open file and the list loaded from it
          deleted,  \* history: <<file, chat>> the user deleted or regenerated in
          acts      \* acts of the user so far

vars == <<db, mem, deleted, acts>>

Chat == 1..MaxChats
Row == [pos : Nat, titled : BOOLEAN, entries : Seq({"working", "answered"})]
Conversation == [id : Chat, titled : BOOLEAN, entries : Seq({"working", "answered"})]

NoFile == [exists |-> FALSE, rows |-> <<>>, active |-> None]
Stopped == [up |-> FALSE, path |-> None, list |-> <<>>, active |-> None,
            dirty |-> {}, structure |-> FALSE, cleanUps |-> 0,
            run |-> None, attached |-> FALSE]

\* The outcomes of a database call: it may fail only when the instance says so.
Succeeds(kind) == {TRUE} \cup (IF kind \in Faults THEN {FALSE} ELSE {})
Unread(chats) == IF "read" \in Faults THEN SUBSET chats ELSE {{}}

-------------------------------------------------------------------------------
(* The list                                                                     *)

Ids(list) == {list[k].id : k \in DOMAIN list}
At(list, c) == CHOOSE k \in DOMAIN list : list[k].id = c
Nth(K, n) == CHOOSE k \in K : Cardinality({j \in K : j < k}) + 1 = n
Without(list, gone) ==
    LET kept == {k \in DOMAIN list : list[k].id \notin gone}
    IN  [n \in 1..Cardinality(kept) |-> list[Nth(kept, n)]]
LastId(list) == list[Len(list)].id
Smallest(S) == CHOOSE s \in S : \A t \in S : s <= t

\* Conversations in no file and on no list: their numbers are free, unless a
\* deleted conversation had them.
Free == {c \in Chat :
    /\ \A p \in Project : c \notin DOMAIN db[p].rows /\ <<p, c>> \notin deleted
    /\ \A i \in Program : c \notin Ids(mem[i].list) /\ mem[i].run # c}
NewConversation == [id |-> Smallest(Free), titled |-> FALSE, entries |-> <<>>]

\* _register_conversation followed by set_active_id
Register(m, v) == [m EXCEPT !.list = Append(@, v), !.active = v.id,
                            !.dirty = @ \cup {v.id}]

\* Conversation c of the list now reads v; it is marked dirty.
Changed(m, c, v) == [m EXCEPT !.list = [@ EXCEPT ![At(m.list, c)] = v],
                              !.dirty = @ \cup {c}]

HasPersistable(m) == \E k \in DOMAIN m.list : m.list[k].entries # <<>> \/ m.list[k].titled

\* Mutant: the active conversation is pruned and stays active.
Prune_ActiveLeft(m, missing, verify) ==
    LET empty == {m.list[k].id : k \in {j \in DOMAIN m.list : m.list[j].entries = <<>>}}
        asked == (empty \cup missing) \ (IF verify THEN {} ELSE {m.active})
        gone  == IF asked = Ids(m.list) THEN asked \ {LastId(m.list)} ELSE asked
    IN  IF m.list = <<>> \/ gone = {} THEN m
        ELSE [m EXCEPT !.list = Without(m.list, gone), !.structure = TRUE]

\* prune_empty_conversations: `missing` are the conversations whose entries the
\* verification did not find; a verified pruning spares not even the active one.
Prune(m, missing, verify) ==
    LET empty == {m.list[k].id : k \in {j \in DOMAIN m.list : m.list[j].entries = <<>>}}
        asked == (empty \cup missing) \ (IF verify THEN {} ELSE {m.active})
        gone  == IF asked = Ids(m.list) THEN asked \ {LastId(m.list)} ELSE asked
        kept  == Without(m.list, gone)
    IN  IF m.list = <<>> \/ gone = {} THEN m
        ELSE [m EXCEPT !.list = kept, !.structure = TRUE,
                       !.active = IF m.active \in gone THEN LastId(kept) ELSE @]

-------------------------------------------------------------------------------
(* The file                                                                     *)

\* _sync_conversations: rows of conversations no longer on the list go; a row
\* is written when it is new or dirty, or when the structure is.
Synced(d, m, dirty, structure) ==
    [exists |-> TRUE, active |-> m.active,
     rows |-> [c \in Ids(m.list) |->
        LET k == At(m.list, c)
            new == c \notin DOMAIN d.rows
            entries == IF new \/ c \in dirty THEN m.list[k].entries ELSE d.rows[c].entries
        IN  IF new \/ structure \/ c \in dirty
            THEN [pos |-> k, titled |-> m.list[k].titled, entries |-> entries]
            ELSE d.rows[c]]]

\* Mutant: the marks are dropped before the outcome is known.
Save_ForgetsFailure(d, m) ==
    LET clean == [m EXCEPT !.dirty = {}, !.structure = FALSE]
    IN  IF m.dirty = {} /\ ~m.structure THEN {[d |-> d, m |-> m]}
        ELSE {[d |-> IF ok THEN Synced(d, m, m.dirty, m.structure) ELSE d, m |-> clean] :
                 ok \in Succeeds("write")}

\* AgentChatHistory.save: the outcomes for the file and the list.
Save(d, m) ==
    LET clean == [m EXCEPT !.dirty = {}, !.structure = FALSE]
    IN  IF m.dirty = {} /\ ~m.structure THEN {[d |-> d, m |-> m]}
        ELSE IF ~d.exists /\ ~HasPersistable(m) /\ m.path \notin WithDocuments
        THEN {[d |-> d, m |-> clean]}
        ELSE {IF ok THEN [d |-> Synced(d, m, m.dirty, m.structure), m |-> clean]
              ELSE [d |-> d, m |-> m] : ok \in Succeeds("write")}

\* the rows of a file in the order of their positions
Ordered(rows) ==
    LET Before(c, e) == rows[c].pos < rows[e].pos \/ (rows[c].pos = rows[e].pos /\ c < e)
        Rank(c) == Cardinality({e \in DOMAIN rows : Before(e, c)}) + 1
    IN  [k \in 1..Cardinality(DOMAIN rows) |->
            LET c == CHOOSE c \in DOMAIN rows : Rank(c) = k
            IN  [id |-> c, titled |-> rows[c].titled, entries |-> rows[c].entries]]

\* _resolve_active_id
StoredActive(d) == IF d.rows = <<>> THEN None
                   ELSE IF d.active \in DOMAIN d.rows THEN d.active
                   ELSE LastId(Ordered(d.rows))

\* AgentChatHistory.load with the entries of every conversation; the entries in
\* `unread` could not be loaded and are taken for empty.
Loaded(m, d, p, ok, unread) ==
    LET list == IF ok /\ d.exists THEN Ordered(d.rows) ELSE <<>>
    IN  [m EXCEPT !.up = TRUE, !.path = p, !.dirty = {}, !.structure = FALSE,
           !.attached = FALSE,
           !.active = IF ok /\ d.exists THEN StoredActive(d) ELSE None,
           !.list = [k \in DOMAIN list |->
                IF list[k].id \in unread THEN [list[k] EXCEPT !.entries = <<>>] ELSE list[k]]]

\* conversations_with_entries, asked once per conversation: `failed` are the
\* ones whose query failed, which reads as "no entries".
Missing(d, list, failed) ==
    {c \in Ids(list) : c \in failed \/ c \notin DOMAIN d.rows \/ d.rows[c].entries = <<>>}

\* The draft a program shows when it has opened a file: it is neither stored nor
\* dirty; other empty conversations make room for it.
WithDraft(m, v) == Prune([m EXCEPT !.list = Append(@, v), !.active = v.id,
                                   !.cleanUps = @ + 1], {}, FALSE)

\* HistorySynchronizer.initialize on the file of p: load, verify, save what the
\* pruning changed, and add a draft.
Loads(d, m, p) == {Loaded(m, d, p, ok, unread) :
                      ok \in Succeeds("read"), unread \in Unread(DOMAIN d.rows)}
Verified(d, m) == UNION {Save(d, Prune(m, Missing(d, m.list, failed), TRUE)) :
                            failed \in Unread(Ids(m.list))}
Opened(d, m, p) == {[d |-> s.d, m |-> WithDraft(s.m, NewConversation)] :
                       s \in UNION {Verified(d, l) : l \in Loads(d, m, p)}}

-------------------------------------------------------------------------------
Init ==
    /\ db = [p \in Project |-> NoFile]
    /\ mem = [i \in Program |-> Stopped]
    /\ deleted = {}
    /\ acts = 0

\* Program i leaves the handler in the state m, and its file in the state d.
Leaves(i, p, d, m) ==
    /\ db' = [db EXCEPT ![p] = d]
    /\ mem' = [mem EXCEPT ![i] = m]

Act == acts < MaxActs /\ acts' = acts + 1

Saves(i, m) == \E s \in Save(db[m.path], m) : Leaves(i, m.path, s.d, s.m)

\* The program starts with the project it had open last.
Launch(i, p) ==
    /\ Act
    /\ ~mem[i].up /\ Free # {}
    /\ \E s \in Opened(db[p], mem[i], p) : Leaves(i, p, s.d, s.m)
    /\ UNCHANGED deleted

\* It is closed, or dies: nothing is saved on the way out.
Exit(i) ==
    /\ Act
    /\ mem[i].up
    /\ mem' = [mem EXCEPT ![i] = Stopped]
    /\ UNCHANGED <<db, deleted>>

\* The active conversation, or a new one registered for the purpose.
EnsureActive(m) == IF m.active \in Ids(m.list) THEN m ELSE Register(m, NewConversation)
CanEnsureActive(m) == m.active \in Ids(m.list) \/ Free # {}

\* append_entry to conversation c, which is marked dirty
Entries(m, c) == m.list[At(m.list, c)].entries
Titled(m, c) == m.list[At(m.list, c)].titled
AppendEntry(m, c, state) ==
    Changed(m, c, [id |-> c, titled |-> TRUE, entries |-> Append(Entries(m, c), state)])
\* the pending entry of a new run
AddPending(m) == [AppendEntry(m, m.active, "working") EXCEPT !.run = m.active, !.attached = TRUE]

Send(i) ==
    /\ Act
    /\ mem[i].up /\ mem[i].run = None /\ CanEnsureActive(mem[i])
    /\ LET m == EnsureActive(mem[i])
       IN  /\ Len(Entries(m, m.active)) < MaxEntries
           /\ Saves(i, AddPending(m))
    /\ UNCHANGED deleted

\* the last entry has its answer
Completed(entries) == [entries EXCEPT ![Len(entries)] = "answered"]

\* The run ends: its entry is completed where it is; an entry that belongs to a
\* list dropped since is lost to this one; a conversation that left the list
\* has its answer appended to the active one.
Answer(i) ==
    LET m == [mem[i] EXCEPT !.run = None, !.attached = FALSE]
        c == mem[i].run
    IN  /\ mem[i].up /\ c # None
        /\ \/ /\ c \in Ids(m.list)
              /\ Saves(i, IF mem[i].attached
                          THEN Changed(m, c, [id |-> c, titled |-> Titled(m, c),
                                              entries |-> Completed(Entries(m, c))])
                          ELSE [m EXCEPT !.dirty = @ \cup {c}])
           \/ /\ c \notin Ids(m.list) /\ CanEnsureActive(m)
              /\ LET e == EnsureActive(m) IN
                 /\ Len(Entries(e, e.active)) < MaxEntries
                 /\ Saves(i, AppendEntry(e, e.active, "answered"))
        /\ UNCHANGED <<deleted, acts>>

\* regenerate_entry: the last entry is removed and saved away, and its prompt
\* is sent again.
Regenerate(i) ==
    LET m == mem[i]
        old == Entries(m, m.active)
        popped == Changed(m, m.active, [id |-> m.active, titled |-> Titled(m, m.active),
                                        entries |-> SubSeq(old, 1, Len(old) - 1)])
    IN  /\ Act
        /\ m.up /\ m.run = None /\ m.active \in Ids(m.list)
        /\ old # <<>>
        /\ \E s \in Save(db[m.path], popped) :
              \E t \in Save(s.d, AddPending(s.m)) : Leaves(i, m.path, t.d, t.m)
        /\ deleted' = deleted \cup {<<m.path, m.active>>}

NewChat(i) ==
    /\ Act
    /\ mem[i].up /\ Free # {}
    /\ Saves(i, Register(mem[i], NewConversation))
    /\ UNCHANGED deleted

\* A row of the history list is activated: only active_id is written, and not
\* even that may bring a file into a directory without documents.
SelectChat(i, c) ==
    LET m == [mem[i] EXCEPT !.active = c]
        d == db[m.path]
    IN  /\ Act
        /\ m.up /\ c \in Ids(m.list)
        /\ \E ok \in Succeeds("write") :
              Leaves(i, m.path,
                     IF ~ok \/ (~d.exists /\ ~HasPersistable(m) /\ m.path \notin WithDocuments)
                     THEN d ELSE [d EXCEPT !.exists = TRUE, !.active = c], m)
        /\ UNCHANGED deleted

\* _remove_conversations: save, look whether the rows are gone, and save
\* everything once more if they are not.
DeleteChats(i, gone) ==
    LET m == mem[i]
        left == Without(m.list, gone)
        first == Smallest({k \in DOMAIN m.list : m.list[k].id \in gone})
        fallback == IF left = <<>> THEN None
                    ELSE left[IF first <= Len(left) THEN first ELSE Len(left)].id
        removed == [m EXCEPT !.list = left, !.structure = TRUE,
                             !.active = IF @ \in Ids(left) THEN @ ELSE fallback]
    IN  /\ Act
        /\ m.up /\ m.run = None /\ gone # {} /\ gone \subseteq Ids(m.list)
        /\ \E s \in Save(db[m.path], removed), read \in Succeeds("read") :
              IF read /\ gone \cap DOMAIN s.d.rows # {}
              THEN \E t \in Save(s.d, [s.m EXCEPT !.structure = TRUE,
                                          !.dirty = @ \cup Ids(s.m.list)]) :
                      Leaves(i, m.path, t.d, t.m)
              ELSE Leaves(i, m.path, s.d, s.m)
        /\ deleted' = deleted \cup ({m.path} \X gone)

\* The clean-up posted by initialize; its verdicts are saved with the next save.
CleanUp(i) ==
    /\ mem[i].up /\ mem[i].cleanUps > 0
    /\ LET m == [mem[i] EXCEPT !.cleanUps = @ - 1] IN
       \E failed \in Unread(Ids(m.list)) :
          mem' = [mem EXCEPT ![i] = Prune(m, Missing(db[m.path], m.list, failed), TRUE)]
    /\ UNCHANGED <<db, deleted, acts>>

\* Mutant: the target is not asked for conversations of its own.
TakesAlong_Unchecked(m, p, read) == HasPersistable(m) /\ p \in WithDocuments

\* Whether set_path takes the conversations along: the new project has
\* documents and no conversation, as far as it can be read.
TakesAlong(m, p, read) ==
    /\ HasPersistable(m)
    /\ read => DOMAIN db[p].rows = {}
    /\ p \in WithDocuments

\* set_history_directory: the conversations are copied into a project that has
\* none, then the project's file is opened; if the copy fails the old file
\* stays open.
SwitchProject(i, p) ==
    LET m == mem[i] IN
    /\ Act
    /\ m.up /\ p # m.path /\ Free # {} /\ m.cleanUps < MaxCleanUps
    /\ \E read \in Succeeds("read"), write \in Succeeds("write") :
          IF ~TakesAlong(m, p, read)
          THEN \E s \in Opened(db[p], m, p) : Leaves(i, p, s.d, s.m)
          ELSE IF write
          THEN \E s \in Opened(Synced(db[p], m, Ids(m.list), FALSE), m, p) :
                  Leaves(i, p, s.d, s.m)
          ELSE UNCHANGED <<db, mem>>
    /\ UNCHANGED deleted

-------------------------------------------------------------------------------
Next == \E i \in Program :
    \/ \E p \in Project : Launch(i, p) \/ SwitchProject(i, p)
    \/ Exit(i) \/ Send(i) \/ Answer(i) \/ Regenerate(i) \/ NewChat(i) \/ CleanUp(i)
    \/ \E c \in Chat : SelectChat(i, c)
    \/ \E gone \in SUBSET Chat : DeleteChats(i, gone)

Spec == Init /\ [][Next]_vars
-------------------------------------------------------------------------------
TypeOK ==
    /\ \A p \in Project :
          /\ db[p].exists \in BOOLEAN /\ db[p].active \in Chat \cup {None}
          /\ DOMAIN db[p].rows \subseteq Chat
          /\ \A c \in DOMAIN db[p].rows : db[p].rows[c] \in Row
          /\ ~db[p].exists => db[p] = NoFile
    /\ \A i \in Program : LET m == mem[i] IN
          /\ m.up \in BOOLEAN /\ m.path \in Project \cup {None} /\ m.up = (m.path # None)
          /\ m.list \in Seq(Conversation)
          /\ Cardinality(Ids(m.list)) = Len(m.list)
          /\ m.active \in Ids(m.list) \cup {None}
          /\ m.dirty \subseteq Chat /\ m.structure \in BOOLEAN
          /\ m.cleanUps \in 0..MaxCleanUps
          /\ m.run \in Chat \cup {None} /\ m.attached \in BOOLEAN
    /\ deleted \subseteq Project \X Chat
    /\ acts \in 0..MaxActs

\* What the file lacks is marked: a conversation that is not dirty reads the
\* same in the file, or is an empty draft the file does not have yet; and
\* unless the structure is dirty, the file holds no conversation the list does
\* not have, in no other order.  A failed save may therefore be made up by the
\* next one.
UnsavedIsMarked ==
    \A i \in Program : mem[i].up =>
        LET m == mem[i]
            rows == db[m.path].rows
        IN  /\ \A k \in DOMAIN m.list : LET c == m.list[k].id IN
                  c \notin m.dirty =>
                     IF c \in DOMAIN rows
                     THEN /\ rows[c].entries = m.list[k].entries
                          /\ rows[c].titled = m.list[k].titled
                     ELSE m.list[k].entries = <<>>
            /\ ~m.structure =>
                  /\ DOMAIN rows \subseteq Ids(m.list)
                  /\ \A c, e \in DOMAIN rows :
                        rows[c].pos < rows[e].pos <=> At(m.list, c) < At(m.list, e)

\* What was stored stays stored: a conversation with entries leaves its file,
\* or loses entries or an answer there, only where the user deleted it or asked
\* for another answer.
StoredIsKept ==
    [][\A p \in Project : \A c \in DOMAIN db[p].rows :
          \/ <<p, c>> \in deleted'
          \/ LET old == db[p].rows[c].entries IN
             \/ old = <<>>
             \/ /\ c \in DOMAIN db'[p].rows
                /\ Len(db'[p].rows[c].entries) >= Len(old)
                /\ \A k \in DOMAIN old :
                      old[k] = "answered" => db'[p].rows[c].entries[k] = "answered"]_vars

\* A conversation the user deleted from a project does not come back to it.
DeletedStaysDeleted ==
    [][\A p \in Project : \A c \in DOMAIN db'[p].rows :
          c \notin DOMAIN db[p].rows => <<p, c>> \notin deleted]_vars
=============================================================================
