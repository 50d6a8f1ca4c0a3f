------------------------- MODULE AgentControlProofs -------------------------
(***************************************************************************)
(* Theorems about AgentRun, for every number of projects, documents, runs, *)
(* conversations, batch targets and streamed updates: its state is well    *)
(* formed, and control of the agent is exclusive.                          *)
(*                                                                         *)
(* What the operators of ChatList and of BatchRunner do comes first: every *)
(* operator of ChatList returns a well-formed history and none forgets a   *)
(* conversation; an operation of BatchRunner returns a well-formed queue,  *)
(* and a conversation exactly when the queue is left running, and keeps    *)
(* the items in order: settled ones, the one that runs, waiting ones.      *)
(*                                                                         *)
(* Then control: SingleFlight, NoUnownedWork,                              *)
(* AnswerOnItsWay and NoLostWakeup are invariants of AgentRun.  Their      *)
(* conjunction with TypeOK is inductive.  None of them is so alone: an     *)
(* answer is only recorded for the active run because an answer in the     *)
(* event queue belongs to a run that is posted (AnswerOnItsWay), which     *)
(* works unstopped and is therefore owned (NoUnownedWork), and the wait    *)
(* state follows the active handle (SingleFlight) only because of that.    *)
(*                                                                         *)
(* With them AgentRun implements the safety part of RunLedger: read        *)
(* through the refinement mapping of AgentRun (a run is running while its  *)
(* handle owns a transcript entry, then cancelled or answered), the panel  *)
(* begins one run at a time and settles each of them once.                 *)
(*                                                                         *)
(* And the batch queue keeps in step with the agent (BatchCoupled,         *)
(* BatchVerdictStable).  The queue holds no thread and no handle; it       *)
(* learns that its item is over from the conversation of the run that      *)
(* ended.  That is sound because the items have conversations of their own *)
(* (Numbered), so that the run in the conversation of the running item is  *)
(* never taken for another one, and because a queue runs only while the    *)
(* active run works for it (Coupled), so that the end of a chat prompt     *)
(* finds it over.                                                          *)
(***************************************************************************)
EXTENDS AgentRun, WellFoundedInduction, TLAPS

-----------------------------------------------------------------------------
(* The operators of ChatList.                                              *)

\* The histories a panel may have: what is loaded exists.
GoodHistories == {h \in Histories : h.open \subseteq 1 .. Len(h.chats)}

\* Every non-empty set of numbers has a smallest element.
LEMMA Minimum ==
    ASSUME NEW S \in SUBSET Nat, S # {}
    PROVE  \E n \in S : \A m \in S : n <= m
<1> DEFINE Less == OpToRel(<, Nat)
<1>1. IsWellFoundedOn(Less, Nat)
  BY NatLessThanWellFounded
<1>2. \A x, y \in Nat : x < y => <<x, y>> \in Less
  BY DEF OpToRel
<1> HIDE DEF Less
<1>3. PICK n \in S : \A m \in S : ~ (<<m, n>> \in Less)
  BY <1>1, WFMin
<1>4. ASSUME NEW m \in S PROVE n <= m
  <2>1. m \in Nat /\ n \in Nat
    OBVIOUS
  <2>2. ~ (m < n)
    BY <1>2, <1>3, <2>1
  <2> QED BY <2>1, <2>2
<1> QED BY <1>4

\* Smallest and Largest are elements of the set they are taken from.
LEMMA SmallestOf ==
    ASSUME NEW S \in SUBSET Nat, S # {}
    PROVE  Smallest(S) \in S
<1>1. \E n \in S : \A m \in S : n <= m
  BY Minimum
<1> QED BY <1>1 DEF Smallest

LEMMA LargestOf ==
    ASSUME NEW n \in Nat, NEW S \in SUBSET (1 .. n), S # {}
    PROVE  Largest(S) \in S
<1> DEFINE Bounds == {m \in Nat : \A j \in S : j <= m}
<1>1. n \in Bounds
  OBVIOUS
<1>2. PICK m \in Bounds : \A k \in Bounds : m <= k
  <2>1. Bounds \in SUBSET Nat /\ Bounds # {}
    BY <1>1
  <2> QED BY <2>1, Minimum
<1>3. m \in S
  <2> SUFFICES ASSUME m \notin S PROVE FALSE
    OBVIOUS
  <2>1. PICK s \in S : TRUE
    OBVIOUS
  <2>2. m \in Nat /\ m >= 1
    BY <2>1
  <2>3. m - 1 \in Bounds
    BY <2>2
  <2> QED BY <1>2, <2>2, <2>3
<1> HIDE DEF Bounds
<1>4. \A j \in S : j <= m
  BY <1>2 DEF Bounds
<1> QED BY <1>3, <1>4 DEF Largest

\* Registering n conversations extends the list by n.
LEMMA RegisterChatsType ==
    ASSUME NEW h \in GoodHistories, NEW n \in Nat
    PROVE  /\ RegisterChats(h, n) \in GoodHistories
           /\ Len(RegisterChats(h, n).chats) = Len(h.chats) + n
           /\ RegisterChats(h, n).current = h.current
           /\ RegisterChats(h, n).project = h.project
<1> DEFINE new == NewChats(h, n)
<1>1. new \in Seq(Chats) /\ Len(new) = n
  BY DEF NewChats, Chats, GoodHistories, Histories
<1> HIDE DEF new
<1>2. h.chats \o new \in Seq(Chats) /\ Len(h.chats \o new) = Len(h.chats) + n
  BY <1>1 DEF GoodHistories, Histories
<1>3. RegisterChats(h, n) =
        [h EXCEPT !.chats = h.chats \o new,
                  !.open = h.open \cup (Len(h.chats) + 1) .. (Len(h.chats) + n)]
  BY DEF RegisterChats, new
<1>4. h \in Histories /\ h.open \subseteq 1 .. Len(h.chats) /\ Len(h.chats) \in Nat
  BY DEF GoodHistories, Histories
<1>5. (Len(h.chats) + 1) .. (Len(h.chats) + n) \subseteq 1 .. (Len(h.chats) + n)
  BY <1>4
<1>6. RegisterChats(h, n) \in Histories
  <2>1. h.open \cup (Len(h.chats) + 1) .. (Len(h.chats) + n) \in SUBSET Nat
    BY <1>4 DEF Histories
  <2> QED BY <1>2, <1>3, <1>4, <2>1 DEF Histories
<1>7. RegisterChats(h, n).chats = h.chats \o new
  BY <1>3, <1>4 DEF Histories
<1>8. RegisterChats(h, n).open \subseteq 1 .. (Len(h.chats) + n)
  BY <1>3, <1>4, <1>5 DEF Histories
<1> QED BY <1>2, <1>3, <1>4, <1>6, <1>7, <1>8 DEF GoodHistories, Histories

\* Selecting a conversation changes nothing else.
LEMMA SelectType ==
    ASSUME NEW h \in GoodHistories, NEW c \in Nat
    PROVE  /\ Select(h, c) \in GoodHistories
           /\ Select(h, c).current = c
           /\ Select(h, c).chats = h.chats /\ Select(h, c).open = h.open
           /\ Select(h, c).project = h.project
BY DEF Select, GoodHistories, Histories

LEMMA CreateChatType ==
    ASSUME NEW h \in GoodHistories
    PROVE  /\ CreateChat(h) \in GoodHistories
           /\ CreateChat(h).current \in CreateChat(h).open
<1> DEFINE g == RegisterChats(h, 1)
           c == Len(h.chats) + 1
<1>1. g \in GoodHistories
  BY RegisterChatsType
<1>2. c \in Nat /\ c \in g.open
  BY DEF RegisterChats, GoodHistories, Histories
<1> HIDE DEF g
<1>3. CreateChat(h) = Select(g, c)
  BY DEF CreateChat, g
<1> QED BY <1>1, <1>2, <1>3, SelectType

LEMMA EnsureChatType ==
    ASSUME NEW h \in GoodHistories
    PROVE  /\ EnsureChat(h) \in GoodHistories
           /\ EnsureChat(h).current \in EnsureChat(h).open
           /\ EnsureChat(h).current \in Nat
<1>1. EnsureChat(h) \in GoodHistories /\ EnsureChat(h).current \in EnsureChat(h).open
  BY CreateChatType DEF EnsureChat
<1> QED BY <1>1 DEF GoodHistories, Histories

\* The entries of a conversation are a list of entries.
LEMMA TranscriptType ==
    ASSUME NEW h \in GoodHistories, NEW c \in DOMAIN h.chats
    PROVE  /\ h.chats[c] \in Chats
           /\ Transcript(h, c) \in Seq(Entries)
<1>1. h.chats \in Seq(Chats)
  BY DEF GoodHistories, Histories
<1>2. h.chats[c] \in Chats
  BY <1>1
<1> QED BY <1>2 DEF Chats, Transcript

\* Rewriting the entries of one conversation keeps the history well formed.
LEMMA WithTranscriptType ==
    ASSUME NEW h \in GoodHistories, NEW c, NEW es,
           c \in DOMAIN h.chats => es \in Seq(Entries)
    PROVE  WithTranscript(h, c, es) \in GoodHistories
<1> DEFINE cs == [h.chats EXCEPT ![c].entries = es]
<1>1. h.chats \in Seq(Chats)
  BY DEF GoodHistories, Histories
<1>2. cs \in Seq(Chats) /\ Len(cs) = Len(h.chats)
  <2>1. CASE c \in DOMAIN h.chats
    <3>1. h.chats[c] \in Chats /\ es \in Seq(Entries)
      BY <1>1, <2>1
    <3> DEFINE chat == [h.chats[c] EXCEPT !.entries = es]
    <3>2. chat \in Chats
      BY <3>1 DEF Chats
    <3>3. cs = [h.chats EXCEPT ![c] = chat]
      OBVIOUS
    <3> HIDE DEF chat, cs
    <3> QED BY <1>1, <2>1, <3>2, <3>3
  <2>2. CASE c \notin DOMAIN h.chats
    <3>1. cs = h.chats
      BY <1>1, <2>2
    <3> QED BY <1>1, <3>1
  <2> QED BY <2>1, <2>2
<1>3. WithTranscript(h, c, es) = [h EXCEPT !.chats = cs]
  BY DEF WithTranscript, GoodHistories, Histories
<1> HIDE DEF cs
<1> QED BY <1>2, <1>3 DEF GoodHistories, Histories

\* ... and loads and forgets no conversation.
LEMMA WithTranscriptKeeps ==
    ASSUME NEW h \in GoodHistories, NEW c, NEW es
    PROVE  /\ WithTranscript(h, c, es).open = h.open
           /\ WithTranscript(h, c, es).current = h.current
           /\ WithTranscript(h, c, es).project = h.project
BY DEF WithTranscript, GoodHistories, Histories

\* Adding an entry to a conversation.
LEMMA AddEntryType ==
    ASSUME NEW h \in GoodHistories, NEW c, NEW e \in Entries
    PROVE  AddEntry(h, c, e) \in GoodHistories
<1> DEFINE es == Append(Transcript(h, c), e)
<1>1. c \in DOMAIN h.chats => es \in Seq(Entries)
  BY TranscriptType
<1> QED BY <1>1, WithTranscriptType DEF AddEntry

\* Settling the entry of a run.
LEMMA SettleEntryType ==
    ASSUME NEW h \in GoodHistories, NEW c, NEW r, NEW s \in EntryStates
    PROVE  SettleEntry(h, c, r, s) \in GoodHistories
<1> DEFINE old == Transcript(h, c)
           es == [k \in DOMAIN old |-> Settle(old[k], r, s)]
<1>1. ASSUME c \in DOMAIN h.chats PROVE es \in Seq(Entries)
  <2>1. old \in Seq(Entries)
    BY <1>1, TranscriptType
  <2> HIDE DEF old
  <2>2. \A e \in Entries : Settle(e, r, s) \in Entries
    BY DEF Entries, Settle
  <2>3. DOMAIN old = 1 .. Len(old) /\ Len(old) \in Nat
    BY <2>1
  <2>4. \A k \in DOMAIN old : Settle(old[k], r, s) \in Entries
    BY <2>1, <2>2
  <2> QED BY <2>3, <2>4
<1> HIDE DEF es
<1>2. WithTranscript(h, c, es) \in GoodHistories
  BY <1>1, WithTranscriptType
<1> QED BY <1>2 DEF SettleEntry, es

\* Showing a streamed update in the entry of a run.
LEMMA StreamEntryType ==
    ASSUME NEW h \in GoodHistories, NEW c, NEW r
    PROVE  StreamEntry(h, c, r) \in GoodHistories
<1> DEFINE old == Transcript(h, c)
           es == [k \in DOMAIN old |-> Advanced(old[k], r)]
<1>1. ASSUME c \in DOMAIN h.chats PROVE es \in Seq(Entries)
  <2>1. old \in Seq(Entries)
    BY <1>1, TranscriptType
  <2> HIDE DEF old
  <2>2. \A e \in Entries : Advanced(e, r) \in Entries
    BY DEF Entries, Advanced
  <2>3. DOMAIN old = 1 .. Len(old) /\ Len(old) \in Nat
    BY <2>1
  <2>4. \A k \in DOMAIN old : Advanced(old[k], r) \in Entries
    BY <2>1, <2>2
  <2> QED BY <2>3, <2>4
<1> HIDE DEF es
<1>2. WithTranscript(h, c, es) \in GoodHistories
  BY <1>1, WithTranscriptType
<1> QED BY <1>2 DEF StreamEntry, es

\* Dropping the last entry of a conversation that has one.
LEMMA DropLastEntryType ==
    ASSUME NEW h \in GoodHistories, NEW c \in DOMAIN h.chats, HasEntries(h, c)
    PROVE  DropLastEntry(h, c) \in GoodHistories
<1> DEFINE old == Transcript(h, c)
<1>1. old \in Seq(Entries) /\ old # <<>>
  BY TranscriptType DEF HasEntries
<1> HIDE DEF old
<1>2. Front(old) \in Seq(Entries)
  BY <1>1 DEF Front
<1>3. WithTranscript(h, c, Front(old)) \in GoodHistories
  BY <1>2, WithTranscriptType
<1> QED BY <1>3 DEF DropLastEntry, old

\* Other conversations that exist are loaded, any of them the active one.
LEMMA OpenOthersType ==
    ASSUME NEW h \in GoodHistories, NEW cs \in Seq(Chats),
           Len(cs) = Len(h.chats),
           NEW S \in SUBSET (1 .. Len(h.chats)), NEW c \in Nat
    PROVE  [h EXCEPT !.chats = cs, !.open = S, !.current = c] \in GoodHistories
<1>1. S \in SUBSET Nat
  BY DEF GoodHistories, Histories
<1> QED BY <1>1 DEF GoodHistories, Histories

\* Removing conversations: what stays loaded was loaded, and the conversation
\* that becomes active is 0 or loaded.
LEMMA RemoveChatsType ==
    ASSUME NEW h \in GoodHistories, NEW gone
    PROVE  RemoveChats(h, gone) \in GoodHistories
<1> DEFINE left == h.open \ gone
           after == {c \in left : c > Smallest(gone \cap h.open)}
           fallback == IF left = {} THEN 0
                       ELSE IF after # {} THEN Smallest(after) ELSE Largest(left)
           cur == IF h.current \in left THEN h.current ELSE fallback
           cs == [c \in DOMAIN h.chats |->
                    IF c \in gone \cap h.open THEN [h.chats[c] EXCEPT !.entries = <<>>]
                    ELSE h.chats[c]]
<1>1. h.chats \in Seq(Chats) /\ Len(h.chats) \in Nat
  BY DEF GoodHistories, Histories
<1>2. left \in SUBSET (1 .. Len(h.chats)) /\ left \in SUBSET Nat
  BY DEF GoodHistories, Histories
<1>3. after \in SUBSET left /\ after \in SUBSET Nat
  BY <1>2
<1> HIDE DEF after, left
<1>4. fallback \in Nat
  <2>1. CASE left = {}
    BY <2>1
  <2>2. CASE left # {} /\ after # {}
    BY <2>2, <1>3, SmallestOf
  <2>3. CASE left # {} /\ after = {}
    <3>1. Largest(left) \in left
      BY <1>1, <1>2, <2>3, LargestOf
    <3> QED BY <3>1, <1>2, <2>3
  <2> QED BY <2>1, <2>2, <2>3
<1> HIDE DEF fallback
<1>5. cur \in Nat
  BY <1>4 DEF GoodHistories, Histories
<1>6. cs \in Seq(Chats) /\ Len(cs) = Len(h.chats)
  <2>1. DOMAIN h.chats = 1 .. Len(h.chats) /\ \A c \in DOMAIN h.chats : h.chats[c] \in Chats
    BY <1>1
  <2>2. <<>> \in Seq(Entries)
    OBVIOUS
  <2>3. \A x \in Chats : [x EXCEPT !.entries = <<>>] \in Chats
    BY <2>2 DEF Chats
  <2> QED BY <1>1, <2>1, <2>3
<1>7. RemoveChats(h, gone) = h
      \/ RemoveChats(h, gone) = [h EXCEPT !.chats = cs, !.open = left, !.current = cur]
  BY DEF RemoveChats, left, after, fallback
<1> HIDE DEF cs, cur
<1>8. [h EXCEPT !.chats = cs, !.open = left, !.current = cur] \in GoodHistories
  BY <1>2, <1>5, <1>6, OpenOthersType
<1> QED BY <1>7, <1>8

\* The clean-up keeps some of the loaded conversations.
LEMMA PruneEmptyType ==
    ASSUME NEW h \in GoodHistories
    PROVE  PruneEmpty(h) \in GoodHistories
<1> DEFINE full == {c \in h.open : HasEntries(h, c)}
           kept == IF full = {} THEN {Largest(h.open)} ELSE full
           cur == IF h.current = 0 \/ h.current \in kept THEN h.current ELSE Largest(kept)
<1> SUFFICES ASSUME h.open # {} PROVE PruneEmpty(h) \in GoodHistories
  BY DEF PruneEmpty
<1>1. h.open \in SUBSET (1 .. Len(h.chats)) /\ Len(h.chats) \in Nat
      /\ h.chats \in Seq(Chats) /\ h.current \in Nat
  BY DEF GoodHistories, Histories
<1>2. Largest(h.open) \in h.open
  BY <1>1, LargestOf
<1>3. kept \in SUBSET (1 .. Len(h.chats)) /\ kept # {}
  BY <1>1, <1>2
<1>4. PruneEmpty(h) = [h EXCEPT !.open = kept, !.current = cur]
  BY DEF PruneEmpty
<1> HIDE DEF kept
<1>5. Largest(kept) \in kept
  BY <1>1, <1>3, LargestOf
<1>6. cur \in Nat
  <2>1. \A c \in kept : c \in Nat
    BY <1>1, <1>3
  <2> QED BY <1>1, <1>5, <2>1
<1> HIDE DEF cur
<1>7. kept \in SUBSET Nat
  BY <1>1, <1>3
<1> QED BY <1>1, <1>3, <1>4, <1>6, <1>7 DEF GoodHistories, Histories

\* Opening a project loads its stored conversations and adds a draft.
LEMMA OpenProjectType ==
    ASSUME NEW h \in GoodHistories, NEW p \in Nat
    PROVE  OpenProject(h, p) \in GoodHistories
<1> DEFINE g == [h EXCEPT !.project = p, !.open = StoredIn(h, p)]
<1>1. StoredIn(h, p) \subseteq 1 .. Len(h.chats) /\ Len(h.chats) \in Nat
  BY DEF StoredIn, GoodHistories, Histories
<1>2. StoredIn(h, p) \in SUBSET Nat
  BY <1>1
<1>3. g \in GoodHistories
  BY <1>1, <1>2 DEF GoodHistories, Histories
<1> HIDE DEF g
<1>4. CreateChat(g) \in GoodHistories
  BY <1>3, CreateChatType
<1> QED BY <1>4 DEF OpenProject, g

-----------------------------------------------------------------------------
(* The operations of BatchRunner.                                          *)

LEMMA ResetType == Reset \in Batches
<1>1. <<>> \in Seq(BatchItem)
  OBVIOUS
<1>2. Nowhere \in Places
  BY DEF Nowhere, Places
<1> QED BY <1>1, <1>2 DEF Reset, Batches, CancelMode

LEMMA NothingStartedType ==
    ASSUME NEW b \in Batches
    PROVE  NothingStarted(b) \in Outcomes
BY DEF NothingStarted, Outcomes

\* Replacing every item of a queue by an item.
LEMMA ItemsType ==
    ASSUME NEW b \in Batches, NEW its, DOMAIN its = DOMAIN b.items,
           \A i \in DOMAIN its : its[i] \in BatchItem,
           its = [i \in DOMAIN its |-> its[i]]
    PROVE  /\ its \in Seq(BatchItem)
           /\ Len(its) = Len(b.items)
           /\ [b EXCEPT !.items = its] \in Batches
<1>1. b.items \in Seq(BatchItem)
  BY DEF Batches
<1>2. DOMAIN its = 1 .. Len(b.items) /\ Len(b.items) \in Nat
  BY <1>1
<1>3. its \in Seq(BatchItem) /\ Len(its) = Len(b.items)
  BY <1>2
<1> QED BY <1>3 DEF Batches

LEMMA ItemAt ==
    ASSUME NEW b \in Batches, NEW i \in DOMAIN b.items
    PROVE  /\ b.items[i] \in BatchItem
           /\ i \in 1 .. Len(b.items)
           /\ Len(b.items) \in Nat
<1>1. b.items \in Seq(BatchItem)
  BY DEF Batches
<1> QED BY <1>1

LEMMA MarkType ==
    ASSUME NEW b \in Batches, NEW i \in DOMAIN b.items, NEW s \in BatchItemStatus
    PROVE  /\ Mark(b, i, s) \in Batches
           /\ Mark(b, i, s).running = b.running
           /\ Len(Mark(b, i, s).items) = Len(b.items)
<1> DEFINE its == [b.items EXCEPT ![i].status = s]
<1>1. b.items \in Seq(BatchItem)
  BY DEF Batches
<1>2. b.items[i] \in BatchItem
  BY ItemAt
<1>3. [b.items[i] EXCEPT !.status = s] \in BatchItem
  BY <1>2 DEF BatchItem
<1>4. its \in Seq(BatchItem) /\ Len(its) = Len(b.items)
  BY <1>1, <1>3
<1>5. Mark(b, i, s) = [b EXCEPT !.items = its]
  BY DEF Mark, Batches
<1> HIDE DEF its
<1> QED BY <1>4, <1>5 DEF Batches

LEMMA CancelAllType ==
    ASSUME NEW b \in Batches
    PROVE  CancelAll(b) \in Batches /\ CancelAll(b).running = b.running
<1> DEFINE its == [i \in DOMAIN b.items |->
                     IF b.items[i].status = "pending"
                     THEN [b.items[i] EXCEPT !.status = "cancelled"]
                     ELSE b.items[i]]
<1>1. \A i \in DOMAIN b.items : b.items[i] \in BatchItem
  BY ItemAt
<1>2. \A i \in DOMAIN its : its[i] \in BatchItem
  BY <1>1 DEF BatchItem, BatchItemStatus
<1>3. DOMAIN its = DOMAIN b.items /\ its = [i \in DOMAIN its |-> its[i]]
  OBVIOUS
<1>4. CancelAll(b) = b \/ CancelAll(b) = [b EXCEPT !.mode = "stop_all", !.items = its]
  BY DEF CancelAll
<1> HIDE DEF its
<1>5. its \in Seq(BatchItem)
  BY <1>2, <1>3, ItemsType
<1> QED BY <1>4, <1>5 DEF Batches, CancelMode

LEMMA RequestSkipCurrentType ==
    ASSUME NEW b \in Batches
    PROVE  /\ RequestSkipCurrent(b) \in Batches
           /\ RequestSkipCurrent(b).running = b.running
BY DEF RequestSkipCurrent, Batches, CancelMode

-----------------------------------------------------------------------------
\* Starting an item.
LEMMA StartItemType ==
    ASSUME NEW b \in Batches, NEW base \in Nat, NEW here \in Places,
           NEW f \in DOMAIN b.items, NEW n \in f .. (Len(b.items) + 1)
    PROVE  LET out == StartItem(b, base, here, f, n)
           IN  /\ out \in Outcomes
               /\ out.batch.running <=> out.chat # 0
<1> DEFINE chatOf(i) == base + 1 + (i - f)
           its == [i \in DOMAIN b.items |->
                   IF i < f \/ i > n \/ b.items[i].status # "pending"
                   THEN b.items[i]
                   ELSE [chat |-> chatOf(i),
                         status |-> IF i = n THEN "running" ELSE "failed",
                         ctx |-> IF i = n THEN here ELSE Nowhere]]
           started == n <= Len(b.items)
           bb == [b EXCEPT !.items = its, !.running = started]
           made == IF started THEN n + 1 - f ELSE n - f
           chat == IF started THEN chatOf(n) ELSE 0
<1>1. b.items \in Seq(BatchItem) /\ Len(b.items) \in Nat
      /\ f \in 1 .. Len(b.items) /\ n \in Nat /\ f <= n
  BY DEF Batches
<1>2. \A i \in DOMAIN its : its[i] \in BatchItem
  <2> SUFFICES ASSUME NEW i \in DOMAIN b.items PROVE its[i] \in BatchItem
    OBVIOUS
  <2>1. b.items[i] \in BatchItem /\ i \in Nat
    BY ItemAt
  <2>2. CASE i < f \/ i > n \/ b.items[i].status # "pending"
    BY <2>1, <2>2
  <2>3. CASE ~ (i < f \/ i > n \/ b.items[i].status # "pending")
    <3>1. chatOf(i) \in Nat
      BY <1>1, <2>1, <2>3
    <3>2. Nowhere \in Places
      BY DEF Nowhere, Places
    <3> HIDE DEF chatOf
    <3> QED BY <2>3, <3>1, <3>2 DEF BatchItem, BatchItemStatus
  <2> QED BY <2>2, <2>3
<1>3. DOMAIN its = DOMAIN b.items /\ its = [i \in DOMAIN its |-> its[i]]
  OBVIOUS
<1>4. StartItem(b, base, here, f, n) = [batch |-> bb, made |-> made, chat |-> chat]
  BY DEF StartItem
<1>5. made \in Nat
  BY <1>1
<1>6. chat \in Nat /\ (started <=> chat # 0)
  BY <1>1
<1> HIDE DEF its, made, chat
<1>7. its \in Seq(BatchItem)
  BY <1>2, <1>3, ItemsType
<1>8. started \in BOOLEAN
  BY <1>1
<1> HIDE DEF started
<1>9. bb \in Batches /\ bb.running = started
  BY <1>7, <1>8 DEF Batches
<1> HIDE DEF bb
<1>10. [batch |-> bb, made |-> made, chat |-> chat] \in Outcomes
  BY <1>5, <1>6, <1>9 DEF Outcomes
<1> QED BY <1>4, <1>6, <1>9, <1>10

\* _advance leaves the queue running exactly when it submitted a prompt.
LEMMA AdvanceType ==
    ASSUME NEW b \in Batches, NEW base \in Nat, NEW here \in Places,
           NEW out \in Advance(b, base, here)
    PROVE  /\ out \in Outcomes
           /\ out.batch.running <=> out.chat # 0
<1>1. CASE ~b.running \/ Pending(b) = {}
  <2> DEFINE off == [b EXCEPT !.running = FALSE]
  <2>1. out = NothingStarted(off)
    BY <1>1 DEF Advance
  <2>2. off \in Batches /\ off.running = FALSE
    BY DEF Batches
  <2> HIDE DEF off
  <2> QED BY <2>1, <2>2, NothingStartedType DEF NothingStarted
<1>2. CASE ~ (~b.running \/ Pending(b) = {})
  <2>1. PICK f \in FirstPending(b) : \E n \in Candidates(b, f) :
           out = StartItem(b, base, here, f, n)
    BY <1>2 DEF Advance
  <2>0. PICK n \in Candidates(b, f) : out = StartItem(b, base, here, f, n)
    BY <2>1
  <2>2. f \in DOMAIN b.items
    BY DEF FirstPending, Pending
  <2>3. f \in 1 .. Len(b.items) /\ Len(b.items) \in Nat
    BY <2>2, ItemAt
  <2>4. n \in f .. (Len(b.items) + 1)
    BY <2>3 DEF Candidates
  <2> QED BY <2>0, <2>2, <2>4, StartItemType
<1> QED BY <1>1, <1>2

LEMMA StartType ==
    ASSUME NEW n \in Nat, NEW base \in Nat, NEW here \in Places,
           NEW out \in Start(n, base, here)
    PROVE  /\ out \in Outcomes
           /\ out.batch.running <=> out.chat # 0
<1> DEFINE its == [i \in 1 .. n |-> [chat |-> 0, status |-> "pending", ctx |-> Nowhere]]
           b == [items |-> its, running |-> TRUE, mode |-> "none", origin |-> here]
<1>1. Nowhere \in Places
  BY DEF Nowhere, Places
<1>2. its \in Seq(BatchItem)
  BY <1>1 DEF BatchItem, BatchItemStatus
<1> HIDE DEF its
<1>3. b \in Batches
  BY <1>2 DEF Batches, CancelMode
<1>4. out \in Advance(b, base, here)
  BY DEF Start, its
<1> HIDE DEF b
<1> QED BY <1>3, <1>4, AdvanceType

\* handle_completion leaves the queue running exactly when it submitted a
\* prompt, unless the conversation is none of its own.
LEMMA HandleCompletionType ==
    ASSUME NEW b \in Batches, NEW c, NEW ok \in BOOLEAN, NEW base \in Nat,
           NEW here \in Places, NEW out \in HandleCompletion(b, c, ok, base, here)
    PROVE  /\ out \in Outcomes
           /\ \/ ItemsOf(b, c) = {} /\ out = NothingStarted(b)
              \/ out.batch.running <=> out.chat # 0
<1>1. CASE ItemsOf(b, c) = {}
  <2>1. out = NothingStarted(b)
    BY <1>1 DEF HandleCompletion
  <2> QED BY <1>1, <2>1, NothingStartedType
<1>2. CASE ItemsOf(b, c) # {}
  <2> DEFINE verdict == IF ok THEN "completed" ELSE "failed"
  <2>1. PICK i \in ItemsOf(b, c) : out \in Advance(Mark(b, i, verdict), base, here)
    BY <1>2 DEF HandleCompletion
  <2>2. i \in DOMAIN b.items /\ verdict \in BatchItemStatus
    BY DEF ItemsOf, BatchItemStatus
  <2> HIDE DEF verdict
  <2>3. Mark(b, i, verdict) \in Batches
    BY <2>2, MarkType
  <2> QED BY <2>1, <2>3, AdvanceType
<1> QED BY <1>1, <1>2

\* handle_cancellation likewise.
LEMMA HandleCancellationType ==
    ASSUME NEW b \in Batches, NEW c, NEW base \in Nat,
           NEW here \in Places, NEW out \in HandleCancellation(b, c, base, here)
    PROVE  /\ out \in Outcomes
           /\ \/ ItemsOf(b, c) = {} /\ out = NothingStarted(b)
              \/ out.batch.running <=> out.chat # 0
<1>1. CASE ItemsOf(b, c) = {}
  <2>1. out = NothingStarted(b)
    BY <1>1 DEF HandleCancellation
  <2> QED BY <1>1, <2>1, NothingStartedType
<1>2. CASE ItemsOf(b, c) # {}
  <2> DEFINE cancelled(i) == [Mark(b, i, "cancelled") EXCEPT !.mode = "none"]
             off(i) == [cancelled(i) EXCEPT !.running = FALSE]
  <2>1. PICK i \in ItemsOf(b, c) :
           \/ out = NothingStarted(off(i))
           \/ out \in Advance(cancelled(i), base, here)
    BY <1>2 DEF HandleCancellation
  <2>2. i \in DOMAIN b.items
    BY DEF ItemsOf
  <2>3. Mark(b, i, "cancelled") \in Batches
    BY <2>2, MarkType DEF BatchItemStatus
  <2>4. cancelled(i) \in Batches
    BY <2>3 DEF Batches, CancelMode
  <2>5. off(i) \in Batches /\ off(i).running = FALSE
    BY <2>4 DEF Batches
  <2> HIDE DEF cancelled, off
  <2>6. CASE out = NothingStarted(off(i))
    BY <2>5, <2>6, NothingStartedType DEF NothingStarted
  <2>7. CASE out \in Advance(cancelled(i), base, here)
    BY <2>4, <2>7, AdvanceType
  <2> QED BY <2>1, <2>6, <2>7
<1> QED BY <1>1, <1>2

-----------------------------------------------------------------------------
(* The order of a queue.                                                   *)

\* The items of b have conversations of their own, numbered up to `last`; an
\* item that waits has none and one that runs has one.
Numbered(b, last) ==
    /\ \A i \in DOMAIN b.items :
          /\ b.items[i].chat <= last
          /\ b.items[i].status = "pending" => b.items[i].chat = 0
          /\ b.items[i].status = "running" => b.items[i].chat # 0
    /\ \A i, j \in DOMAIN b.items :
          b.items[i].chat = b.items[j].chat /\ b.items[i].chat # 0 => i = j

\* The items before k are settled, those after it have not begun.
Ordered(b, k) ==
    \A j \in DOMAIN b.items :
        /\ j < k => b.items[j].status \in Settled
        /\ j > k => b.items[j].status = "pending"

\* The queue is over, or it runs in conversation c.
Done(b) == ~b.running /\ \A i \in DOMAIN b.items : b.items[i].status \in Settled
Working(b, c) ==
    /\ b.running /\ c # 0
    /\ \E k \in DOMAIN b.items :
          b.items[k].status = "running" /\ b.items[k].chat = c /\ Ordered(b, k)

\* The queue between two items, when _advance looks for the next one.
Between(b) ==
    /\ b.running
    /\ \E k \in DOMAIN b.items : b.items[k].status \in Settled /\ Ordered(b, k)

\* The queue while cancel_all waits for the item in conversation c.
Winding(b, c) ==
    /\ b.mode = "stop_all" /\ c # 0
    /\ \E k \in DOMAIN b.items :
          /\ b.items[k].status = "running" /\ b.items[k].chat = c
          /\ \A j \in DOMAIN b.items : j # k => b.items[j].status \in Settled

\* From b to d no verdict was changed.
VerdictsKept(b, d) ==
    /\ DOMAIN d.items = DOMAIN b.items
    /\ \A i \in DOMAIN b.items :
          b.items[i].status \in Settled => d.items[i] = b.items[i]

\* An outcome leaves the queue over, or at work in the conversation submitted.
Sound(out, base) ==
    /\ Numbered(out.batch, base + out.made)
    /\ \/ out.chat = 0 /\ Done(out.batch)
       \/ out.chat # 0 /\ out.batch.mode = "none" /\ Working(out.batch, out.chat)

LEMMA NumberedGrows ==
    ASSUME NEW b \in Batches, NEW m \in Nat, NEW n \in Nat, m <= n, Numbered(b, m)
    PROVE  Numbered(b, n)
<1>1. \A i \in DOMAIN b.items : b.items[i].chat \in Nat
  BY ItemAt DEF BatchItem
<1> QED BY <1>1 DEF Numbered

\* What Mark leaves.
LEMMA MarkIs ==
    ASSUME NEW b \in Batches, NEW i \in DOMAIN b.items, NEW s
    PROVE  /\ DOMAIN Mark(b, i, s).items = DOMAIN b.items
           /\ Mark(b, i, s).items[i].status = s
           /\ \A j \in DOMAIN b.items : Mark(b, i, s).items[j].chat = b.items[j].chat
           /\ \A j \in DOMAIN b.items : j # i => Mark(b, i, s).items[j] = b.items[j]
           /\ Mark(b, i, s).running = b.running /\ Mark(b, i, s).mode = b.mode
<1> DEFINE its == [b.items EXCEPT ![i].status = s]
<1>1. b.items[i] \in BatchItem
  BY ItemAt
<1>2. Mark(b, i, s) = [b EXCEPT !.items = its]
  BY DEF Mark, Batches
<1>3. its[i] = [b.items[i] EXCEPT !.status = s]
  OBVIOUS
<1>4. its[i].status = s /\ its[i].chat = b.items[i].chat
  BY <1>1, <1>3 DEF BatchItem
<1>5. DOMAIN its = DOMAIN b.items /\ \A j \in DOMAIN b.items : j # i => its[j] = b.items[j]
  OBVIOUS
<1> HIDE DEF its
<1>6. /\ Mark(b, i, s).items = its /\ Mark(b, i, s).running = b.running
      /\ Mark(b, i, s).mode = b.mode
  BY <1>2 DEF Batches
<1> QED BY <1>4, <1>5, <1>6

LEMMA MarkNumbered ==
    ASSUME NEW b \in Batches, NEW i \in DOMAIN b.items, NEW s \in Settled,
           NEW n \in Nat, Numbered(b, n)
    PROVE  Numbered(Mark(b, i, s), n)
<1>1. s # "pending" /\ s # "running"
  BY DEF Settled
<1> QED BY <1>1, MarkIs DEF Numbered

\* The item whose run ended is the one that ran: the queue is between items.
LEMMA MarkBetween ==
    ASSUME NEW b \in Batches, NEW n \in Nat, Numbered(b, n), NEW c, Working(b, c),
           NEW i \in ItemsOf(b, c), NEW s \in Settled
    PROVE  /\ Between(Mark(b, i, s))
           /\ VerdictsKept(b, Mark(b, i, s))
<1>1. PICK k \in DOMAIN b.items :
         c # 0 /\ b.items[k].status = "running" /\ b.items[k].chat = c /\ Ordered(b, k)
  BY DEF Working
<1>2. i = k
  BY <1>1 DEF ItemsOf, Numbered
<1>3. Ordered(Mark(b, k, s), k) /\ Mark(b, k, s).items[k].status \in Settled
      /\ Mark(b, k, s).running
  <2>1. \A j \in DOMAIN b.items : j \in Nat
    BY ItemAt
  <2> QED BY <1>1, <2>1, MarkIs DEF Ordered, Working
<1>4. VerdictsKept(b, Mark(b, k, s))
  <2>1. b.items[k].status \notin Settled
    BY <1>1 DEF Settled
  <2> QED BY <2>1, MarkIs DEF VerdictsKept
<1> QED BY <1>1, <1>2, <1>3, <1>4, MarkIs DEF Between

LEMMA MarkDone ==
    ASSUME NEW b \in Batches, Done(b), NEW i \in DOMAIN b.items, NEW s \in Settled
    PROVE  Done(Mark(b, i, s))
BY MarkIs DEF Done

\* Items f .. n-1 fail and item n starts: the queue stays in order.
LEMMA StartItemSound ==
    ASSUME NEW b \in Batches, NEW base \in Nat, Numbered(b, base), NEW here \in Places,
           b.running, b.mode = "none",
           NEW f \in DOMAIN b.items, NEW n \in f .. (Len(b.items) + 1),
           \A j \in DOMAIN b.items : j < f => b.items[j].status \in Settled,
           \A j \in DOMAIN b.items : j >= f => b.items[j].status = "pending"
    PROVE  /\ Sound(StartItem(b, base, here, f, n), base)
           /\ VerdictsKept(b, StartItem(b, base, here, f, n).batch)
<1> DEFINE its == [i \in DOMAIN b.items |->
                   IF i < f \/ i > n \/ b.items[i].status # "pending"
                   THEN b.items[i]
                   ELSE [chat |-> base + 1 + (i - f),
                         status |-> IF i = n THEN "running" ELSE "failed",
                         ctx |-> IF i = n THEN here ELSE Nowhere]]
           started == n <= Len(b.items)
           bb == [b EXCEPT !.items = its, !.running = started]
           made == IF started THEN n + 1 - f ELSE n - f
           chat == IF started THEN base + 1 + (n - f) ELSE 0
<1>1. /\ Len(b.items) \in Nat /\ f \in 1 .. Len(b.items) /\ n \in Nat /\ f <= n
      /\ n <= Len(b.items) + 1 /\ DOMAIN b.items = 1 .. Len(b.items)
  BY DEF Batches
<1>2. StartItem(b, base, here, f, n) = [batch |-> bb, made |-> made, chat |-> chat]
  BY DEF StartItem
<1>3. bb.items = its /\ bb.running = started /\ bb.mode = "none"
  BY DEF Batches
<1>4. ASSUME NEW i \in DOMAIN b.items
      PROVE  /\ i \in Nat
             /\ i < f => its[i] = b.items[i] /\ b.items[i].status \in Settled
             /\ i > n => its[i] = b.items[i] /\ b.items[i].status = "pending"
             /\ i >= f /\ i < n => /\ its[i].chat = base + 1 + (i - f)
                                   /\ its[i].status = "failed"
             /\ i = n => /\ its[i].chat = base + 1 + (i - f)
                         /\ its[i].status = "running"
  <2>1. i \in Nat
    BY <1>1
  <2>2. CASE i < f
    BY <1>1, <2>1, <2>2
  <2>3. CASE i > n
    BY <1>1, <2>1, <2>3
  <2>4. CASE i >= f /\ i <= n
    <3>1. b.items[i].status = "pending" /\ ~(i < f) /\ ~(i > n)
      BY <1>1, <2>1, <2>4
    <3>2. its[i] = [chat |-> base + 1 + (i - f),
                    status |-> IF i = n THEN "running" ELSE "failed",
                    ctx |-> IF i = n THEN here ELSE Nowhere]
      BY <3>1
    <3> HIDE DEF its
    <3> QED BY <1>1, <2>1, <2>4, <3>2
  <2> QED BY <1>1, <2>1, <2>2, <2>3, <2>4
<1>5. DOMAIN its = DOMAIN b.items
  OBVIOUS
<1>6. \A i \in DOMAIN b.items : b.items[i].chat \in Nat /\ b.items[i].chat <= base
  BY ItemAt DEF BatchItem, Numbered
<1>7. \A i \in DOMAIN b.items : i > n => b.items[i].chat = 0
  BY <1>4 DEF Numbered
<1> HIDE DEF its
<1>8. /\ made \in Nat /\ (started => made = n + 1 - f) /\ (~started => made = n - f)
      /\ (started <=> n <= Len(b.items))
      /\ (started => chat = base + 1 + (n - f)) /\ (~started => chat = 0)
  BY <1>1
<1> HIDE DEF made, chat, started
<1>9. Numbered(bb, base + made)
  <2>1. ASSUME NEW i \in DOMAIN its
        PROVE  /\ its[i].chat <= base + made
               /\ its[i].status = "pending" => its[i].chat = 0
               /\ its[i].status = "running" => its[i].chat # 0
    <3>0. i \in DOMAIN b.items /\ i \in Nat /\ i \in 1 .. Len(b.items)
      BY <1>1, <1>5
    <3>1. CASE i < f
      <4>1. its[i] = b.items[i] /\ b.items[i].status \in Settled /\ b.items[i].chat <= base
        BY <1>4, <1>6, <3>0, <3>1
      <4>2. b.items[i].chat \in Nat
        BY <1>6, <3>0
      <4>3. its[i].chat <= base + made
        BY <1>8, <4>1, <4>2
      <4> QED BY <4>1, <4>3 DEF Settled
    <3>2. CASE i > n
      <4>1. its[i] = b.items[i] /\ b.items[i].status = "pending" /\ b.items[i].chat = 0
        BY <1>4, <1>7, <3>0, <3>2
      <4> QED BY <1>8, <4>1
    <3>3. CASE i >= f /\ i <= n
      <4>1. its[i].chat = base + 1 + (i - f) /\ its[i].status \in {"running", "failed"}
        BY <1>1, <1>4, <1>5, <3>0, <3>3
      <4>2. i - f + 1 <= made
        BY <1>1, <1>8, <3>0, <3>3
      <4> QED BY <1>1, <1>8, <3>0, <3>3, <4>1, <4>2
    <3> QED BY <1>1, <3>0, <3>1, <3>2, <3>3
  <2>2. ASSUME NEW i \in DOMAIN its, NEW j \in DOMAIN its,
               its[i].chat = its[j].chat, its[i].chat # 0
        PROVE  i = j
    <3>1. ASSUME NEW k \in DOMAIN its
          PROVE  /\ k \in Nat
                 /\ \/ its[k].chat = b.items[k].chat /\ its[k].chat <= base
                    \/ k >= f /\ its[k].chat = base + 1 + (k - f) /\ its[k].chat > base
      <4>1. k \in DOMAIN b.items /\ k \in Nat
        BY <1>1, <1>5
      <4>2. CASE k < f \/ k > n
        BY <1>4, <1>6, <4>1, <4>2
      <4>3. CASE k >= f /\ k <= n
        <5>1. its[k].chat = base + 1 + (k - f)
          BY <1>1, <1>4, <4>1, <4>3
        <5>2. /\ base + 1 + (k - f) > base
              /\ k >= f
          BY <1>1, <4>1, <4>3
        <5> QED BY <4>1, <5>1, <5>2
      <4> QED BY <1>1, <4>1, <4>2, <4>3
    <3>2. CASE its[i].chat <= base
      <4>1. its[j].chat <= base
        BY <2>2, <3>2
      <4>2. its[i].chat = b.items[i].chat /\ its[j].chat = b.items[j].chat
        BY <1>1, <3>1, <3>2, <4>1
      <4> QED BY <1>5, <2>2, <4>2 DEF Numbered
    <3>3. CASE ~(its[i].chat <= base)
      <4>1. ~(its[j].chat <= base)
        BY <2>2, <3>3
      <4>2. /\ i \in Nat /\ its[i].chat = base + 1 + (i - f)
            /\ j \in Nat /\ its[j].chat = base + 1 + (j - f)
        BY <3>1, <3>3, <4>1
      <4>3. base + 1 + (i - f) = base + 1 + (j - f)
        BY <2>2, <4>2
      <4>4. f \in Nat
        BY <1>1
      <4> QED BY <4>2, <4>3, <4>4
    <3> QED BY <3>2, <3>3
  <2> QED BY <1>3, <2>1, <2>2 DEF Numbered
<1>10. ASSUME started PROVE Sound(StartItem(b, base, here, f, n), base)
  <2>1. n \in DOMAIN its /\ n \in DOMAIN b.items
    BY <1>1, <1>5, <1>8, <1>10
  <2>2. its[n].status = "running" /\ its[n].chat = base + 1 + (n - f)
    BY <1>4, <2>1
  <2>3. Ordered(bb, n)
    <3> SUFFICES ASSUME NEW j \in DOMAIN its
                 PROVE  /\ j < n => its[j].status \in Settled
                        /\ j > n => its[j].status = "pending"
      BY <1>3 DEF Ordered
    <3> QED BY <1>1, <1>4, <1>5 DEF Settled
  <2>4. chat = base + 1 + (n - f) /\ chat # 0
    BY <1>1, <1>8, <1>10
  <2>5. Working(bb, chat)
    BY <1>3, <1>10, <2>1, <2>2, <2>3, <2>4 DEF Working
  <2> HIDE DEF bb
  <2> QED BY <1>2, <1>3, <1>9, <2>4, <2>5 DEF Sound
<1>11. ASSUME ~started PROVE Sound(StartItem(b, base, here, f, n), base)
  <2>1. n = Len(b.items) + 1
    BY <1>1, <1>8, <1>11
  <2>2. \A i \in DOMAIN its : its[i].status \in Settled
    BY <1>1, <1>4, <1>5, <2>1 DEF Settled
  <2>3. Done(bb) /\ chat = 0
    BY <1>3, <1>8, <1>11, <2>2 DEF Done
  <2> HIDE DEF bb
  <2> QED BY <1>2, <1>9, <2>3 DEF Sound
<1>12. VerdictsKept(b, bb)
  <2>1. ASSUME NEW i \in DOMAIN b.items, b.items[i].status \in Settled
        PROVE  its[i] = b.items[i]
    <3>1. b.items[i].status # "pending"
      BY <2>1 DEF Settled
    <3> QED BY <3>1 DEF its
  <2> QED BY <1>3, <1>5, <2>1 DEF VerdictsKept
<1>13. Sound(StartItem(b, base, here, f, n), base)
  BY <1>10, <1>11
<1> HIDE DEF bb
<1> QED BY <1>2, <1>12, <1>13

\* _advance between two items, or on a queue that is over.
LEMMA AdvanceSound ==
    ASSUME NEW b \in Batches, NEW base \in Nat, Numbered(b, base), NEW here \in Places,
           Done(b) \/ (Between(b) /\ b.mode = "none"),
           NEW out \in Advance(b, base, here)
    PROVE  Sound(out, base) /\ VerdictsKept(b, out.batch)
<1>1. CASE ~b.running \/ Pending(b) = {}
  <2> DEFINE off == [b EXCEPT !.running = FALSE]
  <2>1. out = NothingStarted(off)
    BY <1>1 DEF Advance
  <2>2. off.items = b.items /\ off.running = FALSE
    BY DEF Batches
  <2>3. \A i \in DOMAIN b.items : b.items[i].status \in Settled
    <3>1. CASE Done(b)
      BY <3>1 DEF Done
    <3>2. CASE Between(b)
      <4>1. PICK k \in DOMAIN b.items : b.items[k].status \in Settled /\ Ordered(b, k)
        BY <3>2 DEF Between
      <4>2. \A i \in DOMAIN b.items : b.items[i].status # "pending"
        BY <1>1, <3>2 DEF Pending, Between
      <4>3. \A i \in DOMAIN b.items : i \in Nat
        BY ItemAt
      <4>4. \A i \in DOMAIN b.items : i < k \/ i = k
        BY <4>1, <4>2, <4>3 DEF Ordered
      <4> QED BY <4>1, <4>4 DEF Ordered
    <3> QED BY <3>1, <3>2
  <2> HIDE DEF off
  <2>4. out.batch = off /\ out.made = 0 /\ out.chat = 0
    BY <2>1 DEF NothingStarted
  <2>5. Numbered(off, base + 0)
    BY <2>2 DEF Numbered
  <2> QED BY <2>2, <2>3, <2>4, <2>5 DEF Sound, Done, VerdictsKept
<1>2. CASE ~ (~b.running \/ Pending(b) = {})
  <2>1. PICK f \in FirstPending(b) : \E n \in Candidates(b, f) :
           out = StartItem(b, base, here, f, n)
    BY <1>2 DEF Advance
  <2>2. PICK n \in Candidates(b, f) : out = StartItem(b, base, here, f, n)
    BY <2>1
  <2>3. f \in DOMAIN b.items /\ b.items[f].status = "pending"
        /\ \A i \in Pending(b) : f <= i
    BY DEF FirstPending, Pending
  <2>4. f \in 1 .. Len(b.items) /\ Len(b.items) \in Nat
    BY <2>3, ItemAt
  <2>5. n \in f .. (Len(b.items) + 1)
    BY <2>4 DEF Candidates
  <2>6. Between(b) /\ b.mode = "none"
    BY <1>2 DEF Done
  <2>7. PICK k \in DOMAIN b.items : b.items[k].status \in Settled /\ Ordered(b, k)
    BY <2>6 DEF Between
  <2>8. \A j \in DOMAIN b.items : j \in Nat
    BY ItemAt
  <2>9. \A j \in DOMAIN b.items : j > k <=> b.items[j].status = "pending"
    BY <2>7, <2>8 DEF Ordered, Settled
  <2>10. \A j \in DOMAIN b.items : j < f => b.items[j].status \in Settled
    <3> SUFFICES ASSUME NEW j \in DOMAIN b.items, j < f
                 PROVE  b.items[j].status \in Settled
      OBVIOUS
    <3>1. j \notin Pending(b)
      BY <2>3, <2>4, <2>8
    <3>2. ~(j > k)
      BY <2>9, <3>1 DEF Pending
    <3>3. j < k \/ j = k
      BY <2>8, <3>2
    <3> QED BY <2>7, <3>3 DEF Ordered
  <2>11. \A j \in DOMAIN b.items : j >= f => b.items[j].status = "pending"
    BY <2>3, <2>4, <2>8, <2>9
  <2> QED BY <1>2, <2>2, <2>3, <2>5, <2>6, <2>10, <2>11, StartItemSound
<1> QED BY <1>1, <1>2

LEMMA StartSound ==
    ASSUME NEW n \in Nat \ {0}, NEW base \in Nat, NEW here \in Places,
           NEW out \in Start(n, base, here)
    PROVE  Sound(out, base)
<1> DEFINE its == [i \in 1 .. n |-> [chat |-> 0, status |-> "pending", ctx |-> Nowhere]]
           b == [items |-> its, running |-> TRUE, mode |-> "none", origin |-> here]
<1>1. Nowhere \in Places
  BY DEF Nowhere, Places
<1>2. its \in Seq(BatchItem) /\ DOMAIN its = 1 .. n /\ Len(its) = n
      /\ \A i \in DOMAIN its : its[i].chat = 0 /\ its[i].status = "pending"
  BY <1>1 DEF BatchItem, BatchItemStatus
<1>3. out \in Advance(b, base, here)
  BY DEF Start
<1> HIDE DEF its
<1>4. b \in Batches /\ b.items = its /\ b.running /\ b.mode = "none"
  BY <1>2 DEF Batches, CancelMode
<1> HIDE DEF b
<1>5. Numbered(b, base)
  BY <1>2, <1>4 DEF Numbered
<1>6. 1 \in Pending(b) /\ \A i \in DOMAIN b.items : i \in 1 .. n
  BY <1>2, <1>4 DEF Pending
<1>7. PICK f \in FirstPending(b) : \E k \in Candidates(b, f) :
         out = StartItem(b, base, here, f, k)
  BY <1>3, <1>4, <1>6 DEF Advance
<1>8. PICK k \in Candidates(b, f) : out = StartItem(b, base, here, f, k)
  BY <1>7
<1>9. f = 1 /\ f \in DOMAIN b.items
  BY <1>6 DEF FirstPending, Pending
<1>10. k \in f .. (Len(b.items) + 1)
  BY <1>2, <1>4, <1>9 DEF Candidates
<1>11. \A j \in DOMAIN b.items : ~(j < f) /\ b.items[j].status = "pending"
  BY <1>2, <1>4, <1>6, <1>9
<1> QED BY <1>4, <1>5, <1>8, <1>9, <1>10, <1>11, StartItemSound

\* The end of a run, as handle_completion sees it.
LEMMA HandleCompletionSound ==
    ASSUME NEW b \in Batches, NEW c, NEW ok \in BOOLEAN, NEW base \in Nat,
           Numbered(b, base), NEW here \in Places,
           Done(b) \/ (Working(b, c) /\ b.mode = "none"),
           NEW out \in HandleCompletion(b, c, ok, base, here)
    PROVE  /\ Sound(out, base)
           /\ Working(b, c) => VerdictsKept(b, out.batch)
<1>1. CASE ItemsOf(b, c) = {}
  <2>1. ~Working(b, c)
    BY <1>1 DEF Working, ItemsOf
  <2>2. out.batch = b /\ out.made = 0 /\ out.chat = 0
    BY <1>1 DEF HandleCompletion, NothingStarted
  <2>3. Numbered(b, base + 0)
    BY DEF Numbered
  <2> QED BY <2>1, <2>2, <2>3 DEF Sound
<1>2. CASE ItemsOf(b, c) # {}
  <2> DEFINE verdict == IF ok THEN "completed" ELSE "failed"
  <2>1. PICK i \in ItemsOf(b, c) : out \in Advance(Mark(b, i, verdict), base, here)
    BY <1>2 DEF HandleCompletion
  <2>2. i \in DOMAIN b.items /\ verdict \in Settled /\ verdict \in BatchItemStatus
    BY DEF ItemsOf, BatchItemStatus, Settled
  <2> HIDE DEF verdict
  <2> DEFINE m == Mark(b, i, verdict)
  <2>3. m \in Batches /\ Numbered(m, base) /\ m.mode = b.mode
    BY <2>2, MarkType, MarkNumbered, MarkIs
  <2>4. CASE Done(b)
    <3>1. Done(m)
      BY <2>2, <2>4, MarkDone
    <3>2. ~Working(b, c)
      BY <2>4 DEF Done, Working
    <3> HIDE DEF m
    <3> QED BY <2>1, <2>3, <3>1, <3>2, AdvanceSound DEF m
  <2>5. CASE Working(b, c) /\ b.mode = "none"
    <3>1. Between(m) /\ VerdictsKept(b, m)
      BY <2>2, <2>5, MarkBetween
    <3>2. out \in Advance(m, base, here)
      BY <2>1
    <3> HIDE DEF m
    <3>3. Sound(out, base) /\ VerdictsKept(m, out.batch)
      BY <2>3, <2>5, <3>1, <3>2, AdvanceSound
    <3>4. VerdictsKept(b, out.batch)
      BY <3>1, <3>3 DEF VerdictsKept
    <3> QED BY <3>3, <3>4
  <2> QED BY <2>4, <2>5
<1> QED BY <1>1, <1>2

\* ... and as handle_cancellation does, whatever cancellation was asked for.
LEMMA HandleCancellationSound ==
    ASSUME NEW b \in Batches, NEW c, NEW base \in Nat, Numbered(b, base),
           NEW here \in Places,
           \/ Done(b)
           \/ Working(b, c) /\ b.mode # "stop_all"
           \/ Winding(b, c),
           NEW out \in HandleCancellation(b, c, base, here)
    PROVE  /\ Sound(out, base)
           /\ Done(b) \/ VerdictsKept(b, out.batch)
<1>1. CASE ItemsOf(b, c) = {}
  <2>1. Done(b)
    BY <1>1 DEF Working, Winding, ItemsOf
  <2>2. out.batch = b /\ out.made = 0 /\ out.chat = 0
    BY <1>1 DEF HandleCancellation, NothingStarted
  <2>3. Numbered(b, base + 0)
    BY DEF Numbered
  <2> QED BY <2>1, <2>2, <2>3 DEF Sound
<1>2. CASE ItemsOf(b, c) # {}
  <2> DEFINE m(i) == Mark(b, i, "cancelled")
             n(i) == [m(i) EXCEPT !.mode = "none"]
             off(i) == [n(i) EXCEPT !.running = FALSE]
  <2>1. PICK i \in ItemsOf(b, c) :
           IF b.mode = "stop_all" THEN out = NothingStarted(off(i))
           ELSE out \in Advance(n(i), base, here)
    BY <1>2 DEF HandleCancellation
  <2>2. i \in DOMAIN b.items /\ "cancelled" \in Settled /\ "cancelled" \in BatchItemStatus
    BY DEF ItemsOf, BatchItemStatus, Settled
  <2>3. m(i) \in Batches /\ Numbered(m(i), base)
    BY <2>2, MarkType, MarkNumbered
  <2>4. /\ DOMAIN m(i).items = DOMAIN b.items
        /\ m(i).items[i].status = "cancelled"
        /\ \A j \in DOMAIN b.items : j # i => m(i).items[j] = b.items[j]
    BY <2>2, MarkIs
  <2>5. Done(b) => Done(m(i))
    BY <2>2, MarkDone
  <2>6. Working(b, c) => Between(m(i)) /\ VerdictsKept(b, m(i))
    BY <2>2, MarkBetween
  <2> HIDE DEF m
  <2>7. /\ n(i) \in Batches /\ n(i).items = m(i).items
        /\ n(i).mode = "none" /\ n(i).running = m(i).running
    BY <2>3 DEF Batches, CancelMode
  <2> HIDE DEF n
  <2>8. off(i).items = n(i).items /\ off(i).running = FALSE /\ off(i).mode = "none"
    BY <2>7 DEF Batches
  <2> HIDE DEF off
  <2>9. Numbered(n(i), base) /\ Numbered(off(i), base + 0)
    BY <2>3, <2>7, <2>8 DEF Numbered
  <2>10. CASE b.mode = "stop_all"
    <3>1. out.batch = off(i) /\ out.made = 0 /\ out.chat = 0
      BY <2>1, <2>10 DEF NothingStarted
    <3>2. CASE Done(b)
      BY <2>5, <2>7, <2>8, <2>9, <3>1, <3>2 DEF Sound, Done
    <3>3. CASE Winding(b, c)
      <4>1. PICK k \in DOMAIN b.items :
               c # 0 /\ b.items[k].status = "running" /\ b.items[k].chat = c
               /\ \A j \in DOMAIN b.items : j # k => b.items[j].status \in Settled
        BY <3>3 DEF Winding
      <4>2. i = k
        BY <4>1 DEF ItemsOf, Numbered
      <4>3. Done(off(i))
        BY <2>2, <2>4, <2>7, <2>8, <4>1, <4>2 DEF Done
      <4>4. VerdictsKept(b, off(i))
        BY <2>4, <2>7, <2>8, <4>1, <4>2 DEF VerdictsKept, Settled
      <4> QED BY <2>9, <3>1, <4>3, <4>4 DEF Sound
    <3> QED BY <2>10, <3>2, <3>3
  <2>11. CASE b.mode # "stop_all"
    <3>1. out \in Advance(n(i), base, here)
      BY <2>1, <2>11
    <3>2. CASE Done(b)
      <4>1. Done(n(i))
        BY <2>5, <2>7, <3>2 DEF Done
      <4> QED BY <2>7, <2>9, <3>1, <3>2, <4>1, AdvanceSound
    <3>3. CASE Working(b, c)
      <4>1. Between(n(i)) /\ VerdictsKept(b, n(i))
        BY <2>6, <2>7, <3>3 DEF Between, Ordered, VerdictsKept
      <4>2. Sound(out, base) /\ VerdictsKept(n(i), out.batch)
        BY <2>7, <2>9, <3>1, <4>1, AdvanceSound
      <4>3. VerdictsKept(b, out.batch)
        BY <4>1, <4>2 DEF VerdictsKept
      <4> QED BY <4>2, <4>3
    <3> QED BY <2>11, <3>2, <3>3 DEF Winding
  <2> QED BY <2>10, <2>11
<1> QED BY <1>1, <1>2

-----------------------------------------------------------------------------
(* Type correctness.                                                       *)

\* The history of a well-typed state is a well-formed one.
LEMMA HistoryGood == TypeOK => history \in GoodHistories
BY DEF TypeOK, GoodHistories

LEMMA HereType == TypeOK => Here \in Places
<1>1. Docs \subseteq Nat
  BY DocsAssumption
<1>2. TypeOK => history.project \in Nat /\ doc \in Nat
  BY <1>1 DEF TypeOK, Histories
<1> QED BY <1>2 DEF Here, Places

\* What remains of a pruned queue was in it.
LEMMA PrunedType ==
    ASSUME NEW q \in Seq(Nat), NEW open, NEW p, Pruned(q, open, p)
    PROVE  p \in Seq(Nat) /\ (p # <<>> => q # <<>>)
<1>1. PICK k \in 0 .. Len(q) : p = SubSeq(q, k + 1, Len(q))
  BY DEF Pruned
<1>2. p \in Seq(Nat)
  BY <1>1
<1>3. q = <<>> => p = <<>>
  BY <1>1
<1> QED BY <1>2, <1>3

LEMMA FlushOfType ==
    ASSUME NEW q \in Seq(Callbacks), NEW p
    PROVE  q \o FlushOf(p) \in Seq(Callbacks)
<1>1. Flush \in Callbacks
  BY DEF Flush, Callbacks
<1>2. FlushOf(p) \in Seq(Callbacks)
  BY <1>1 DEF FlushOf
<1> QED BY <1>2

LEMMA OpenBatchChatsType ==
    ASSUME NEW h \in GoodHistories, NEW n \in Nat
    PROVE  OpenBatchChats(h, n) \in GoodHistories
<1>1. RegisterChats(h, n) \in GoodHistories
  BY RegisterChatsType
<1>2. Len(h.chats) + n \in Nat
  BY DEF GoodHistories, Histories
<1>3. Select(RegisterChats(h, n), Len(h.chats) + n) \in GoodHistories
  BY <1>1, <1>2, SelectType
<1> QED BY <1>1, <1>3 DEF OpenBatchChats

\* The part of the state that starting and ending runs changes.
ControlType == /\ runs \in Seq(Runs)
               /\ active \in Nat
               /\ running \in BOOLEAN
               /\ history \in GoodHistories

LEMMA BeginType ==
    ASSUME NEW rs \in Seq(Runs), NEW h \in GoodHistories, NEW c \in Nat,
           Begin(rs, h, c)
    PROVE  ControlType'
<1> DEFINE e == [run |-> Len(rs) + 1, state |-> "working", steps |-> 0]
<1>1. NewRun(c) \in Runs
  BY DEF NewRun, Runs, Stages
<1>2. Append(rs, NewRun(c)) \in Seq(Runs) /\ Len(rs) + 1 \in Nat
  BY <1>1
<1>3. e \in Entries
  BY <1>2 DEF Entries, EntryStates
<1> HIDE DEF e
<1>4. AddEntry(h, c, e) \in GoodHistories
  BY <1>3, AddEntryType
<1> QED BY <1>2, <1>4 DEF Begin, ControlType, e

LEMMA ProceedType ==
    ASSUME NEW rs \in Seq(Runs), NEW h \in GoodHistories, NEW left \in Nat,
           NEW out \in Outcomes, Proceed(rs, h, left, out)
    PROVE  ControlType' /\ batch' \in Batches
<1>1. out.batch \in Batches /\ out.made \in Nat /\ out.chat \in Nat
  BY DEF Outcomes
<1>2. OpenBatchChats(h, out.made) \in GoodHistories
  BY <1>1, OpenBatchChatsType
<1>3. CASE out.chat = 0
  BY <1>1, <1>2, <1>3 DEF Proceed, ControlType
<1>4. CASE out.chat # 0
  <2>1. Begin(rs, OpenBatchChats(h, out.made), out.chat)
    BY <1>4 DEF Proceed
  <2>2. ControlType'
    BY <1>1, <1>2, <2>1, BeginType
  <2> QED BY <1>1, <2>2 DEF Proceed
<1> QED BY <1>3, <1>4

LEMMA StoppedType ==
    ASSUME runs \in Seq(Runs), NEW r
    PROVE  Stopped(r) \in Seq(Runs) /\ Len(Stopped(r)) = Len(runs)
<1>1. CASE r \in DOMAIN runs
  <2>1. runs[r] \in Runs
    BY <1>1
  <2> DEFINE s == [runs[r] EXCEPT !.cancelled = TRUE, !.pending = FALSE,
                      !.stage = IF runs[r].stage = "queued" THEN "over" ELSE runs[r].stage]
  <2>2. s \in Runs
    BY <2>1 DEF Runs, Stages
  <2>3. Stopped(r) = [runs EXCEPT ![r] = s]
    BY <1>1 DEF Stopped
  <2> HIDE DEF s
  <2> QED BY <1>1, <2>2, <2>3
<1>2. CASE r \notin DOMAIN runs
  <2>1. Stopped(r) = runs
    BY <1>2 DEF Stopped
  <2> QED BY <2>1
<1> QED BY <1>1, <1>2

LEMMA CancelRunType ==
    ASSUME TypeOK, NEW b \in Batches, NEW closing \in BOOLEAN, CancelRun(b, closing)
    PROVE  ControlType' /\ batch' \in Batches /\ gui' \in Seq(Callbacks)
<1> DEFINE c == runs[active].chat
           h == IF c \in history.open /\ runs[active].attached
                THEN SettleEntry(history, c, active, "cancelled")
                ELSE history
           then(out) == IF closing THEN [out EXCEPT !.batch = Reset] ELSE out
<1>1. h \in GoodHistories
  <2>1. SettleEntry(history, c, active, "cancelled") \in GoodHistories
    BY HistoryGood, SettleEntryType DEF EntryStates
  <2> QED BY <2>1, HistoryGood
<1>2. \A out \in Outcomes : then(out) \in Outcomes
  BY ResetType DEF Outcomes
<1>3. CASE active = 0
  <2>1. NothingStarted(b) \in Outcomes
    BY NothingStartedType
  <2>2. batch' = then(NothingStarted(b)).batch
        /\ UNCHANGED <<runs, active, running, gui, history>>
    BY <1>3 DEF CancelRun
  <2> HIDE DEF then
  <2>3. batch' \in Batches
    BY <1>2, <2>1, <2>2 DEF Outcomes
  <2>4. ControlType' /\ gui' \in Seq(Callbacks)
    BY <2>2, HistoryGood DEF TypeOK, ControlType
  <2> QED BY <2>3, <2>4
<1>4. CASE active # 0
  <2>1. PICK out \in HandleCancellation(b, c, Len(h.chats), Here) :
           Proceed(Stopped(active), h, 0, then(out))
    BY <1>4 DEF CancelRun
  <2>2. gui' = gui \o FlushOf(promptQueue)
    BY <1>4 DEF CancelRun
  <2> HIDE DEF h, then, c
  <2>3. Len(h.chats) \in Nat
    BY <1>1 DEF GoodHistories, Histories
  <2>4. out \in Outcomes
    BY <2>1, <2>3, HereType, HandleCancellationType
  <2>5. Stopped(active) \in Seq(Runs)
    BY StoppedType DEF TypeOK
  <2>6. ControlType' /\ batch' \in Batches
    BY <1>1, <1>2, <2>1, <2>4, <2>5, ProceedType
  <2>7. gui' \in Seq(Callbacks)
    BY <2>2, FlushOfType DEF TypeOK
  <2> QED BY <2>6, <2>7
<1> QED BY <1>3, <1>4

\* The initial project holds an answered prompt and a draft.
LEMMA InitType == Init => TypeOK
<1> SUFFICES ASSUME Init PROVE TypeOK
  OBVIOUS
<1> DEFINE e == [run |-> 0, state |-> "answered", steps |-> 0]
           stored == [p \in 1 .. NumProjects |-> [home |-> p, entries |-> <<e>>]]
           h == [chats |-> stored, open |-> {}, current |-> 0, project |-> 1]
<1>1. <<e>> \in Seq(Entries)
  BY DEF Entries, EntryStates
<1>2. stored \in Seq(Chats)
  BY <1>1, NumProjectsAssumption DEF Chats
<1>3. history = OpenProject(h, 1)
  BY DEF Init
<1> HIDE DEF stored
<1>4. h \in GoodHistories
  BY <1>2 DEF GoodHistories, Histories
<1> HIDE DEF h
<1>5. history \in GoodHistories
  BY <1>3, <1>4, OpenProjectType
<1>6. /\ runs = <<>> /\ active = 0 /\ running = FALSE /\ gui = <<Cleanup>>
      /\ doc \in Docs /\ promptQueue = <<>> /\ batch = Reset /\ dialog = NoDialog
  BY DEF Init
<1>7. active \in Nat /\ running \in BOOLEAN
  BY <1>6
<1>8. <<>> \in Seq(Runs) /\ <<>> \in Seq(Nat)
  OBVIOUS
<1>9. Cleanup \in Callbacks
  BY DEF Cleanup, Callbacks
<1>10. gui \in Seq(Callbacks)
  BY <1>6, <1>9
<1>11. dialog \in Dialogs
  BY <1>6 DEF NoDialog, Dialogs
<1> QED BY <1>5, <1>6, <1>7, <1>10, <1>11, <1>8, ResetType DEF TypeOK, GoodHistories

\* Every action of the user keeps the state well formed.
LEMMA UserType == TypeOK /\ User => TypeOK'
<1> SUFFICES ASSUME TypeOK, User PROVE TypeOK'
  OBVIOUS
<1> USE DEF TypeOK
<1>1. history \in GoodHistories /\ Here \in Places
  BY HistoryGood, HereType
<1>2. GoodHistories = {h \in Histories : h.open \subseteq 1 .. Len(h.chats)}
  BY DEF GoodHistories
<1>3. \A h \in GoodHistories : h.current \in Nat /\ Len(h.chats) \in Nat
  BY DEF GoodHistories, Histories
<1>4. NoDialog \in Dialogs
  BY DEF NoDialog, Dialogs
<1>5. CASE SendNow
  <2>1. EnsureChat(history) \in GoodHistories
    BY <1>1, EnsureChatType
  <2>2. ControlType'
    BY <1>3, <1>5, <2>1, BeginType DEF SendNow
  <2> QED BY <1>2, <1>5, <2>2 DEF SendNow, ControlType
<1>6. CASE SendLater
  <2>1. history' \in GoodHistories
    BY <1>1, <1>6, EnsureChatType DEF SendLater
  <2>2. Append(promptQueue, history'.current) \in Seq(Nat)
    BY <1>3, <2>1
  <2>3. promptQueue' \in Seq(Nat)
    BY <1>6, <2>2, PrunedType DEF SendLater
  <2> QED BY <1>2, <1>6, <2>1, <2>3 DEF SendLater
<1>7. CASE CancelQueued
  <2>1. Tail(promptQueue) \in Seq(Nat)
    BY <1>7 DEF CancelQueued
  <2>2. promptQueue' \in Seq(Nat)
    BY <1>7, <2>1, PrunedType DEF CancelQueued
  <2> QED BY <1>7, <2>2 DEF CancelQueued
<1>8. CASE Stop
  <2>1. ControlType' /\ batch' \in Batches /\ gui' \in Seq(Callbacks)
    BY <1>8, RequestSkipCurrentType, CancelRunType DEF Stop
  <2> QED BY <1>2, <1>8, <2>1 DEF Stop, ControlType
<1>9. CASE Regenerate
  <2>1. history.current \in DOMAIN history.chats
    BY <1>9 DEF Regenerate, Histories
  <2>2. DropLastEntry(history, history.current) \in GoodHistories
    BY <1>1, <1>9, <2>1, DropLastEntryType DEF Regenerate
  <2>3. ControlType'
    BY <1>1, <1>3, <1>9, <2>2, BeginType DEF Regenerate
  <2> QED BY <1>2, <1>9, <2>3 DEF Regenerate, ControlType
<1>10. CASE NewChat
  BY <1>1, <1>2, <1>10, CreateChatType DEF NewChat
<1>11. CASE SelectChat
  <2>1. PICK c \in history.open : history' = Select(history, c)
    BY <1>11 DEF SelectChat
  <2>2. c \in Nat
    BY DEF Histories
  <2>3. history' \in GoodHistories
    BY <1>1, <2>1, <2>2, SelectType
  <2> QED BY <1>2, <1>11, <2>3 DEF SelectChat
<1>12. CASE AskDelete
  <2>1. PICK S \in SUBSET history.open : dialog' = [kind |-> "delete", chats |-> S]
    BY <1>12 DEF AskDelete
  <2>2. S \in SUBSET Nat
    BY DEF Histories
  <2>3. dialog' \in Dialogs
    BY <2>1, <2>2 DEF Dialogs
  <2> QED BY <1>12, <2>3 DEF AskDelete
<1>13. CASE AnswerDelete
  <2>1. history' \in GoodHistories
    BY <1>1, <1>13, RemoveChatsType DEF AnswerDelete
  <2> QED BY <1>2, <1>4, <1>13, <2>1 DEF AnswerDelete
<1>14. CASE StartBatch
  <2>1. PICK n \in 1 .. MaxTargets : \E out \in Start(n, Len(history.chats), Here) :
           Proceed(runs, history, 0, out)
    BY <1>14 DEF StartBatch
  <2>2. PICK out \in Start(n, Len(history.chats), Here) : Proceed(runs, history, 0, out)
    BY <2>1
  <2>3. n \in Nat
    BY BoundsAssumption
  <2>4. out \in Outcomes
    BY <1>1, <1>3, <2>2, <2>3, StartType
  <2>5. ControlType' /\ batch' \in Batches
    BY <1>1, <2>2, <2>4, ProceedType
  <2> QED BY <1>2, <1>14, <2>5 DEF StartBatch, ControlType
<1>15. CASE StopBatch
  <2>1. ControlType' /\ batch' \in Batches /\ gui' \in Seq(Callbacks)
    BY <1>15, CancelAllType, CancelRunType DEF StopBatch
  <2> QED BY <1>2, <1>15, <2>1 DEF StopBatch, ControlType
<1>16. CASE CloseBatch
  BY <1>16, ResetType DEF CloseBatch
<1>17. CASE AskClose
  <2>1. dialog' \in Dialogs
    BY <1>17 DEF AskClose, Dialogs
  <2> QED BY <1>17, <2>1 DEF AskClose
<1>18. CASE AnswerClose
  <2>1. CASE CancelRun(CancelAll(batch), TRUE)
    <3>1. ControlType' /\ batch' \in Batches /\ gui' \in Seq(Callbacks)
      BY <2>1, CancelAllType, CancelRunType
    <3> QED BY <1>2, <1>4, <1>18, <3>1 DEF AnswerClose, ControlType
  <2>2. CASE UNCHANGED <<runs, active, running, gui, history, batch>>
    BY <1>4, <1>18, <2>2 DEF AnswerClose
  <2> QED BY <1>18, <2>1, <2>2 DEF AnswerClose
<1>19. CASE SelectDocument
  BY <1>19 DEF SelectDocument
<1>20. CASE SwitchProject
  <2>1. PICK p \in 1 .. NumProjects : history' = OpenProject(history, p)
    BY <1>20 DEF SwitchProject
  <2>2. history' \in GoodHistories
    BY <1>1, <2>1, NumProjectsAssumption, OpenProjectType
  <2>3. \A r \in DOMAIN runs : [runs[r] EXCEPT !.attached = FALSE] \in Runs
    <3>1. \A r \in DOMAIN runs : runs[r] \in Runs
      OBVIOUS
    <3> QED BY <3>1 DEF Runs
  <2>4. runs' \in Seq(Runs)
    <3>1. DOMAIN runs = 1 .. Len(runs) /\ Len(runs) \in Nat
      OBVIOUS
    <3>2. runs' = [r \in 1 .. Len(runs) |-> [runs[r] EXCEPT !.attached = FALSE]]
      BY <1>20, <3>1 DEF SwitchProject
    <3> QED BY <2>3, <3>1, <3>2
  <2>5. Append(gui, Cleanup) \in Seq(Callbacks)
    BY DEF Cleanup, Callbacks
  <2> QED BY <1>2, <1>20, <2>2, <2>4, <2>5 DEF SwitchProject
<1> QED
  BY <1>5, <1>6, <1>7, <1>8, <1>9, <1>10, <1>11, <1>12, <1>13, <1>14, <1>15,
     <1>16, <1>17, <1>18, <1>19, <1>20 DEF User

\* One run handle changes.
LEMMA RunUpdateType ==
    ASSUME TypeOK, NEW r, r \in DOMAIN runs, NEW s \in Runs
    PROVE  [runs EXCEPT ![r] = s] \in Seq(Runs)
BY DEF TypeOK

LEMMA RunAt ==
    ASSUME TypeOK, NEW r \in DOMAIN runs
    PROVE  runs[r] \in Runs /\ r \in Nat
BY DEF TypeOK

\* A run reaches another stage.
LEMMA StageType ==
    ASSUME TypeOK, NEW r, NEW t \in Stages
    PROVE  [runs EXCEPT ![r].stage = t] \in Seq(Runs)
<1>1. CASE r \in DOMAIN runs
  <2> DEFINE s == [runs[r] EXCEPT !.stage = t]
  <2>1. runs[r] \in Runs
    BY <1>1, RunAt
  <2>2. s \in Runs
    BY <2>1 DEF Runs
  <2>3. [runs EXCEPT ![r].stage = t] = [runs EXCEPT ![r] = s]
    OBVIOUS
  <2> HIDE DEF s
  <2> QED BY <1>1, <2>2, <2>3, RunUpdateType
<1>2. CASE r \notin DOMAIN runs
  <2>1. [runs EXCEPT ![r].stage = t] = runs
    BY <1>2 DEF TypeOK
  <2> QED BY <2>1 DEF TypeOK
<1> QED BY <1>1, <1>2

\* Every action of the worker keeps the state well formed.
LEMMA WorkerType == TypeOK /\ Worker => TypeOK'
<1> SUFFICES ASSUME TypeOK, Worker PROVE TypeOK'
  OBVIOUS
<1>1. CASE Execute
  <2>1. \E r \in DOMAIN runs : runs' = [runs EXCEPT ![r].stage = "executing"]
    BY <1>1 DEF Execute
  <2>2. runs' \in Seq(Runs)
    BY <2>1, StageType DEF Stages
  <2> QED BY <1>1, <2>2 DEF Execute, TypeOK
<1>2. CASE ReportProgress
  <2>1. PICK r \in DOMAIN runs : /\ runs' = [runs EXCEPT ![r].sent = @ + 1]
                                 /\ gui' = Append(gui, Stream(r))
    BY <1>2 DEF ReportProgress
  <2>2. runs[r] \in Runs /\ r \in Nat
    BY RunAt
  <2> DEFINE s == [runs[r] EXCEPT !.sent = runs[r].sent + 1]
  <2>3. s \in Runs
    BY <2>2 DEF Runs
  <2>4. runs' = [runs EXCEPT ![r] = s]
    BY <2>1
  <2> HIDE DEF s
  <2>5. runs' \in Seq(Runs)
    BY <2>3, <2>4, RunUpdateType
  <2>6. Stream(r) \in Callbacks
    BY <2>2 DEF Stream, Callbacks
  <2>7. gui' \in Seq(Callbacks)
    BY <2>1, <2>6 DEF TypeOK
  <2> QED BY <1>2, <2>5, <2>7 DEF ReportProgress, TypeOK
<1>3. CASE Return
  <2>1. PICK r \in DOMAIN runs :
           /\ \E t \in Stages : runs' = [runs EXCEPT ![r].stage = t]
           /\ gui' = gui \/ \E ok \in BOOLEAN : gui' = Append(gui, Finalize(r, ok))
    BY <1>3 DEF Return, Stages
  <2>2. runs' \in Seq(Runs)
    BY <2>1, StageType
  <2>3. r \in Nat
    BY RunAt
  <2>4. \A ok \in BOOLEAN : Finalize(r, ok) \in Callbacks
    BY <2>3 DEF Finalize, Callbacks
  <2>5. gui' \in Seq(Callbacks)
    <3>1. gui \in Seq(Callbacks)
      BY DEF TypeOK
    <3>2. \A x \in Callbacks : Append(gui, x) \in Seq(Callbacks)
      BY <3>1
    <3> QED BY <2>1, <2>4, <3>1, <3>2
  <2> QED BY <1>3, <2>2, <2>5 DEF Return, TypeOK
<1> QED BY <1>1, <1>2, <1>3 DEF Worker

\* The oldest callback is one; without it the others are left.
LEMMA TurnType ==
    ASSUME TypeOK, gui # <<>>
    PROVE  Head(gui) \in Callbacks /\ Tail(gui) \in Seq(Callbacks)
BY DEF TypeOK

\* The history after an answer.
LEMMA AnsweredType ==
    ASSUME TypeOK, NEW r \in Nat
    PROVE  Answered(r) \in GoodHistories
<1> DEFINE h == EnsureChat(history)
           e == [run |-> r, state |-> "answered", steps |-> 0]
<1>1. history \in GoodHistories
  BY HistoryGood
<1>2. h \in GoodHistories
  BY <1>1, EnsureChatType
<1>3. e \in Entries
  BY DEF Entries, EntryStates
<1>4. SettleEntry(history, runs[r].chat, r, "answered") \in GoodHistories
  BY <1>1, SettleEntryType DEF EntryStates
<1> HIDE DEF h, e
<1>5. AddEntry(h, h.current, e) \in GoodHistories
  BY <1>2, <1>3, AddEntryType
<1> QED BY <1>1, <1>4, <1>5 DEF Answered, h, e

\* Every callback keeps the state well formed.
LEMMA EventLoopType == TypeOK /\ EventLoop => TypeOK'
<1> SUFFICES ASSUME TypeOK, EventLoop PROVE TypeOK'
  OBVIOUS
<1>1. gui # <<>>
  BY DEF EventLoop, DropAnswer, ShowAnswer, ShowProgress, FlushNothing,
         FlushPrompt, CleanUp, Turn
<1>2. Head(gui).run \in Nat /\ Head(gui).ok \in BOOLEAN /\ Tail(gui) \in Seq(Callbacks)
  BY <1>1, TurnType DEF Callbacks
<1>3. history \in GoodHistories /\ Here \in Places
  BY HistoryGood, HereType
<1>4. GoodHistories = {h \in Histories : h.open \subseteq 1 .. Len(h.chats)}
  BY DEF GoodHistories
<1>5. CASE DropAnswer
  <2>1. runs' = [runs EXCEPT ![Head(gui).run].stage = "over"]
    BY <1>5 DEF DropAnswer
  <2>2. runs' \in Seq(Runs)
    BY <2>1, StageType DEF Stages
  <2> QED BY <1>2, <1>5, <2>2 DEF DropAnswer, TypeOK
<1>6. CASE ShowAnswer
  <2> DEFINE r == Head(gui).run
             rs == [runs EXCEPT ![r].stage = "over", ![r].pending = FALSE]
             s == [runs[r] EXCEPT !.stage = "over", !.pending = FALSE]
             h == Answered(r)
             left == IF active = r THEN 0 ELSE active
  <2>1. PICK out \in HandleCompletion(batch, runs[r].chat, Head(gui).ok,
                                      Len(h.chats), Here) : Proceed(rs, h, left, out)
    BY <1>6 DEF ShowAnswer
  <2>2. rs \in Seq(Runs)
    <3>1. CASE r \in DOMAIN runs
      <4>1. runs[r] \in Runs
        BY <3>1, RunAt
      <4>2. s \in Runs
        BY <4>1 DEF Runs, Stages
      <4>3. rs = [runs EXCEPT ![r] = s]
        BY <3>1 DEF TypeOK
      <4> HIDE DEF r, s, rs
      <4> QED BY <3>1, <4>2, <4>3, RunUpdateType
    <3>2. CASE r \notin DOMAIN runs
      <4>1. rs = runs
        BY <3>2 DEF TypeOK
      <4> QED BY <4>1 DEF TypeOK
    <3> QED BY <3>1, <3>2
  <2>3. h \in GoodHistories
    BY <1>2, AnsweredType
  <2>4. left \in Nat
    BY DEF TypeOK
  <2>5. gui' = Tail(gui) \o FlushOf(promptQueue)
    BY <1>6 DEF ShowAnswer
  <2> HIDE DEF rs, h, left
  <2>6. Len(h.chats) \in Nat
    BY <2>3 DEF GoodHistories, Histories
  <2>7. out \in Outcomes
    BY <1>2, <1>3, <2>1, <2>6, HandleCompletionType DEF TypeOK
  <2>8. ControlType' /\ batch' \in Batches
    BY <2>1, <2>2, <2>3, <2>4, <2>7, ProceedType
  <2>9. gui' \in Seq(Callbacks)
    BY <1>2, <2>5, FlushOfType
  <2> QED BY <1>4, <1>6, <2>8, <2>9 DEF ShowAnswer, TypeOK, ControlType
<1>7. CASE ShowProgress
  <2>1. history' \in GoodHistories
    BY <1>3, <1>7, StreamEntryType DEF ShowProgress
  <2> QED BY <1>2, <1>4, <1>7, <2>1 DEF ShowProgress, TypeOK
<1>8. CASE FlushNothing
  <2>1. <<>> \in Seq(Nat)
    OBVIOUS
  <2>2. promptQueue' \in Seq(Nat)
    BY <1>8, <2>1 DEF FlushNothing, TypeOK
  <2> QED BY <1>2, <1>8, <2>2 DEF FlushNothing, TypeOK
<1>9. CASE FlushPrompt
  <2>1. PICK k \in DOMAIN promptQueue :
          /\ Begin(runs, Select(history, promptQueue[k]), promptQueue[k])
          /\ Pruned(SubSeq(promptQueue, k + 1, Len(promptQueue)), history.open,
                    promptQueue')
    BY <1>9 DEF FlushPrompt
  <2>2. promptQueue[k] \in Nat /\ k \in Nat
    BY DEF TypeOK
  <2>3. Select(history, promptQueue[k]) \in GoodHistories
    BY <1>3, <2>2, SelectType
  <2>4. ControlType'
    BY <2>1, <2>2, <2>3, BeginType DEF TypeOK
  <2>5. SubSeq(promptQueue, k + 1, Len(promptQueue)) \in Seq(Nat)
    BY <2>2 DEF TypeOK
  <2>6. promptQueue' \in Seq(Nat)
    BY <2>1, <2>5, PrunedType
  <2> QED BY <1>2, <1>4, <1>9, <2>4, <2>6 DEF FlushPrompt, TypeOK, ControlType
<1>10. CASE CleanUp
  BY <1>2, <1>3, <1>4, <1>10, PruneEmptyType DEF CleanUp, TypeOK
<1> QED BY <1>5, <1>6, <1>7, <1>8, <1>9, <1>10 DEF EventLoop

\* The state of the panel is always well formed; in particular every
\* conversation the list shows exists, whatever was deleted, pruned or
\* reloaded since.
THEOREM TypeCorrect == Spec => []TypeOK
<1>1. Init => TypeOK
  BY InitType
<1>2. TypeOK /\ [Next]_vars => TypeOK'
  <2>1. TypeOK /\ UNCHANGED vars => TypeOK'
    BY DEF TypeOK, vars
  <2> QED BY <2>1, UserType, WorkerType, EventLoopType DEF Next
<1> QED BY <1>1, <1>2, PTL DEF Spec


-----------------------------------------------------------------------------
(* The event queue and the runs.                                           *)

IsAnswer(q, i, r) == q[i].kind = "finalize" /\ q[i].run = r

\* AnswerOnItsWay of the runs rs and the event queue q.
Delivery(rs, q) ==
    /\ \A r \in DOMAIN rs :
          rs[r].stage = "posted" <=> \E i \in DOMAIN q : IsAnswer(q, i, r)
    /\ \A r \in DOMAIN rs : \A i, j \in DOMAIN q :
          IsAnswer(q, i, r) /\ IsAnswer(q, j, r) => i = j
    /\ \A i \in DOMAIN q :
          q[i].kind \in {"finalize", "stream"} => q[i].run \in DOMAIN rs

LEMMA DeliveryIs == AnswerOnItsWay <=> Delivery(runs, gui)
BY DEF AnswerOnItsWay, AnswersIn, Delivery, IsAnswer

\* Posting a callback that is no answer.
LEMMA PostOther ==
    ASSUME NEW rs, NEW q \in Seq(Callbacks), Delivery(rs, q),
           NEW e \in Callbacks, e.kind # "finalize",
           e.kind = "stream" => e.run \in DOMAIN rs
    PROVE  Delivery(rs, Append(q, e))
<1> DEFINE p == Append(q, e)
<1>1. DOMAIN p = DOMAIN q \cup {Len(q) + 1} /\ Len(q) + 1 \notin DOMAIN q
  OBVIOUS
<1>2. \A i \in DOMAIN q : p[i] = q[i]
  OBVIOUS
<1>3. p[Len(q) + 1] = e
  OBVIOUS
<1> HIDE DEF p
<1> QED BY <1>1, <1>2, <1>3 DEF Delivery, IsAnswer

LEMMA PostFlush ==
    ASSUME NEW rs, NEW q \in Seq(Callbacks), Delivery(rs, q), NEW p
    PROVE  Delivery(rs, q \o FlushOf(p))
<1>1. Flush \in Callbacks /\ Flush.kind = "flush"
  BY DEF Flush, Callbacks
<1>2. Delivery(rs, Append(q, Flush))
  BY <1>1, PostOther
<1>3. q \o FlushOf(p) = q \/ q \o FlushOf(p) = Append(q, Flush)
  <2>1. q \o <<>> = q /\ q \o <<Flush>> = Append(q, Flush)
    BY <1>1
  <2> QED BY <2>1 DEF FlushOf
<1> QED BY <1>2, <1>3

\* Runs change, or are added, without one of them being posted.
LEMMA RunsMove ==
    ASSUME NEW rs, NEW rs2, NEW q, Delivery(rs, q),
           DOMAIN rs \subseteq DOMAIN rs2,
           \A r \in DOMAIN rs : rs2[r].stage = "posted" <=> rs[r].stage = "posted",
           \A r \in DOMAIN rs2 \ DOMAIN rs : rs2[r].stage # "posted"
    PROVE  Delivery(rs2, q)
BY DEF Delivery, IsAnswer

\* A run posts its answer.
LEMMA PostAnswer ==
    ASSUME NEW rs, NEW q \in Seq(Callbacks), Delivery(rs, q),
           NEW r \in DOMAIN rs, rs[r].stage = "executing",
           NEW rs2, DOMAIN rs2 = DOMAIN rs, rs2[r].stage = "posted",
           \A s \in DOMAIN rs : s # r => rs2[s] = rs[s],
           NEW ok
    PROVE  Delivery(rs2, Append(q, Finalize(r, ok)))
<1> DEFINE p == Append(q, Finalize(r, ok))
<1>1. DOMAIN p = DOMAIN q \cup {Len(q) + 1} /\ Len(q) + 1 \notin DOMAIN q
  OBVIOUS
<1>2. \A i \in DOMAIN q : p[i] = q[i]
  OBVIOUS
<1>3. p[Len(q) + 1].kind = "finalize" /\ p[Len(q) + 1].run = r
  BY DEF Finalize
<1> HIDE DEF p
<1>4. \A i \in DOMAIN q : ~ IsAnswer(q, i, r)
  BY DEF Delivery
<1>5. \A s : \A i \in DOMAIN q : IsAnswer(p, i, s) <=> IsAnswer(q, i, s)
  BY <1>2 DEF IsAnswer
<1>6. \A s : IsAnswer(p, Len(q) + 1, s) <=> s = r
  BY <1>3 DEF IsAnswer
<1>7. ASSUME NEW s \in DOMAIN rs2
      PROVE  rs2[s].stage = "posted" <=> \E i \in DOMAIN p : IsAnswer(p, i, s)
  <2>1. CASE s = r
    BY <1>1, <1>6, <2>1
  <2>2. CASE s # r
    <3>1. rs2[s].stage = "posted" <=> \E i \in DOMAIN q : IsAnswer(q, i, s)
      BY <1>7, <2>2 DEF Delivery
    <3> QED BY <1>1, <1>5, <1>6, <2>2, <3>1
  <2> QED BY <2>1, <2>2
<1>8. ASSUME NEW s \in DOMAIN rs2, NEW i \in DOMAIN p, NEW j \in DOMAIN p,
             IsAnswer(p, i, s), IsAnswer(p, j, s)
      PROVE  i = j
  <2>1. CASE s = r
    BY <1>1, <1>4, <1>5, <1>8, <2>1
  <2>2. CASE s # r
    <3>1. i \in DOMAIN q /\ j \in DOMAIN q
      BY <1>1, <1>6, <1>8, <2>2
    <3> QED BY <1>5, <1>8, <3>1 DEF Delivery
  <2> QED BY <2>1, <2>2
<1>9. \A i \in DOMAIN p : p[i].kind \in {"finalize", "stream"} => p[i].run \in DOMAIN rs2
  BY <1>1, <1>2, <1>3 DEF Delivery
<1> QED BY <1>7, <1>8, <1>9 DEF Delivery, p

\* The event queue without its oldest callback.
LEMMA TailIs ==
    ASSUME NEW q \in Seq(Callbacks), q # <<>>
    PROVE  /\ \A i \in DOMAIN Tail(q) : i + 1 \in DOMAIN q /\ Tail(q)[i] = q[i + 1]
           /\ \A i \in DOMAIN q : i # 1 => i - 1 \in DOMAIN Tail(q)
           /\ \A i \in DOMAIN q : i \in Nat
           /\ \A i \in DOMAIN Tail(q) : i \in Nat /\ i + 1 # 1
           /\ 1 \in DOMAIN q /\ Head(q) = q[1]
OBVIOUS

\* The oldest callback is no answer and is executed.
LEMMA TakeOther ==
    ASSUME NEW rs, NEW q \in Seq(Callbacks), q # <<>>, Delivery(rs, q),
           Head(q).kind # "finalize"
    PROVE  Delivery(rs, Tail(q))
<1> DEFINE t == Tail(q)
<1>1. /\ \A i \in DOMAIN t : i + 1 \in DOMAIN q /\ t[i] = q[i + 1] /\ i \in Nat
      /\ \A i \in DOMAIN q : i # 1 => i - 1 \in DOMAIN t
      /\ \A i \in DOMAIN q : i \in Nat
      /\ q[1].kind # "finalize"
  BY TailIs
<1> HIDE DEF t
<1>2. \A r : (\E i \in DOMAIN q : IsAnswer(q, i, r)) <=> (\E i \in DOMAIN t : IsAnswer(t, i, r))
  <2> SUFFICES ASSUME NEW r
               PROVE  (\E i \in DOMAIN q : IsAnswer(q, i, r))
                        <=> (\E i \in DOMAIN t : IsAnswer(t, i, r))
    OBVIOUS
  <2>1. ASSUME NEW i \in DOMAIN q, IsAnswer(q, i, r)
        PROVE  \E k \in DOMAIN t : IsAnswer(t, k, r)
    <3>1. i # 1 /\ i \in Nat
      BY <1>1, <2>1 DEF IsAnswer
    <3>2. i - 1 \in DOMAIN t /\ (i - 1) + 1 = i
      BY <1>1, <3>1
    <3>3. t[i - 1] = q[i]
      BY <1>1, <3>2
    <3> QED BY <2>1, <3>2, <3>3 DEF IsAnswer
  <2>2. ASSUME NEW i \in DOMAIN t, IsAnswer(t, i, r)
        PROVE  \E k \in DOMAIN q : IsAnswer(q, k, r)
    BY <1>1, <2>2 DEF IsAnswer
  <2> QED BY <2>1, <2>2
<1>3. \A r \in DOMAIN rs : \A i, j \in DOMAIN t :
         IsAnswer(t, i, r) /\ IsAnswer(t, j, r) => i = j
  <2> SUFFICES ASSUME NEW r \in DOMAIN rs, NEW i \in DOMAIN t, NEW j \in DOMAIN t,
                      IsAnswer(t, i, r), IsAnswer(t, j, r)
               PROVE  i = j
    OBVIOUS
  <2>1. IsAnswer(q, i + 1, r) /\ IsAnswer(q, j + 1, r)
    BY <1>1 DEF IsAnswer
  <2>2. i + 1 = j + 1
    BY <1>1, <2>1 DEF Delivery
  <2> QED BY <1>1, <2>2
<1>4. \A i \in DOMAIN t : t[i].kind \in {"finalize", "stream"} => t[i].run \in DOMAIN rs
  BY <1>1 DEF Delivery
<1> QED BY <1>2, <1>3, <1>4 DEF Delivery, t

\* The oldest callback is the answer of a run, which is over then.
LEMMA TakeAnswer ==
    ASSUME NEW rs, NEW q \in Seq(Callbacks), q # <<>>, Delivery(rs, q),
           Head(q).kind = "finalize",
           NEW rs2, DOMAIN rs2 = DOMAIN rs, rs2[Head(q).run].stage = "over",
           \A s \in DOMAIN rs : s # Head(q).run => rs2[s] = rs[s]
    PROVE  Delivery(rs2, Tail(q))
<1> DEFINE t == Tail(q)
           a == Head(q).run
<1>1. /\ \A i \in DOMAIN t : i + 1 \in DOMAIN q /\ t[i] = q[i + 1] /\ i \in Nat
      /\ \A i \in DOMAIN q : i # 1 => i - 1 \in DOMAIN t
      /\ \A i \in DOMAIN q : i \in Nat
      /\ 1 \in DOMAIN q /\ IsAnswer(q, 1, a)
  BY TailIs DEF IsAnswer
<1>2. a \in DOMAIN rs
  BY <1>1 DEF Delivery, IsAnswer
<1>3. rs2[a].stage = "over" /\ \A s \in DOMAIN rs : s # a => rs2[s] = rs[s]
  OBVIOUS
<1> HIDE DEF t, a
<1>4. \A r : r # a => ((\E i \in DOMAIN q : IsAnswer(q, i, r))
                         <=> (\E i \in DOMAIN t : IsAnswer(t, i, r)))
  <2> SUFFICES ASSUME NEW r, r # a
               PROVE  (\E i \in DOMAIN q : IsAnswer(q, i, r))
                        <=> (\E i \in DOMAIN t : IsAnswer(t, i, r))
    OBVIOUS
  <2>1. ASSUME NEW i \in DOMAIN q, IsAnswer(q, i, r)
        PROVE  \E k \in DOMAIN t : IsAnswer(t, k, r)
    <3>1. i # 1 /\ i \in Nat
      BY <1>1, <2>1 DEF IsAnswer
    <3>2. i - 1 \in DOMAIN t /\ (i - 1) + 1 = i
      BY <1>1, <3>1
    <3>3. t[i - 1] = q[i]
      BY <1>1, <3>2
    <3> QED BY <2>1, <3>2, <3>3 DEF IsAnswer
  <2>2. ASSUME NEW i \in DOMAIN t, IsAnswer(t, i, r)
        PROVE  \E k \in DOMAIN q : IsAnswer(q, k, r)
    BY <1>1, <2>2 DEF IsAnswer
  <2> QED BY <2>1, <2>2
<1>5. \A r \in DOMAIN rs : \A i, j \in DOMAIN t :
         IsAnswer(t, i, r) /\ IsAnswer(t, j, r) => i = j
  <2> SUFFICES ASSUME NEW r \in DOMAIN rs, NEW i \in DOMAIN t, NEW j \in DOMAIN t,
                      IsAnswer(t, i, r), IsAnswer(t, j, r)
               PROVE  i = j
    OBVIOUS
  <2>1. IsAnswer(q, i + 1, r) /\ IsAnswer(q, j + 1, r)
    BY <1>1 DEF IsAnswer
  <2>2. i + 1 = j + 1
    BY <1>1, <2>1 DEF Delivery
  <2> QED BY <1>1, <2>2
<1>6. \A i \in DOMAIN t : ~ IsAnswer(t, i, a)
  <2> SUFFICES ASSUME NEW i \in DOMAIN t, IsAnswer(t, i, a) PROVE FALSE
    OBVIOUS
  <2>1. IsAnswer(q, i + 1, a)
    BY <1>1 DEF IsAnswer
  <2>2. i + 1 = 1
    BY <1>1, <1>2, <2>1 DEF Delivery
  <2> QED BY <1>1, <2>2
<1>7. \A i \in DOMAIN t : t[i].kind \in {"finalize", "stream"} => t[i].run \in DOMAIN rs
  BY <1>1 DEF Delivery
<1>8. \A r \in DOMAIN rs2 :
         rs2[r].stage = "posted" <=> \E i \in DOMAIN t : IsAnswer(t, i, r)
  <2> SUFFICES ASSUME NEW r \in DOMAIN rs
               PROVE  rs2[r].stage = "posted" <=> \E i \in DOMAIN t : IsAnswer(t, i, r)
    OBVIOUS
  <2>1. CASE r = a
    BY <1>3, <1>6, <2>1
  <2>2. CASE r # a
    BY <1>3, <1>4, <2>2 DEF Delivery
  <2> QED BY <2>1, <2>2
<1> QED BY <1>5, <1>7, <1>8 DEF Delivery, t

-----------------------------------------------------------------------------
(* Who owns the agent.                                                     *)

\* No run owns anything: the state between two runs.
Idle(rs) ==
    \A r \in DOMAIN rs : ~rs[r].pending /\ (rs[r].stage = "over" \/ rs[r].cancelled)

Exclusive == SingleFlight /\ NoUnownedWork

LEMMA IdleIs ==
    ASSUME Exclusive, active = 0, TypeOK
    PROVE  Idle(runs)
<1>1. 0 \notin DOMAIN runs
  BY DEF TypeOK
<1> QED BY <1>1 DEF Exclusive, SingleFlight, NoUnownedWork, Idle

LEMMA StoppedIdle ==
    ASSUME TypeOK, Exclusive, active # 0
    PROVE  /\ Idle(Stopped(active))
           /\ DOMAIN Stopped(active) = DOMAIN runs
           /\ \A r \in DOMAIN runs :
                 Stopped(active)[r].stage = "posted" <=> runs[r].stage = "posted"
<1>1. active \in DOMAIN runs /\ runs[active] \in Runs
  BY RunAt DEF Exclusive, SingleFlight
<1> DEFINE s == Stopped(active)
<1>2. DOMAIN s = DOMAIN runs
  BY DEF Stopped
<1>3. \A r \in DOMAIN runs : r # active => s[r] = runs[r]
  BY DEF Stopped, TypeOK
<1>4. s[active].cancelled = TRUE /\ s[active].pending = FALSE
      /\ (s[active].stage = "posted" <=> runs[active].stage = "posted")
  BY <1>1 DEF Stopped, TypeOK, Runs
<1> HIDE DEF s
<1>5. Idle(s)
  BY <1>2, <1>3, <1>4 DEF Idle, Exclusive, SingleFlight, NoUnownedWork
<1>6. \A r \in DOMAIN runs : s[r].stage = "posted" <=> runs[r].stage = "posted"
  BY <1>3, <1>4
<1> QED BY <1>2, <1>5, <1>6 DEF s

\* A run begins while none owns the agent: it is the one that does then.
LEMMA BeginExclusive ==
    ASSUME NEW rs \in Seq(Runs), Idle(rs), NEW h, NEW c \in Nat, Begin(rs, h, c)
    PROVE  /\ Exclusive' /\ running'
           /\ DOMAIN rs \subseteq DOMAIN runs'
           /\ \A r \in DOMAIN rs : runs'[r].stage = rs[r].stage
           /\ \A r \in DOMAIN runs' \ DOMAIN rs : runs'[r].stage # "posted"
<1> DEFINE new == Len(rs) + 1
<1>1. /\ runs' = Append(rs, NewRun(c)) /\ active' = new /\ running' = TRUE
  BY DEF Begin
<1>2. /\ DOMAIN runs' = DOMAIN rs \cup {new} /\ new \notin DOMAIN rs /\ new # 0
      /\ \A r \in DOMAIN rs : runs'[r] = rs[r]
      /\ runs'[new] = NewRun(c)
  BY <1>1
<1>3. /\ NewRun(c).pending = TRUE /\ NewRun(c).cancelled = FALSE
      /\ NewRun(c).stage = "queued"
  BY DEF NewRun
<1> HIDE DEF new
<1>4. SingleFlight'
  BY <1>1, <1>2, <1>3 DEF SingleFlight, Idle
<1>5. NoUnownedWork'
  BY <1>1, <1>2, <1>3 DEF NoUnownedWork, Idle
<1> QED BY <1>1, <1>2, <1>3, <1>4, <1>5 DEF Exclusive

\* ... and so it is when the batch runner decides whether one begins.
LEMMA ProceedExclusive ==
    ASSUME NEW rs \in Seq(Runs), Idle(rs), NEW h, NEW out \in Outcomes,
           Proceed(rs, h, 0, out)
    PROVE  /\ Exclusive'
           /\ DOMAIN rs \subseteq DOMAIN runs'
           /\ \A r \in DOMAIN rs : runs'[r].stage = rs[r].stage
           /\ \A r \in DOMAIN runs' \ DOMAIN rs : runs'[r].stage # "posted"
<1>1. CASE out.chat = 0
  <2>1. runs' = rs /\ active' = 0 /\ running' = FALSE
    BY <1>1 DEF Proceed
  <2>2. 0 \notin DOMAIN rs
    OBVIOUS
  <2>3. Exclusive'
    BY <2>1, <2>2 DEF Exclusive, SingleFlight, NoUnownedWork, Idle
  <2> QED BY <2>1, <2>3
<1>2. CASE out.chat # 0
  <2>1. Begin(rs, OpenBatchChats(h, out.made), out.chat)
    BY <1>2 DEF Proceed
  <2>2. out.chat \in Nat
    BY DEF Outcomes
  <2> QED BY <2>1, <2>2, BeginExclusive
<1> QED BY <1>1, <1>2

\* The queue of prompts waits for nothing but an event.
LEMMA FlushPosted ==
    ASSUME NEW q \in Seq(Callbacks), NEW p, p # <<>>
    PROVE  \E i \in DOMAIN (q \o FlushOf(p)) : (q \o FlushOf(p))[i].kind = "flush"
<1>1. FlushOf(p) = <<Flush>> /\ Flush \in Callbacks /\ Flush.kind = "flush"
  BY DEF FlushOf, Flush, Callbacks
<1>2. (q \o <<Flush>>)[Len(q) + 1] = Flush /\ Len(q) + 1 \in DOMAIN (q \o <<Flush>>)
  BY <1>1
<1> QED BY <1>1, <1>2

Control == TypeOK /\ Exclusive /\ AnswerOnItsWay /\ NoLostWakeup

\* Stopping the active run, and the end of it as far as the batch goes on.
LEMMA CancelRunControl ==
    ASSUME Control, NEW b \in Batches, NEW closing \in BOOLEAN,
           CancelRun(b, closing), UNCHANGED promptQueue
    PROVE  Exclusive' /\ AnswerOnItsWay' /\ NoLostWakeup'
<1> DEFINE c == runs[active].chat
           h == IF c \in history.open /\ runs[active].attached
                THEN SettleEntry(history, c, active, "cancelled")
                ELSE history
           then(out) == IF closing THEN [out EXCEPT !.batch = Reset] ELSE out
<1>1. TypeOK /\ Exclusive /\ Delivery(runs, gui) /\ NoLostWakeup
  BY DeliveryIs DEF Control
<1>2. CASE active = 0
  <2>1. UNCHANGED <<runs, active, running, gui, history>>
    BY <1>2 DEF CancelRun
  <2> QED BY <2>1 DEF Control, Exclusive, SingleFlight, NoUnownedWork,
             AnswerOnItsWay, AnswersIn, NoLostWakeup
<1>3. CASE active # 0
  <2>1. PICK out \in HandleCancellation(b, c, Len(h.chats), Here) :
           Proceed(Stopped(active), h, 0, then(out))
    BY <1>3 DEF CancelRun
  <2>2. gui' = gui \o FlushOf(promptQueue)
    BY <1>3 DEF CancelRun
  <2>3. h \in GoodHistories
    <3>1. SettleEntry(history, c, active, "cancelled") \in GoodHistories
      BY <1>1, HistoryGood, SettleEntryType DEF EntryStates
    <3> QED BY <1>1, <3>1, HistoryGood
  <2> HIDE DEF h, c
  <2>4. Len(h.chats) \in Nat
    BY <2>3 DEF GoodHistories, Histories
  <2>5. out \in Outcomes
    BY <1>1, <2>1, <2>4, HereType, HandleCancellationType
  <2>6. then(out) \in Outcomes
    BY <2>5, ResetType DEF Outcomes
  <2> HIDE DEF then
  <2>7. Stopped(active) \in Seq(Runs)
    BY <1>1, StoppedType DEF TypeOK
  <2>8. /\ Exclusive'
        /\ DOMAIN Stopped(active) \subseteq DOMAIN runs'
        /\ \A r \in DOMAIN Stopped(active) : runs'[r].stage = Stopped(active)[r].stage
        /\ \A r \in DOMAIN runs' \ DOMAIN Stopped(active) : runs'[r].stage # "posted"
    BY <1>1, <1>3, <2>1, <2>6, <2>7, StoppedIdle, ProceedExclusive
  <2>9. Delivery(runs', gui)
    <3>1. /\ DOMAIN runs \subseteq DOMAIN runs'
          /\ \A r \in DOMAIN runs : runs'[r].stage = "posted" <=> runs[r].stage = "posted"
          /\ \A r \in DOMAIN runs' \ DOMAIN runs : runs'[r].stage # "posted"
      BY <1>1, <1>3, <2>8, StoppedIdle
    <3> QED BY <1>1, <3>1, RunsMove
  <2>10. Delivery(runs', gui')
    BY <1>1, <2>2, <2>9, PostFlush DEF TypeOK
  <2>11. AnswerOnItsWay'
    BY <2>10 DEF AnswerOnItsWay, AnswersIn, Delivery, IsAnswer
  <2>12. NoLostWakeup'
    BY <1>1, <2>2, FlushPosted DEF NoLostWakeup, TypeOK
  <2> QED BY <2>8, <2>11, <2>12
<1> QED BY <1>2, <1>3

\* A step that leaves the runs, the event queue and the prompts alone.
LEMMA QuietControl ==
    ASSUME Control, UNCHANGED <<runs, active, running, gui, promptQueue>>
    PROVE  Exclusive' /\ AnswerOnItsWay' /\ NoLostWakeup'
BY DEF Control, Exclusive, SingleFlight, NoUnownedWork, AnswerOnItsWay, AnswersIn,
       NoLostWakeup

\* A run begins outside the batch, on behalf of the user or of the queue.
LEMMA BeginControl ==
    ASSUME Control, ~running, NEW h, NEW c \in Nat, Begin(runs, h, c)
    PROVE  Exclusive' /\ running' /\ Delivery(runs', gui)
<1>1. TypeOK /\ Exclusive /\ Delivery(runs, gui) /\ runs \in Seq(Runs)
  BY DeliveryIs DEF Control, TypeOK
<1>2. Idle(runs)
  BY <1>1, IdleIs DEF Exclusive, SingleFlight
<1> QED BY <1>1, <1>2, BeginExclusive, RunsMove

\* The user keeps control of the agent exclusive.
LEMMA UserControl == Control /\ User => Exclusive' /\ AnswerOnItsWay' /\ NoLostWakeup'
<1> SUFFICES ASSUME Control, User PROVE Exclusive' /\ AnswerOnItsWay' /\ NoLostWakeup'
  OBVIOUS
<1>1. TypeOK /\ Exclusive /\ Delivery(runs, gui) /\ NoLostWakeup
  BY DeliveryIs DEF Control
<1>2. history \in GoodHistories
  BY <1>1, HistoryGood
<1>3. Delivery(runs', gui') => AnswerOnItsWay'
  BY DEF AnswerOnItsWay, AnswersIn, Delivery, IsAnswer
<1>4. running' => NoLostWakeup'
  BY DEF NoLostWakeup
<1>5. CASE SendNow
  <2>1. EnsureChat(history).current \in Nat
    BY <1>2, EnsureChatType
  <2> QED BY <1>3, <1>4, <1>5, <2>1, BeginControl DEF SendNow
<1>6. CASE SendLater
  <2>1. running' /\ UNCHANGED <<runs, active, running, gui>>
    BY <1>6 DEF SendLater
  <2>2. Exclusive' /\ AnswerOnItsWay'
    BY <1>1, <1>3, <2>1 DEF Exclusive, SingleFlight, NoUnownedWork
  <2> QED BY <1>4, <2>1, <2>2
<1>7. CASE CancelQueued
  <2>1. Tail(promptQueue) \in Seq(Nat)
    BY <1>1, <1>7 DEF CancelQueued, TypeOK
  <2>2. UNCHANGED <<runs, active, running, gui>> /\ promptQueue # <<>>
    BY <1>7 DEF CancelQueued
  <2>3. Exclusive' /\ AnswerOnItsWay'
    BY <1>1, <1>3, <2>2 DEF Exclusive, SingleFlight, NoUnownedWork
  <2> QED BY <1>1, <2>2, <2>3 DEF NoLostWakeup
<1>8. CASE Stop
  BY <1>1, <1>8, RequestSkipCurrentType, CancelRunControl DEF Stop, TypeOK
<1>9. CASE Regenerate
  <2>1. history.current \in Nat
    BY <1>1 DEF TypeOK, Histories
  <2> QED BY <1>3, <1>4, <1>9, <2>1, BeginControl DEF Regenerate
<1>10. CASE NewChat
  BY <1>10, QuietControl DEF NewChat
<1>11. CASE SelectChat
  BY <1>11, QuietControl DEF SelectChat
<1>12. CASE AskDelete
  BY <1>12, QuietControl DEF AskDelete
<1>13. CASE AnswerDelete
  BY <1>13, QuietControl DEF AnswerDelete
<1>14. CASE StartBatch
  <2>1. PICK n \in 1 .. MaxTargets : \E out \in Start(n, Len(history.chats), Here) :
           Proceed(runs, history, 0, out)
    BY <1>14 DEF StartBatch
  <2>2. PICK out \in Start(n, Len(history.chats), Here) : Proceed(runs, history, 0, out)
    BY <2>1
  <2>3. n \in Nat /\ Len(history.chats) \in Nat /\ Here \in Places
    BY <1>1, <1>2, HereType, BoundsAssumption DEF GoodHistories, Histories
  <2>4. out \in Outcomes
    BY <2>2, <2>3, StartType
  <2>5. Idle(runs) /\ runs \in Seq(Runs)
    BY <1>1, <1>14, IdleIs DEF StartBatch, Exclusive, SingleFlight, TypeOK
  <2>6. Exclusive' /\ Delivery(runs', gui)
    BY <1>1, <2>2, <2>4, <2>5, ProceedExclusive, RunsMove
  <2>7. UNCHANGED <<gui, promptQueue>> /\ ~running
    BY <1>14 DEF StartBatch
  <2>8. NoLostWakeup'
    BY <1>1, <2>7 DEF NoLostWakeup
  <2> QED BY <1>3, <2>6, <2>7, <2>8
<1>15. CASE StopBatch
  BY <1>1, <1>15, CancelAllType, CancelRunControl DEF StopBatch, TypeOK
<1>16. CASE CloseBatch
  BY <1>16, QuietControl DEF CloseBatch
<1>17. CASE AskClose
  BY <1>17, QuietControl DEF AskClose
<1>18. CASE AnswerClose
  <2>1. CASE CancelRun(CancelAll(batch), TRUE)
    BY <1>1, <1>18, <2>1, CancelAllType, CancelRunControl DEF AnswerClose, TypeOK
  <2>2. CASE UNCHANGED <<runs, active, running, gui, history, batch>>
    BY <1>18, <2>2, QuietControl DEF AnswerClose
  <2> QED BY <1>18, <2>1, <2>2 DEF AnswerClose
<1>19. CASE SelectDocument
  BY <1>19, QuietControl DEF SelectDocument
<1>20. CASE SwitchProject
  <2>1. /\ runs' = [r \in DOMAIN runs |-> [runs[r] EXCEPT !.attached = FALSE]]
        /\ gui' = Append(gui, Cleanup)
        /\ UNCHANGED <<active, running, promptQueue>>
    BY <1>20 DEF SwitchProject
  <2>2. \A r \in DOMAIN runs : /\ runs'[r].stage = runs[r].stage
                               /\ runs'[r].cancelled = runs[r].cancelled
                               /\ runs'[r].pending = runs[r].pending
    BY <1>1, <2>1, RunAt DEF Runs
  <2>3. DOMAIN runs' = DOMAIN runs
    BY <2>1
  <2>4. Exclusive'
    BY <1>1, <2>1, <2>2, <2>3 DEF Exclusive, SingleFlight, NoUnownedWork
  <2>5. Delivery(runs', gui)
    BY <1>1, <2>2, <2>3, RunsMove
  <2>6. Cleanup \in Callbacks /\ Cleanup.kind = "cleanup"
    BY DEF Cleanup, Callbacks
  <2>7. Delivery(runs', gui')
    BY <1>1, <2>1, <2>5, <2>6, PostOther DEF TypeOK
  <2>8. NoLostWakeup'
    <3> SUFFICES ASSUME promptQueue # <<>>, ~running
                 PROVE  \E i \in DOMAIN gui' : gui'[i].kind = "flush"
      BY <2>1 DEF NoLostWakeup
    <3>1. PICK i \in DOMAIN gui : gui[i].kind = "flush"
      BY <1>1 DEF NoLostWakeup
    <3>2. i \in DOMAIN gui' /\ gui'[i] = gui[i]
      BY <1>1, <2>1 DEF TypeOK
    <3> QED BY <3>1, <3>2
  <2> QED BY <1>3, <2>4, <2>7, <2>8
<1> QED
  BY <1>5, <1>6, <1>7, <1>8, <1>9, <1>10, <1>11, <1>12, <1>13, <1>14, <1>15,
     <1>16, <1>17, <1>18, <1>19, <1>20 DEF Control, User

\* A callback posted by the worker leaves the posted flushes where they are.
LEMMA AppendKeepsFlush ==
    ASSUME TypeOK, NoLostWakeup, NEW e, gui' = Append(gui, e),
           UNCHANGED <<running, promptQueue>>
    PROVE  NoLostWakeup'
<1> SUFFICES ASSUME promptQueue # <<>>, ~running
             PROVE  \E i \in DOMAIN gui' : gui'[i].kind = "flush"
  BY DEF NoLostWakeup
<1>1. PICK i \in DOMAIN gui : gui[i].kind = "flush"
  BY DEF NoLostWakeup
<1>2. i \in DOMAIN gui' /\ gui'[i] = gui[i]
  BY DEF TypeOK
<1> QED BY <1>1, <1>2

\* A run that changes neither its owner nor its stop request, and is not over
\* unless it was stopped, leaves control where it is.
LEMMA StageExclusive ==
    ASSUME TypeOK, Exclusive, NEW r \in DOMAIN runs, DOMAIN runs' = DOMAIN runs,
           \A s \in DOMAIN runs : s # r => runs'[s] = runs[s],
           runs'[r].cancelled = runs[r].cancelled,
           runs'[r].pending = runs[r].pending,
           runs[r].stage # "over",
           runs'[r].stage = "over" => runs[r].cancelled,
           UNCHANGED <<active, running>>
    PROVE  Exclusive'
<1>1. \A s \in DOMAIN runs' : runs'[s].pending <=> s = active'
  BY DEF Exclusive, SingleFlight
<1>2. active' # 0 => /\ active' \in DOMAIN runs' /\ ~runs'[active'].cancelled
                     /\ runs'[active'].stage # "over"
  BY DEF Exclusive, SingleFlight
<1>3. SingleFlight'
  BY <1>1, <1>2 DEF Exclusive, SingleFlight
<1>4. NoUnownedWork'
  BY DEF Exclusive, NoUnownedWork
<1> QED BY <1>3, <1>4 DEF Exclusive

\* The worker keeps control of the agent exclusive.
LEMMA WorkerControl == Control /\ Worker => Exclusive' /\ AnswerOnItsWay' /\ NoLostWakeup'
<1> SUFFICES ASSUME Control, Worker PROVE Exclusive' /\ AnswerOnItsWay' /\ NoLostWakeup'
  OBVIOUS
<1>1. TypeOK /\ Exclusive /\ Delivery(runs, gui) /\ NoLostWakeup
  BY DeliveryIs DEF Control
<1>2. Delivery(runs', gui') => AnswerOnItsWay'
  BY DEF AnswerOnItsWay, AnswersIn, Delivery, IsAnswer
<1>3. gui \in Seq(Callbacks)
  BY <1>1 DEF TypeOK
<1>4. CASE Execute
  <2>1. PICK r \in DOMAIN runs : /\ runs[r].stage = "queued"
                                 /\ runs' = [runs EXCEPT ![r].stage = "executing"]
    BY <1>4 DEF Execute
  <2>2. UNCHANGED <<active, running, gui, promptQueue>>
    BY <1>4 DEF Execute
  <2>3. DOMAIN runs' = DOMAIN runs /\ \A s \in DOMAIN runs : s # r => runs'[s] = runs[s]
    BY <2>1
  <2>4. /\ runs'[r].cancelled = runs[r].cancelled
        /\ runs'[r].pending = runs[r].pending
        /\ runs'[r].stage = "executing"
    BY <1>1, <2>1, RunAt DEF Runs
  <2>5. Exclusive'
    BY <1>1, <2>1, <2>2, <2>3, <2>4, StageExclusive
  <2>6. Delivery(runs', gui)
    <3>1. \A s \in DOMAIN runs : runs'[s].stage = "posted" <=> runs[s].stage = "posted"
      BY <2>1, <2>3, <2>4
    <3> QED BY <1>1, <2>3, <3>1, RunsMove
  <2>7. NoLostWakeup'
    BY <1>1, <2>2 DEF NoLostWakeup
  <2> QED BY <1>2, <2>2, <2>5, <2>6, <2>7
<1>5. CASE ReportProgress
  <2>1. PICK r \in DOMAIN runs : /\ runs[r].stage = "executing"
                                 /\ runs' = [runs EXCEPT ![r].sent = @ + 1]
                                 /\ gui' = Append(gui, Stream(r))
    BY <1>5 DEF ReportProgress
  <2>2. UNCHANGED <<active, running, promptQueue>>
    BY <1>5 DEF ReportProgress
  <2>3. DOMAIN runs' = DOMAIN runs /\ \A s \in DOMAIN runs : s # r => runs'[s] = runs[s]
    BY <2>1
  <2>4. /\ runs'[r].cancelled = runs[r].cancelled
        /\ runs'[r].pending = runs[r].pending
        /\ runs'[r].stage = "executing"
    BY <1>1, <2>1, RunAt DEF Runs
  <2>5. Exclusive'
    BY <1>1, <2>1, <2>2, <2>3, <2>4, StageExclusive
  <2>6. Delivery(runs', gui)
    BY <1>1, <2>1, <2>3, <2>4, RunsMove
  <2>7. Stream(r) \in Callbacks /\ Stream(r).kind = "stream" /\ Stream(r).run = r
    BY <1>1, RunAt DEF Stream, Callbacks
  <2>8. Delivery(runs', gui')
    BY <1>3, <2>1, <2>3, <2>6, <2>7, PostOther
  <2>9. NoLostWakeup'
    BY <1>1, <2>1, <2>2, AppendKeepsFlush
  <2> QED BY <1>2, <2>5, <2>8, <2>9
<1>6. CASE Return
  <2>1. PICK r \in DOMAIN runs :
          /\ runs[r].stage = "executing"
          /\ IF runs[r].cancelled
             THEN runs' = [runs EXCEPT ![r].stage = "over"] /\ UNCHANGED gui
             ELSE /\ runs' = [runs EXCEPT ![r].stage = "posted"]
                  /\ \E ok \in BOOLEAN : gui' = Append(gui, Finalize(r, ok))
    BY <1>6 DEF Return
  <2>2. UNCHANGED <<active, running, promptQueue>>
    BY <1>6 DEF Return
  <2>3. DOMAIN runs' = DOMAIN runs /\ \A s \in DOMAIN runs : s # r => runs'[s] = runs[s]
    BY <2>1
  <2>4. /\ runs'[r].cancelled = runs[r].cancelled
        /\ runs'[r].pending = runs[r].pending
        /\ runs'[r].stage = IF runs[r].cancelled THEN "over" ELSE "posted"
    BY <1>1, <2>1, RunAt DEF Runs
  <2>5. Exclusive'
    BY <1>1, <2>1, <2>2, <2>3, <2>4, StageExclusive
  <2>6. CASE runs[r].cancelled
    <3>1. Delivery(runs', gui)
      BY <1>1, <2>1, <2>3, <2>4, <2>6, RunsMove
    <3>2. UNCHANGED gui
      BY <2>1, <2>6
    <3>3. NoLostWakeup'
      BY <1>1, <2>2, <3>2 DEF NoLostWakeup
    <3> QED BY <1>2, <2>5, <3>1, <3>2, <3>3
  <2>7. CASE ~runs[r].cancelled
    <3>1. PICK ok \in BOOLEAN : gui' = Append(gui, Finalize(r, ok))
      BY <2>1, <2>7
    <3>2. Delivery(runs', gui')
      BY <1>1, <1>3, <2>1, <2>3, <2>4, <2>7, <3>1, PostAnswer
    <3>3. NoLostWakeup'
      BY <1>1, <2>2, <3>1, AppendKeepsFlush
    <3> QED BY <1>2, <2>5, <3>2, <3>3
  <2> QED BY <2>6, <2>7
<1> QED BY <1>4, <1>5, <1>6 DEF Worker

\* The event loop keeps control of the agent exclusive.
LEMMA EventLoopControl ==
    Control /\ EventLoop => Exclusive' /\ AnswerOnItsWay' /\ NoLostWakeup'
<1> SUFFICES ASSUME Control, EventLoop
             PROVE  Exclusive' /\ AnswerOnItsWay' /\ NoLostWakeup'
  OBVIOUS
<1>1. TypeOK /\ Exclusive /\ Delivery(runs, gui) /\ NoLostWakeup
  BY DeliveryIs DEF Control
<1>2. Delivery(runs', gui') => AnswerOnItsWay'
  BY DEF AnswerOnItsWay, AnswersIn, Delivery, IsAnswer
<1>3. gui \in Seq(Callbacks)
  BY <1>1 DEF TypeOK
<1>4. gui # <<>>
  BY DEF EventLoop, DropAnswer, ShowAnswer, ShowProgress, FlushNothing,
         FlushPrompt, CleanUp, Turn
<1> DEFINE r == Head(gui).run
<1>5. ASSUME Turn("finalize")
      PROVE  r \in DOMAIN runs /\ runs[r].stage = "posted" /\ runs[r] \in Runs
  <2>1. 1 \in DOMAIN gui /\ IsAnswer(gui, 1, r)
    BY <1>3, <1>4, <1>5, TailIs DEF Turn, IsAnswer
  <2>2. r \in DOMAIN runs
    BY <1>1, <2>1 DEF Delivery, IsAnswer
  <2> QED BY <1>1, <2>1, <2>2, RunAt DEF Delivery
<1>6. \A i \in DOMAIN gui : gui[i].kind = "flush" /\ Head(gui).kind # "flush" =>
         i - 1 \in DOMAIN Tail(gui) /\ Tail(gui)[i - 1] = gui[i]
  <2> SUFFICES ASSUME NEW i \in DOMAIN gui, gui[i].kind = "flush",
                      Head(gui).kind # "flush"
               PROVE  i - 1 \in DOMAIN Tail(gui) /\ Tail(gui)[i - 1] = gui[i]
    OBVIOUS
  <2>1. i # 1 /\ i \in Nat
    BY <1>3, <1>4, TailIs
  <2>2. i - 1 \in DOMAIN Tail(gui) /\ (i - 1) + 1 = i
    BY <1>3, <1>4, <2>1, TailIs
  <2> QED BY <1>3, <1>4, <2>2, TailIs
<1>7. ASSUME Head(gui).kind # "flush", gui' = Tail(gui), UNCHANGED <<running, promptQueue>>
      PROVE  NoLostWakeup'
  BY <1>1, <1>6, <1>7 DEF NoLostWakeup
<1>8. ASSUME Head(gui).kind # "finalize", gui' = Tail(gui), UNCHANGED <<runs, active, running>>
      PROVE  Exclusive' /\ AnswerOnItsWay'
  <2>1. Delivery(runs', gui')
    BY <1>1, <1>3, <1>4, <1>8, TakeOther
  <2> QED BY <1>1, <1>2, <1>8, <2>1 DEF Exclusive, SingleFlight, NoUnownedWork
<1>9. CASE DropAnswer
  <2>1. /\ Turn("finalize") /\ runs[r].cancelled
        /\ runs' = [runs EXCEPT ![r].stage = "over"] /\ gui' = Tail(gui)
        /\ UNCHANGED <<active, running, promptQueue>>
    BY <1>9 DEF DropAnswer
  <2>2. r \in DOMAIN runs /\ runs[r].stage = "posted" /\ runs[r] \in Runs
    BY <1>5, <2>1
  <2> HIDE DEF r
  <2>3. DOMAIN runs' = DOMAIN runs /\ \A s \in DOMAIN runs : s # r => runs'[s] = runs[s]
    BY <2>1
  <2>4. /\ runs'[r].cancelled = runs[r].cancelled
        /\ runs'[r].pending = runs[r].pending
        /\ runs'[r].stage = "over"
    BY <2>1, <2>2 DEF Runs
  <2>5. Exclusive'
    BY <1>1, <2>1, <2>2, <2>3, <2>4, StageExclusive
  <2>6. Delivery(runs', gui')
    BY <1>1, <1>3, <1>4, <2>1, <2>3, <2>4, TakeAnswer DEF Turn, r
  <2>7. NoLostWakeup'
    BY <1>7, <2>1 DEF Turn
  <2> QED BY <1>2, <2>5, <2>6, <2>7
<1>10. CASE ShowAnswer
  <2> DEFINE rs == [runs EXCEPT ![r].stage = "over", ![r].pending = FALSE]
             h == Answered(r)
  <2>1. Turn("finalize") /\ ~runs[r].cancelled
    BY <1>10 DEF ShowAnswer
  <2>2. r \in DOMAIN runs /\ runs[r].stage = "posted" /\ runs[r] \in Runs
    BY <1>5, <2>1
  <2>3. active = r
    BY <1>1, <2>1, <2>2 DEF Exclusive, NoUnownedWork
  <2>4. PICK out \in HandleCompletion(batch, runs[r].chat, Head(gui).ok,
                                      Len(h.chats), Here) : Proceed(rs, h, 0, out)
    BY <1>10, <2>3 DEF ShowAnswer
  <2>5. gui' = Tail(gui) \o FlushOf(promptQueue) /\ UNCHANGED promptQueue
    BY <1>10 DEF ShowAnswer
  <2>6. r \in Nat /\ Head(gui).ok \in BOOLEAN
    BY <1>1, <1>4, TurnType DEF Callbacks
  <2>7. Head(gui).kind = "finalize"
    BY <2>1 DEF Turn
  <2> HIDE DEF r
  <2>8. h \in GoodHistories
    BY <1>1, <2>6, AnsweredType
  <2>9. /\ DOMAIN rs = DOMAIN runs
        /\ \A s \in DOMAIN runs : s # r => rs[s] = runs[s]
        /\ rs[r].stage = "over" /\ rs[r].pending = FALSE
    BY <1>1, <2>2 DEF TypeOK, Runs
  <2>10. rs \in Seq(Runs)
    <3> DEFINE new == [runs[r] EXCEPT !.stage = "over", !.pending = FALSE]
    <3>1. new \in Runs
      BY <2>2 DEF Runs, Stages
    <3>2. rs = [runs EXCEPT ![r] = new]
      BY <1>1, <2>2 DEF TypeOK
    <3> HIDE DEF new, rs
    <3> QED BY <1>1, <2>2, <3>1, <3>2, RunUpdateType
  <2> HIDE DEF rs, h
  <2>11. Idle(rs)
    BY <1>1, <2>3, <2>9 DEF Idle, Exclusive, SingleFlight, NoUnownedWork
  <2>12. Len(h.chats) \in Nat
    BY <2>8 DEF GoodHistories, Histories
  <2>13. out \in Outcomes
    BY <1>1, <2>4, <2>6, <2>12, HereType, HandleCompletionType DEF TypeOK
  <2>14. /\ Exclusive'
         /\ DOMAIN rs \subseteq DOMAIN runs'
         /\ \A s \in DOMAIN rs : runs'[s].stage = rs[s].stage
         /\ \A s \in DOMAIN runs' \ DOMAIN rs : runs'[s].stage # "posted"
    BY <2>4, <2>10, <2>11, <2>13, ProceedExclusive
  <2>15. Delivery(rs, Tail(gui))
    BY <1>1, <1>3, <1>4, <2>7, <2>9, TakeAnswer DEF r
  <2>16. Delivery(runs', Tail(gui))
    BY <2>14, <2>15, RunsMove
  <2>17. Tail(gui) \in Seq(Callbacks)
    BY <1>3, <1>4
  <2>18. Delivery(runs', gui')
    BY <2>5, <2>16, <2>17, PostFlush
  <2>19. NoLostWakeup'
    BY <2>5, <2>17, FlushPosted DEF NoLostWakeup
  <2> QED BY <1>2, <2>14, <2>18, <2>19
<1>11. CASE ShowProgress
  BY <1>7, <1>8, <1>11 DEF ShowProgress, Turn
<1>12. CASE FlushNothing
  <2>1. Exclusive' /\ AnswerOnItsWay'
    BY <1>8, <1>12 DEF FlushNothing, Turn
  <2>2. NoLostWakeup'
    BY <1>12 DEF FlushNothing, NoLostWakeup
  <2> QED BY <2>1, <2>2
<1>13. CASE FlushPrompt
  <2>1. PICK k \in DOMAIN promptQueue :
           Begin(runs, Select(history, promptQueue[k]), promptQueue[k])
    BY <1>13 DEF FlushPrompt
  <2>2. ~running /\ Head(gui).kind # "finalize" /\ gui' = Tail(gui)
    BY <1>13 DEF FlushPrompt, Turn
  <2>3. promptQueue[k] \in Nat
    BY <1>1 DEF TypeOK
  <2>4. Exclusive' /\ running' /\ Delivery(runs', gui)
    BY <2>1, <2>2, <2>3, BeginControl
  <2>5. Delivery(runs', gui')
    BY <1>3, <1>4, <2>2, <2>4, TakeOther
  <2>6. NoLostWakeup'
    BY <2>4 DEF NoLostWakeup
  <2> QED BY <1>2, <2>4, <2>5, <2>6
<1>14. CASE CleanUp
  BY <1>7, <1>8, <1>14 DEF CleanUp, Turn
<1> QED BY <1>9, <1>10, <1>11, <1>12, <1>13, <1>14 DEF EventLoop

-----------------------------------------------------------------------------
LEMMA InitControl == Init => Control
<1> SUFFICES ASSUME Init PROVE Control
  OBVIOUS
<1>1. runs = <<>> /\ active = 0 /\ running = FALSE /\ gui = <<Cleanup>>
      /\ promptQueue = <<>>
  BY DEF Init
<1>2. Exclusive /\ NoLostWakeup
  BY <1>1 DEF Exclusive, SingleFlight, NoUnownedWork, NoLostWakeup
<1>3. DOMAIN gui = {1} /\ gui[1].kind = "cleanup"
  BY <1>1 DEF Cleanup
<1>4. AnswerOnItsWay
  BY <1>1, <1>3 DEF AnswerOnItsWay
<1> QED BY <1>2, <1>4, InitType DEF Control

LEMMA NextControl == Control /\ [Next]_vars => Control'
<1> SUFFICES ASSUME Control, [Next]_vars PROVE Control'
  OBVIOUS
<1>1. TypeOK'
  <2>1. UNCHANGED vars => TypeOK'
    BY DEF Control, TypeOK, vars
  <2> QED BY <2>1, UserType, WorkerType, EventLoopType DEF Next, Control
<1>2. Exclusive' /\ AnswerOnItsWay' /\ NoLostWakeup'
  <2>1. UNCHANGED vars => UNCHANGED <<runs, active, running, gui, promptQueue>>
    BY DEF vars
  <2> QED BY <2>1, QuietControl, UserControl, WorkerControl, EventLoopControl DEF Next
<1> QED BY <1>1, <1>2 DEF Control

LEMMA AlwaysControl == Spec => []Control
BY InitControl, NextControl, PTL DEF Spec

\* The panel shows itself busy exactly while one handle is active, and that
\* handle alone owns a transcript entry: no stop, late answer, queued prompt or
\* batch item ever leaves the wait state on, or two runs in flight.
THEOREM OneRunAtATime == Spec => []SingleFlight
<1>1. Control => SingleFlight
  BY DEF Control, Exclusive
<1> QED BY <1>1, AlwaysControl, PTL

\* A command that may still change requirements belongs to the active handle
\* or was told to stop, also after projects were switched and chats deleted.
THEOREM WorkIsOwned == Spec => []NoUnownedWork
<1>1. Control => NoUnownedWork
  BY DEF Control, Exclusive
<1> QED BY <1>1, AlwaysControl, PTL

\* The answer of a run that returned one is in the event queue, once.
THEOREM AnswerDelivered == Spec => []AnswerOnItsWay
<1>1. Control => AnswerOnItsWay
  BY DEF Control
<1> QED BY <1>1, AlwaysControl, PTL

\* A queued prompt waits for the end of a run or for a posted flush.
THEOREM WakeupNotLost == Spec => []NoLostWakeup
<1>1. Control => NoLostWakeup
  BY DEF Control
<1> QED BY <1>1, AlwaysControl, PTL

-----------------------------------------------------------------------------
(* The ledger of runs: LedgerKept.                                         *)

\* What the ledger shows of the run handles rs.
Verdicts(rs) == [r \in DOMAIN rs |-> Outcome(rs[r])]

\* A verdict for every handle, in the order of the handles.
LEMMA ShownType ==
    ASSUME NEW rs \in Seq(Runs)
    PROVE  /\ Verdicts(rs) \in Seq({"running", "cancelled", "answered"})
           /\ Len(Verdicts(rs)) = Len(rs) /\ DOMAIN Verdicts(rs) = DOMAIN rs
           /\ \A r \in DOMAIN rs : Verdicts(rs)[r] = Outcome(rs[r])
<1>1. DOMAIN rs = 1 .. Len(rs) /\ Len(rs) \in Nat
  OBVIOUS
<1>2. \A r \in DOMAIN rs : Outcome(rs[r]) \in {"running", "cancelled", "answered"}
  BY DEF Outcome
<1> QED BY <1>1, <1>2 DEF Verdicts

\* A new run is appended to the ledger.
LEMMA ShownAppend ==
    ASSUME NEW rs \in Seq(Runs), NEW c \in Nat
    PROVE  Verdicts(Append(rs, NewRun(c))) = Append(Verdicts(rs), "running")
<1> DEFINE new == Append(rs, NewRun(c))
           a == Verdicts(new)
           b == Append(Verdicts(rs), "running")
<1>1. NewRun(c) \in Runs /\ Outcome(NewRun(c)) = "running"
  BY DEF NewRun, Runs, Stages, Outcome
<1>2. new \in Seq(Runs) /\ Len(new) = Len(rs) + 1 /\ new[Len(rs) + 1] = NewRun(c)
      /\ \A r \in 1 .. Len(rs) : new[r] = rs[r]
  BY <1>1
<1> HIDE DEF new
<1>3. a \in Seq({"running", "cancelled", "answered"}) /\ Len(a) = Len(rs) + 1
      /\ \A r \in 1 .. (Len(rs) + 1) : a[r] = Outcome(new[r])
  BY <1>2, ShownType
<1>4. b \in Seq({"running", "cancelled", "answered"}) /\ Len(b) = Len(rs) + 1
      /\ b[Len(rs) + 1] = "running"
      /\ \A r \in 1 .. Len(rs) : b[r] = Outcome(rs[r])
  BY ShownType
<1>5. \A r \in 1 .. (Len(rs) + 1) : a[r] = b[r]
  BY <1>1, <1>2, <1>3, <1>4
<1> HIDE DEF a, b
<1>6. a = b
  BY <1>3, <1>4, <1>5
<1> QED BY <1>6 DEF a, b, new

\* The ledger of a step, in terms of the run handles.
LEMMA LedgerIs ==
    /\ Ledger!BeginRun <=>
         /\ active = 0
         /\ Verdicts(runs)' = Append(Verdicts(runs), "running")
         /\ active' = Len(Verdicts(runs)) + 1
    /\ Ledger!SettleRun <=>
         /\ active # 0
         /\ \E v \in {"answered", "cancelled"} :
               Verdicts(runs)' = [Verdicts(runs) EXCEPT ![active] = v]
         /\ active' = 0
    /\ Ledger!HandOver <=>
         /\ active # 0
         /\ \E v \in {"answered", "cancelled"} :
               Verdicts(runs)' = Append([Verdicts(runs) EXCEPT ![active] = v], "running")
         /\ active' = Len(Verdicts(runs)) + 1
    /\ UNCHANGED Ledger!ledger <=> UNCHANGED <<Verdicts(runs), active>>
BY DEF Ledger!BeginRun, Ledger!SettleRun, Ledger!HandOver, Ledger!ledger, Verdicts,
       Ledger!Verdicts

\* A step that touches neither the active handle nor who owns or stopped a run.
LEMMA SameLedger ==
    ASSUME DOMAIN runs' = DOMAIN runs, UNCHANGED active,
           \A r \in DOMAIN runs : /\ runs'[r].pending = runs[r].pending
                                  /\ runs'[r].cancelled = runs[r].cancelled
    PROVE  UNCHANGED Ledger!ledger
<1>1. \A r \in DOMAIN runs : Outcome(runs'[r]) = Outcome(runs[r])
  BY DEF Outcome
<1>2. Verdicts(runs)' = Verdicts(runs)
  BY <1>1 DEF Verdicts
<1> QED BY <1>2, LedgerIs

\* A run begins while none is in flight.
LEMMA BeginLedger ==
    ASSUME runs \in Seq(Runs), active = 0, NEW h, NEW c \in Nat, Begin(runs, h, c)
    PROVE  Ledger!BeginRun
<1>1. runs' = Append(runs, NewRun(c)) /\ active' = Len(runs) + 1
  BY DEF Begin
<1>2. Verdicts(runs)' = Append(Verdicts(runs), "running")
  <2>1. Verdicts(runs)' = Verdicts(Append(runs, NewRun(c)))
    BY <1>1 DEF Verdicts
  <2> QED BY <2>1, ShownAppend
<1>3. Len(Verdicts(runs)) = Len(runs)
  BY ShownType
<1> QED BY <1>1, <1>2, <1>3, LedgerIs

\* The batch runner decides, with the handles rs, whether a run begins.
LEMMA ProceedShape ==
    ASSUME NEW rs, NEW h, NEW out \in Outcomes, Proceed(rs, h, 0, out)
    PROVE  \/ runs' = rs /\ active' = 0
           \/ \E c \in Nat : runs' = Append(rs, NewRun(c)) /\ active' = Len(rs) + 1
<1>1. out.chat \in Nat
  BY DEF Outcomes
<1> QED BY <1>1 DEF Proceed, Begin

\* The active run is settled, in rs, and another one begins or none does.
LEMMA SettleLedger ==
    ASSUME runs \in Seq(Runs), active \in DOMAIN runs, active # 0,
           NEW rs \in Seq(Runs), DOMAIN rs = DOMAIN runs, Len(rs) = Len(runs),
           \A r \in DOMAIN runs : r # active => Outcome(rs[r]) = Outcome(runs[r]),
           Outcome(rs[active]) \in {"answered", "cancelled"},
           \/ runs' = rs /\ active' = 0
           \/ \E c \in Nat : runs' = Append(rs, NewRun(c)) /\ active' = Len(rs) + 1
    PROVE  Ledger!SettleRun \/ Ledger!HandOver
<1> DEFINE v == Outcome(rs[active])
           a == Verdicts(rs)
           b == [Verdicts(runs) EXCEPT ![active] = v]
<1>1. Verdicts(rs) = b
  <2>1. DOMAIN a = DOMAIN runs /\ a = [r \in DOMAIN runs |-> a[r]]
        /\ \A r \in DOMAIN runs : a[r] = Outcome(rs[r])
    BY DEF Verdicts
  <2>2. DOMAIN b = DOMAIN runs /\ b = [r \in DOMAIN runs |-> b[r]]
        /\ \A r \in DOMAIN runs : b[r] = IF r = active THEN v ELSE Outcome(runs[r])
    BY DEF Verdicts
  <2>3. \A r \in DOMAIN runs : a[r] = b[r]
    BY <2>1, <2>2
  <2> HIDE DEF a, b
  <2>4. a = b
    BY <2>1, <2>2, <2>3
  <2> QED BY <2>4 DEF a
<1>2. Len(rs) = Len(Verdicts(runs))
  BY ShownType
<1>3. v \in {"answered", "cancelled"}
  OBVIOUS
<1>4. CASE runs' = rs /\ active' = 0
  <2>1. Verdicts(runs)' = b
    BY <1>1, <1>4 DEF Verdicts
  <2> QED BY <1>3, <1>4, <2>1, LedgerIs
<1>5. CASE \E c \in Nat : runs' = Append(rs, NewRun(c)) /\ active' = Len(rs) + 1
  <2>1. PICK c \in Nat : runs' = Append(rs, NewRun(c)) /\ active' = Len(rs) + 1
    BY <1>5
  <2>2. Verdicts(runs)' = Append(b, "running")
    <3>1. Verdicts(runs)' = Verdicts(Append(rs, NewRun(c)))
      BY <2>1 DEF Verdicts
    <3>2. Verdicts(Append(rs, NewRun(c))) = Append(Verdicts(rs), "running")
      BY ShownAppend
    <3> QED BY <1>1, <3>1, <3>2
  <2> QED BY <1>2, <1>3, <2>1, <2>2, LedgerIs
<1> QED BY <1>4, <1>5

-----------------------------------------------------------------------------
LedgerStep == Ledger!LedgerNext \/ UNCHANGED Ledger!ledger

\* Stopping settles the active run as cancelled.
LEMMA CancelRunLedger ==
    ASSUME Control, NEW b \in Batches, NEW closing \in BOOLEAN, CancelRun(b, closing)
    PROVE  LedgerStep
<1> DEFINE c == runs[active].chat
           h == IF c \in history.open /\ runs[active].attached
                THEN SettleEntry(history, c, active, "cancelled")
                ELSE history
           then(out) == IF closing THEN [out EXCEPT !.batch = Reset] ELSE out
           rs == Stopped(active)
<1>1. TypeOK /\ Exclusive /\ runs \in Seq(Runs)
  BY DEF Control, TypeOK
<1>2. CASE active = 0
  <2>1. UNCHANGED <<runs, active>>
    BY <1>2 DEF CancelRun
  <2> QED BY <2>1, SameLedger DEF LedgerStep
<1>3. CASE active # 0
  <2>1. active \in DOMAIN runs /\ runs[active] \in Runs
    BY <1>1, <1>3, RunAt DEF Exclusive, SingleFlight
  <2>2. PICK out \in HandleCancellation(b, c, Len(h.chats), Here) :
           Proceed(rs, h, 0, then(out))
    BY <1>3 DEF CancelRun
  <2>3. h \in GoodHistories
    <3>1. SettleEntry(history, c, active, "cancelled") \in GoodHistories
      BY <1>1, HistoryGood, SettleEntryType DEF EntryStates
    <3> QED BY <1>1, <3>1, HistoryGood
  <2>4. rs \in Seq(Runs) /\ Len(rs) = Len(runs)
    BY <1>1, StoppedType
  <2>5. /\ DOMAIN rs = DOMAIN runs
        /\ \A r \in DOMAIN runs : r # active => rs[r] = runs[r]
        /\ rs[active].pending = FALSE /\ rs[active].cancelled = TRUE
    BY <1>1, <2>1 DEF Stopped, Runs
  <2> HIDE DEF h, c, rs
  <2>6. Len(h.chats) \in Nat
    BY <2>3 DEF GoodHistories, Histories
  <2>7. out \in Outcomes
    BY <1>1, <2>2, <2>6, HereType, HandleCancellationType
  <2>8. then(out) \in Outcomes
    BY <2>7, ResetType DEF Outcomes
  <2> HIDE DEF then
  <2>9. \/ runs' = rs /\ active' = 0
        \/ \E n \in Nat : runs' = Append(rs, NewRun(n)) /\ active' = Len(rs) + 1
    BY <2>2, <2>8, ProceedShape
  <2>10. Outcome(rs[active]) = "cancelled"
    BY <2>5 DEF Outcome
  <2>11. Ledger!SettleRun \/ Ledger!HandOver
    BY <1>1, <1>3, <2>1, <2>4, <2>5, <2>9, <2>10, SettleLedger
  <2> QED BY <2>11 DEF LedgerStep, Ledger!LedgerNext
<1> QED BY <1>2, <1>3

\* The user's steps are steps of the ledger or leave it alone.
LEMMA UserLedger == Control /\ User => LedgerStep
<1> SUFFICES ASSUME Control, User PROVE LedgerStep
  OBVIOUS
<1>1. TypeOK /\ Exclusive /\ runs \in Seq(Runs)
  BY DEF Control, TypeOK
<1>2. ~running => active = 0
  BY <1>1 DEF Exclusive, SingleFlight
<1>3. history \in GoodHistories
  BY <1>1, HistoryGood
<1>4. UNCHANGED <<runs, active>> => LedgerStep
  BY SameLedger DEF LedgerStep
<1>5. CASE SendNow
  <2>1. EnsureChat(history).current \in Nat
    BY <1>3, EnsureChatType
  <2>2. ~running /\ Begin(runs, EnsureChat(history), EnsureChat(history).current)
    BY <1>5 DEF SendNow
  <2> QED BY <1>1, <1>2, <2>1, <2>2, BeginLedger DEF LedgerStep, Ledger!LedgerNext
<1>6. CASE Stop
  BY <1>1, <1>6, RequestSkipCurrentType, CancelRunLedger DEF Stop, TypeOK
<1>7. CASE Regenerate
  <2>1. history.current \in Nat
    BY <1>1 DEF TypeOK, Histories
  <2>2. ~running
        /\ Begin(runs, DropLastEntry(history, history.current), history.current)
    BY <1>7 DEF Regenerate
  <2> QED BY <1>1, <1>2, <2>1, <2>2, BeginLedger DEF LedgerStep, Ledger!LedgerNext
<1>8. CASE StartBatch
  <2>1. PICK n \in 1 .. MaxTargets : \E out \in Start(n, Len(history.chats), Here) :
           Proceed(runs, history, 0, out)
    BY <1>8 DEF StartBatch
  <2>2. PICK out \in Start(n, Len(history.chats), Here) : Proceed(runs, history, 0, out)
    BY <2>1
  <2>3. n \in Nat /\ Len(history.chats) \in Nat /\ Here \in Places
    BY <1>1, <1>3, HereType, BoundsAssumption DEF GoodHistories, Histories
  <2>4. out \in Outcomes
    BY <2>2, <2>3, StartType
  <2>5. active = 0
    BY <1>2, <1>8 DEF StartBatch
  <2>6. CASE out.chat = 0
    <3>1. UNCHANGED <<runs, active>>
      BY <2>2, <2>5, <2>6 DEF Proceed
    <3> QED BY <1>4, <3>1
  <2>7. CASE out.chat # 0
    <3>1. Begin(runs, OpenBatchChats(history, out.made), out.chat)
      BY <2>2, <2>7 DEF Proceed
    <3>2. out.chat \in Nat
      BY <2>4 DEF Outcomes
    <3> QED BY <1>1, <2>5, <3>1, <3>2, BeginLedger DEF LedgerStep, Ledger!LedgerNext
  <2> QED BY <2>6, <2>7
<1>9. CASE StopBatch
  BY <1>1, <1>9, CancelAllType, CancelRunLedger DEF StopBatch, TypeOK
<1>10. CASE AnswerClose
  <2>1. CASE CancelRun(CancelAll(batch), TRUE)
    BY <1>1, <2>1, CancelAllType, CancelRunLedger DEF TypeOK
  <2>2. CASE UNCHANGED <<runs, active, running, gui, history, batch>>
    BY <1>4, <2>2
  <2> QED BY <1>10, <2>1, <2>2 DEF AnswerClose
<1>11. CASE SwitchProject
  <2>1. /\ runs' = [r \in DOMAIN runs |-> [runs[r] EXCEPT !.attached = FALSE]]
        /\ UNCHANGED active
    BY <1>11 DEF SwitchProject
  <2>2. \A r \in DOMAIN runs : /\ runs'[r].pending = runs[r].pending
                               /\ runs'[r].cancelled = runs[r].cancelled
    BY <1>1, <2>1, RunAt DEF Runs
  <2> QED BY <2>1, <2>2, SameLedger DEF LedgerStep
<1>12. CASE \/ SendLater \/ CancelQueued \/ NewChat \/ SelectChat \/ AskDelete
            \/ AnswerDelete \/ CloseBatch \/ AskClose \/ SelectDocument
  BY <1>4, <1>12 DEF SendLater, CancelQueued, NewChat, SelectChat, AskDelete,
     AnswerDelete, CloseBatch, AskClose, SelectDocument
<1> QED BY <1>5, <1>6, <1>7, <1>8, <1>9, <1>10, <1>11, <1>12 DEF User

\* The worker moves the stages of runs, which the ledger does not show.
LEMMA WorkerLedger == Control /\ Worker => LedgerStep
<1> SUFFICES ASSUME Control, Worker PROVE LedgerStep
  OBVIOUS
<1>1. TypeOK
  BY DEF Control
<1>2. UNCHANGED active
  BY DEF Worker, Execute, ReportProgress, Return
<1>3. \E r \in DOMAIN runs :
         \/ \E t \in Stages : runs' = [runs EXCEPT ![r].stage = t]
         \/ runs' = [runs EXCEPT ![r].sent = @ + 1]
  BY DEF Worker, Execute, ReportProgress, Return, Stages
<1>4. PICK r \in DOMAIN runs :
         \/ \E t \in Stages : runs' = [runs EXCEPT ![r].stage = t]
         \/ runs' = [runs EXCEPT ![r].sent = @ + 1]
  BY <1>3
<1>5. runs[r] \in Runs
  BY <1>1, RunAt
<1>6. /\ DOMAIN runs' = DOMAIN runs
      /\ \A s \in DOMAIN runs : s # r => runs'[s] = runs[s]
      /\ runs'[r].pending = runs[r].pending
      /\ runs'[r].cancelled = runs[r].cancelled
  BY <1>4, <1>5 DEF Runs
<1> QED BY <1>2, <1>6, SameLedger DEF LedgerStep

\* The event loop's steps: an answer settles the active run as answered.
LEMMA EventLoopLedger == Control /\ EventLoop => LedgerStep
<1> SUFFICES ASSUME Control, EventLoop PROVE LedgerStep
  OBVIOUS
<1>1. TypeOK /\ Exclusive /\ Delivery(runs, gui) /\ runs \in Seq(Runs)
  BY DeliveryIs DEF Control, TypeOK
<1>2. gui \in Seq(Callbacks)
  BY <1>1 DEF TypeOK
<1>3. gui # <<>>
  BY DEF EventLoop, DropAnswer, ShowAnswer, ShowProgress, FlushNothing,
         FlushPrompt, CleanUp, Turn
<1>4. UNCHANGED <<runs, active>> => LedgerStep
  BY SameLedger DEF LedgerStep
<1> DEFINE r == Head(gui).run
<1>5. ASSUME Turn("finalize")
      PROVE  r \in DOMAIN runs /\ runs[r].stage = "posted" /\ runs[r] \in Runs
  <2>1. 1 \in DOMAIN gui /\ IsAnswer(gui, 1, r)
    BY <1>2, <1>3, <1>5, TailIs DEF Turn, IsAnswer
  <2>2. r \in DOMAIN runs
    BY <1>1, <2>1 DEF Delivery, IsAnswer
  <2> QED BY <1>1, <2>1, <2>2, RunAt DEF Delivery
<1>6. CASE DropAnswer
  <2>1. /\ Turn("finalize") /\ runs' = [runs EXCEPT ![r].stage = "over"]
        /\ UNCHANGED active
    BY <1>6 DEF DropAnswer
  <2>2. r \in DOMAIN runs /\ runs[r] \in Runs
    BY <1>5, <2>1
  <2> HIDE DEF r
  <2>3. /\ DOMAIN runs' = DOMAIN runs
        /\ \A s \in DOMAIN runs : s # r => runs'[s] = runs[s]
        /\ runs'[r].pending = runs[r].pending
        /\ runs'[r].cancelled = runs[r].cancelled
    BY <2>1, <2>2 DEF Runs
  <2> QED BY <2>1, <2>3, SameLedger DEF LedgerStep
<1>7. CASE ShowAnswer
  <2> DEFINE rs == [runs EXCEPT ![r].stage = "over", ![r].pending = FALSE]
             h == Answered(r)
  <2>1. Turn("finalize") /\ ~runs[r].cancelled
    BY <1>7 DEF ShowAnswer
  <2>2. r \in DOMAIN runs /\ runs[r].stage = "posted" /\ runs[r] \in Runs
    BY <1>5, <2>1
  <2>3. active = r
    BY <1>1, <2>1, <2>2 DEF Exclusive, NoUnownedWork
  <2>4. PICK out \in HandleCompletion(batch, runs[r].chat, Head(gui).ok,
                                      Len(h.chats), Here) : Proceed(rs, h, 0, out)
    BY <1>7, <2>3 DEF ShowAnswer
  <2>5. r \in Nat /\ Head(gui).ok \in BOOLEAN
    BY <1>1, <1>3, TurnType DEF Callbacks
  <2> HIDE DEF r
  <2>6. h \in GoodHistories
    BY <1>1, <2>5, AnsweredType
  <2>7. /\ DOMAIN rs = DOMAIN runs
        /\ \A s \in DOMAIN runs : s # r => rs[s] = runs[s]
        /\ rs[r].pending = FALSE /\ rs[r].cancelled = runs[r].cancelled
    BY <1>1, <2>2 DEF Runs
  <2>8. rs \in Seq(Runs) /\ Len(rs) = Len(runs)
    <3> DEFINE new == [runs[r] EXCEPT !.stage = "over", !.pending = FALSE]
    <3>1. new \in Runs
      BY <2>2 DEF Runs, Stages
    <3>2. rs = [runs EXCEPT ![r] = new]
      BY <1>1, <2>2
    <3> HIDE DEF new, rs
    <3>3. Len([runs EXCEPT ![r] = new]) = Len(runs)
      BY <1>1
    <3> QED BY <1>1, <2>2, <3>1, <3>2, <3>3, RunUpdateType
  <2> HIDE DEF rs, h
  <2>9. Len(h.chats) \in Nat
    BY <2>6 DEF GoodHistories, Histories
  <2>10. out \in Outcomes
    BY <1>1, <2>4, <2>5, <2>9, HereType, HandleCompletionType DEF TypeOK
  <2>11. \/ runs' = rs /\ active' = 0
         \/ \E c \in Nat : runs' = Append(rs, NewRun(c)) /\ active' = Len(rs) + 1
    BY <2>4, <2>10, ProceedShape
  <2>12. Outcome(rs[active]) = "answered"
    BY <2>1, <2>3, <2>7 DEF Outcome
  <2>13. active # 0
    BY <1>1, <2>2, <2>3
  <2>14. Ledger!SettleRun \/ Ledger!HandOver
    BY <1>1, <2>2, <2>3, <2>7, <2>8, <2>11, <2>12, <2>13, SettleLedger
  <2> QED BY <2>14 DEF LedgerStep, Ledger!LedgerNext
<1>8. CASE FlushPrompt
  <2>1. PICK k \in DOMAIN promptQueue :
           Begin(runs, Select(history, promptQueue[k]), promptQueue[k])
    BY <1>8 DEF FlushPrompt
  <2>2. active = 0
    BY <1>1, <1>8 DEF FlushPrompt, Exclusive, SingleFlight
  <2>3. promptQueue[k] \in Nat
    BY <1>1 DEF TypeOK
  <2> QED BY <1>1, <2>1, <2>2, <2>3, BeginLedger DEF LedgerStep, Ledger!LedgerNext
<1>9. CASE ShowProgress \/ FlushNothing \/ CleanUp
  BY <1>4, <1>9 DEF ShowProgress, FlushNothing, CleanUp
<1> QED BY <1>6, <1>7, <1>8, <1>9 DEF EventLoop

-----------------------------------------------------------------------------
\* Whatever the user, the worker and the event loop do, runs are numbered in
\* the order they begin, at most one is in flight, and each is settled once, as
\* answered or as cancelled: AgentRun implements the safety part of RunLedger.
THEOREM LedgerImplemented == Spec => LedgerKept
<1>1. Init => Ledger!LedgerInit
  <2> SUFFICES ASSUME Init PROVE Ledger!LedgerInit
    OBVIOUS
  <2>1. runs = <<>> /\ active = 0
    BY DEF Init
  <2>2. [r \in DOMAIN runs |-> Outcome(runs[r])] = <<>>
    BY <2>1
  <2> QED BY <2>1, <2>2 DEF Ledger!LedgerInit
<1>2. Control /\ [Next]_vars => [Ledger!LedgerNext]_(Ledger!ledger)
  <2>1. UNCHANGED vars => UNCHANGED Ledger!ledger
    <3>1. UNCHANGED vars => UNCHANGED <<runs, active>>
      BY DEF vars
    <3> QED BY <3>1, SameLedger
  <2> QED BY <2>1, UserLedger, WorkerLedger, EventLoopLedger DEF LedgerStep, Next
<1> QED
  BY <1>1, <1>2, AlwaysControl, PTL DEF LedgerKept, Ledger!LedgerSafety, Spec

-----------------------------------------------------------------------------
(* The batch queue: BatchCoupled and BatchVerdictStable.                   *)

-----------------------------------------------------------------------------
(* Conversations are numbered for good: no operation shortens the list.    *)

Length(h) == Len(h.chats)

LEMMA LengthType ==
    ASSUME NEW h \in GoodHistories PROVE Length(h) \in Nat
BY DEF Length, GoodHistories, Histories

LEMMA WithTranscriptLength ==
    ASSUME NEW h \in GoodHistories, NEW c, NEW es
    PROVE  Length(WithTranscript(h, c, es)) = Length(h)
<1> DEFINE cs == [h.chats EXCEPT ![c].entries = es]
<1>1. h.chats \in Seq(Chats)
  BY DEF GoodHistories, Histories
<1>2. DOMAIN cs = DOMAIN h.chats /\ cs = [i \in DOMAIN h.chats |-> cs[i]]
  OBVIOUS
<1>3. DOMAIN cs = 1 .. Len(h.chats) /\ Len(h.chats) \in Nat
  BY <1>1, <1>2
<1>4. WithTranscript(h, c, es).chats = cs
  BY DEF WithTranscript, GoodHistories, Histories
<1> HIDE DEF cs
<1>5. Len(cs) = Len(h.chats)
  BY <1>3
<1> QED BY <1>4, <1>5 DEF Length

LEMMA EnsureChatLength ==
    ASSUME NEW h \in GoodHistories
    PROVE  Length(CreateChat(h)) = Length(h) + 1 /\ Length(h) <= Length(EnsureChat(h))
<1>1. /\ RegisterChats(h, 1) \in GoodHistories
      /\ Len(RegisterChats(h, 1).chats) = Len(h.chats) + 1
  BY RegisterChatsType
<1>2. Len(h.chats) + 1 \in Nat /\ Len(h.chats) \in Nat
  BY LengthType DEF Length
<1>3. Length(CreateChat(h)) = Length(h) + 1
  BY <1>1, <1>2, SelectType DEF CreateChat, Length
<1> QED BY <1>2, <1>3 DEF EnsureChat, Length

LEMMA RemoveChatsLength ==
    ASSUME NEW h \in GoodHistories, NEW gone
    PROVE  Length(RemoveChats(h, gone)) = Length(h)
<1> DEFINE left == h.open \ gone
           after == {c \in left : c > Smallest(gone \cap h.open)}
           cur == IF h.current \in left THEN h.current
                  ELSE IF left = {} THEN 0
                  ELSE IF after # {} THEN Smallest(after) ELSE Largest(left)
           cs == [c \in DOMAIN h.chats |->
                    IF c \in gone \cap h.open THEN [h.chats[c] EXCEPT !.entries = <<>>]
                    ELSE h.chats[c]]
<1>1. h.chats \in Seq(Chats)
  BY DEF GoodHistories, Histories
<1>2. RemoveChats(h, gone) = h
      \/ RemoveChats(h, gone) = [h EXCEPT !.chats = cs, !.open = left, !.current = cur]
  BY DEF RemoveChats, GoodHistories, Histories
<1> HIDE DEF left, cur
<1>3. DOMAIN cs = 1 .. Len(h.chats) /\ Len(h.chats) \in Nat
  BY <1>1
<1> HIDE DEF cs
<1>4. Len(cs) = Len(h.chats)
  BY <1>3
<1>5. [h EXCEPT !.chats = cs, !.open = left, !.current = cur].chats = cs
  BY DEF GoodHistories, Histories
<1> QED BY <1>2, <1>4, <1>5 DEF Length

LEMMA PruneEmptyLength ==
    ASSUME NEW h \in GoodHistories
    PROVE  Length(PruneEmpty(h)) = Length(h)
<1>1. PruneEmpty(h).chats = h.chats
  BY DEF PruneEmpty, GoodHistories, Histories
<1> QED BY <1>1 DEF Length

LEMMA OpenProjectLength ==
    ASSUME NEW h \in GoodHistories, NEW p \in Nat
    PROVE  Length(h) <= Length(OpenProject(h, p))
<1> DEFINE g == [h EXCEPT !.project = p, !.open = StoredIn(h, p)]
<1>1. /\ StoredIn(h, p) \in SUBSET (1 .. Len(h.chats)) /\ Len(h.chats) \in Nat
      /\ StoredIn(h, p) \in SUBSET Nat
  BY DEF StoredIn, GoodHistories, Histories
<1>2. g.chats = h.chats
  BY DEF GoodHistories, Histories
<1>3. g \in GoodHistories
  BY <1>1 DEF GoodHistories, Histories
<1> HIDE DEF g
<1>4. Length(CreateChat(g)) = Length(g) + 1 /\ Length(g) = Length(h)
  BY <1>2, <1>3, EnsureChatLength DEF Length
<1> QED BY <1>4, LengthType DEF OpenProject, g

LEMMA OpenBatchChatsLength ==
    ASSUME NEW h \in GoodHistories, NEW n \in Nat
    PROVE  Length(OpenBatchChats(h, n)) = Length(h) + n
<1>1. /\ RegisterChats(h, n) \in GoodHistories
      /\ Len(RegisterChats(h, n).chats) = Len(h.chats) + n
  BY RegisterChatsType
<1>2. Len(h.chats) + n \in Nat
  BY LengthType DEF Length
<1>3. Select(RegisterChats(h, n), Len(h.chats) + n).chats = RegisterChats(h, n).chats
  BY <1>1, <1>2, SelectType
<1>4. OpenBatchChats(h, n) = RegisterChats(h, n)
      \/ OpenBatchChats(h, n) = Select(RegisterChats(h, n), Len(h.chats) + n)
  BY DEF OpenBatchChats
<1> QED BY <1>1, <1>3, <1>4 DEF Length

\* The answer of a run may open a conversation, never close one.
LEMMA AnsweredLength ==
    ASSUME TypeOK, NEW r \in Nat
    PROVE  Length(history) <= Length(Answered(r))
<1> DEFINE c == runs[r].chat
           h == EnsureChat(history)
           e == [run |-> r, state |-> "answered", steps |-> 0]
<1>1. history \in GoodHistories
  BY HistoryGood
<1>2. h \in GoodHistories /\ Length(history) <= Length(h)
  BY <1>1, EnsureChatType, EnsureChatLength
<1>3. Length(SettleEntry(history, c, r, "answered")) = Length(history)
  BY <1>1, WithTranscriptLength DEF SettleEntry
<1>4. Length(AddEntry(h, h.current, e)) = Length(h)
  BY <1>2, WithTranscriptLength DEF AddEntry
<1>5. Length(history) \in Nat /\ Length(h) \in Nat
  BY <1>1, <1>2, LengthType
<1>6. \/ Answered(r) = SettleEntry(history, c, r, "answered")
      \/ Answered(r) = history
      \/ Answered(r) = AddEntry(h, h.current, e)
  BY DEF Answered
<1> QED BY <1>2, <1>3, <1>4, <1>5, <1>6

-----------------------------------------------------------------------------
(* The queue and the agent.                                                *)

Coupled ==
    /\ Numbered(batch, Length(history))
    /\ \/ Done(batch)
       \/ running /\ batch.mode = "none" /\ Working(batch, runs[active].chat)

\* A step that leaves the queue and the run it works for alone.
LEMMA QuietCoupled ==
    ASSUME TypeOK, TypeOK', Coupled, UNCHANGED batch,
           Length(history) <= Length(history'),
           \/ ~running
           \/ running' /\ UNCHANGED active /\ runs'[active].chat = runs[active].chat
    PROVE  Coupled'
<1>1. Length(history) \in Nat /\ Length(history)' \in Nat
  BY HistoryGood, LengthType DEF TypeOK, GoodHistories, Histories, Length
<1>2. Length(history)' = Length(history')
  BY DEF Length
<1>3. batch \in Batches
  BY DEF TypeOK
<1>4. Numbered(batch, Length(history)')
  BY <1>1, <1>2, <1>3, NumberedGrows DEF Coupled
<1>5. Done(batch) \/ (running' /\ batch.mode = "none" /\ Working(batch, runs'[active'].chat))
  BY DEF Coupled
<1> QED BY <1>4, <1>5 DEF Coupled, Numbered, Done, Working, Ordered

\* A run begins in conversation c of a history h.
LEMMA BeginLength ==
    ASSUME NEW rs \in Seq(Runs), NEW h \in GoodHistories, NEW c \in Nat, Begin(rs, h, c)
    PROVE  /\ Length(history') = Length(h)
           /\ runs'[active'].chat = c /\ running'
<1>1. runs' = Append(rs, NewRun(c)) /\ active' = Len(rs) + 1
  BY DEF Begin
<1>2. NewRun(c) \in Runs /\ NewRun(c).chat = c
  BY DEF NewRun, Runs, Stages
<1>3. runs'[active'] = NewRun(c)
  BY <1>1, <1>2
<1>4. Length(history') = Length(h)
  BY WithTranscriptLength DEF Begin, AddEntry
<1> QED BY <1>2, <1>3, <1>4 DEF Begin

\* What the runner decided is carried out.
LEMMA ProceedCoupled ==
    ASSUME NEW rs \in Seq(Runs), NEW h \in GoodHistories, NEW out \in Outcomes,
           Sound(out, Length(h)), Proceed(rs, h, 0, out)
    PROVE  Coupled'
<1> DEFINE g == OpenBatchChats(h, out.made)
<1>1. out.batch \in Batches /\ out.made \in Nat /\ out.chat \in Nat
  BY DEF Outcomes
<1>2. g \in GoodHistories /\ Length(g) = Length(h) + out.made
  BY <1>1, OpenBatchChatsType, OpenBatchChatsLength
<1>3. batch' = out.batch
  BY DEF Proceed
<1>4. CASE out.chat = 0
  <2>1. history' = g
    BY <1>4 DEF Proceed
  <2>2. Numbered(out.batch, Length(history')) /\ Done(out.batch)
    BY <1>2, <1>4, <2>1 DEF Sound
  <2> QED BY <1>3, <2>2 DEF Coupled, Numbered, Done, Length
<1>5. CASE out.chat # 0
  <2>1. Begin(rs, g, out.chat)
    BY <1>5 DEF Proceed
  <2> HIDE DEF g
  <2>2. Length(history') = Length(g) /\ runs'[active'].chat = out.chat /\ running'
    BY <1>1, <1>2, <2>1, BeginLength
  <2>3. Numbered(out.batch, Length(history'))
    BY <1>2, <2>2 DEF Sound
  <2>4. out.batch.mode = "none" /\ Working(out.batch, runs'[active'].chat)
    BY <1>5, <2>2 DEF Sound
  <2> QED BY <1>3, <2>2, <2>3, <2>4 DEF Coupled, Numbered, Working, Ordered, Length
<1> QED BY <1>4, <1>5

\* The queue b as a cancellation finds it, and what Stop, StopBatch and
\* AnswerClose make of the one they find.
Cancellable(b, c) ==
    \/ Done(b)
    \/ Working(b, c) /\ b.mode # "stop_all"
    \/ Winding(b, c)

LEMMA SkipCancellable ==
    ASSUME TypeOK, Coupled
    PROVE  LET b == RequestSkipCurrent(batch)
           IN  /\ Cancellable(b, runs[active].chat)
               /\ Numbered(b, Length(history))
               /\ Done(batch) => Done(b)
               /\ VerdictsKept(batch, b)
<1> DEFINE b == RequestSkipCurrent(batch)
<1>1. b.items = batch.items /\ b.running = batch.running
      /\ (batch.running => b.mode = "skip_current")
  BY DEF RequestSkipCurrent, TypeOK, Batches
<1> HIDE DEF b
<1>2. Numbered(b, Length(history))
  <2>1. Numbered(batch, Length(history))
    BY DEF Coupled
  <2> QED BY <1>1, <2>1 DEF Numbered
<1>3. Done(batch) => Cancellable(b, runs[active].chat)
  BY <1>1 DEF Done, Cancellable
<1>4. Working(batch, runs[active].chat) => Cancellable(b, runs[active].chat)
  BY <1>1 DEF Working, Ordered, Cancellable
<1>5. Cancellable(b, runs[active].chat)
  BY <1>3, <1>4 DEF Coupled
<1>6. (Done(batch) => Done(b)) /\ VerdictsKept(batch, b)
  BY <1>1 DEF Done, VerdictsKept
<1> QED BY <1>2, <1>5, <1>6 DEF b

LEMMA CancelAllCancellable ==
    ASSUME TypeOK, Coupled
    PROVE  LET b == CancelAll(batch)
           IN  /\ Done(b) \/ Winding(b, runs[active].chat)
               /\ Numbered(b, Length(history))
               /\ Done(batch) => Done(b)
               /\ VerdictsKept(batch, b)
<1> DEFINE its == [i \in DOMAIN batch.items |->
                     IF batch.items[i].status = "pending"
                     THEN [batch.items[i] EXCEPT !.status = "cancelled"]
                     ELSE batch.items[i]]
           b == CancelAll(batch)
<1>1. CASE batch.items = <<>>
  <2>1. b = batch
    BY <1>1 DEF CancelAll
  <2>2. Done(batch)
    BY <1>1 DEF Coupled, Working
  <2> QED BY <2>1, <2>2 DEF Coupled, VerdictsKept
<1>2. CASE batch.items # <<>>
  <2>1. \A i \in DOMAIN batch.items : batch.items[i] \in BatchItem
    BY ItemAt DEF TypeOK
  <2>2. b = [batch EXCEPT !.mode = "stop_all", !.items = its]
    BY <1>2 DEF CancelAll
  <2>3. ASSUME NEW i \in DOMAIN batch.items
        PROVE  /\ its[i].chat = batch.items[i].chat
               /\ batch.items[i].status # "pending" => its[i] = batch.items[i]
               /\ batch.items[i].status = "pending" => its[i].status = "cancelled"
    BY <2>1 DEF BatchItem
  <2>4. DOMAIN its = DOMAIN batch.items
    OBVIOUS
  <2> HIDE DEF its, b
  <2>5. b.items = its /\ b.mode = "stop_all" /\ b.running = batch.running
    BY <2>2 DEF TypeOK, Batches
  <2>6. Numbered(b, Length(history))
    <3>1. ASSUME NEW i \in DOMAIN its
          PROVE  /\ its[i].chat <= Length(history)
                 /\ its[i].status # "pending"
                 /\ its[i].status = "running" => its[i].chat # 0
      BY <2>3, <2>4 DEF Coupled, Numbered
    <3>2. \A i, j \in DOMAIN its : its[i].chat = its[j].chat /\ its[i].chat # 0 => i = j
      BY <2>3, <2>4 DEF Coupled, Numbered
    <3> QED BY <2>5, <3>1, <3>2 DEF Numbered
  <2>7. VerdictsKept(batch, b)
    BY <2>3, <2>4, <2>5 DEF VerdictsKept, Settled
  <2>8. Done(batch) => Done(b)
    BY <2>3, <2>4, <2>5 DEF Done, Settled
  <2>9. ASSUME Working(batch, runs[active].chat)
        PROVE  Winding(b, runs[active].chat)
    <3>1. PICK k \in DOMAIN batch.items :
             /\ batch.items[k].status = "running"
             /\ batch.items[k].chat = runs[active].chat /\ Ordered(batch, k)
      BY <2>9 DEF Working
    <3>2. \A j \in DOMAIN batch.items : j \in Nat
      BY ItemAt DEF TypeOK
    <3>3. ASSUME NEW j \in DOMAIN its, j # k PROVE its[j].status \in Settled
      <4>1. batch.items[j].status \in Settled \/ batch.items[j].status = "pending"
        BY <2>4, <3>1, <3>2, <3>3 DEF Ordered
      <4> QED BY <2>3, <2>4, <4>1 DEF Settled
    <3>4. its[k].status = "running" /\ its[k].chat = runs[active].chat /\ k \in DOMAIN its
      BY <2>3, <2>4, <3>1
    <3>5. runs[active].chat # 0
      BY <2>9 DEF Working
    <3> QED BY <2>5, <3>3, <3>4, <3>5 DEF Winding
  <2>10. Done(b) \/ Winding(b, runs[active].chat)
    BY <2>8, <2>9 DEF Coupled
  <2> QED BY <2>6, <2>7, <2>8, <2>10 DEF b
<1> QED BY <1>1, <1>2

\* A queue that is over, or that is cancelled as a whole, starts nothing.
LEMMA EndsSilently ==
    ASSUME NEW b \in Batches, NEW c, NEW base \in Nat, Numbered(b, base),
           NEW here \in Places, Done(b) \/ Winding(b, c),
           NEW out \in HandleCancellation(b, c, base, here)
    PROVE  out.chat = 0
<1>1. CASE ItemsOf(b, c) = {}
  BY <1>1 DEF HandleCancellation, NothingStarted
<1>2. CASE ItemsOf(b, c) # {}
  <2> DEFINE n(i) == [Mark(b, i, "cancelled") EXCEPT !.mode = "none"]
             off(i) == [n(i) EXCEPT !.running = FALSE]
  <2>1. PICK i \in ItemsOf(b, c) :
           IF b.mode = "stop_all" THEN out = NothingStarted(off(i))
           ELSE out \in Advance(n(i), base, here)
    BY <1>2 DEF HandleCancellation
  <2>2. CASE b.mode = "stop_all"
    BY <2>1, <2>2 DEF NothingStarted
  <2>3. CASE b.mode # "stop_all"
    <3>1. ~b.running
      BY <2>3 DEF Done, Winding
    <3>2. i \in DOMAIN b.items
      BY DEF ItemsOf
    <3>3. ~n(i).running
      <4>1. Mark(b, i, "cancelled") \in Batches /\ ~Mark(b, i, "cancelled").running
        BY <3>1, <3>2, MarkType DEF BatchItemStatus
      <4> QED BY <4>1 DEF Batches
    <3>4. out \in Advance(n(i), base, here)
      BY <2>1, <2>3
    <3> HIDE DEF n
    <3> QED BY <3>3, <3>4 DEF Advance, NothingStarted
  <2> QED BY <2>2, <2>3
<1> QED BY <1>1, <1>2

\* The active run is stopped while the queue is b.
LEMMA CancelRunCoupled ==
    ASSUME Control, Coupled, NEW b \in Batches, NEW closing \in BOOLEAN,
           Cancellable(b, runs[active].chat), Numbered(b, Length(history)),
           active = 0 => Done(b),
           CancelRun(b, closing),
           closing => Done(b) \/ Winding(b, runs[active].chat)
    PROVE  /\ Coupled'
           /\ Done(b) \/ VerdictsKept(b, batch') \/ (closing /\ batch' = Reset)
<1> DEFINE c == runs[active].chat
           h == IF c \in history.open /\ runs[active].attached
                THEN SettleEntry(history, c, active, "cancelled")
                ELSE history
           then(out) == IF closing THEN [out EXCEPT !.batch = Reset] ELSE out
<1>0. Done(Reset) /\ \A n \in Nat : Numbered(Reset, n)
  BY DEF Reset, Done, Numbered
<1>1. TypeOK /\ history \in GoodHistories /\ Length(history) \in Nat
  BY HistoryGood, LengthType DEF Control
<1>2. CASE active = 0
  <2>1. batch' = then(NothingStarted(b)).batch /\ UNCHANGED history
    BY <1>2 DEF CancelRun
  <2>2. batch' = IF closing THEN Reset ELSE b
    BY <2>1 DEF NothingStarted
  <2>3. Done(batch') /\ Numbered(batch', Length(history))
    BY <1>0, <1>1, <1>2, <2>2
  <2>4. Coupled'
    BY <2>1, <2>3 DEF Coupled, Done, Numbered, Length
  <2>5. Done(b)
    BY <1>2
  <2> QED BY <2>4, <2>5
<1>3. CASE active # 0
  <2>1. PICK out \in HandleCancellation(b, c, Len(h.chats), Here) :
           Proceed(Stopped(active), h, 0, then(out))
    BY <1>3 DEF CancelRun
  <2>2. h \in GoodHistories /\ Length(h) = Length(history)
    <3>1. /\ SettleEntry(history, c, active, "cancelled") \in GoodHistories
          /\ Length(SettleEntry(history, c, active, "cancelled")) = Length(history)
      BY <1>1, SettleEntryType, WithTranscriptLength DEF EntryStates, SettleEntry
    <3> QED BY <1>1, <3>1
  <2> HIDE DEF h, c
  <2>3. out \in HandleCancellation(b, c, Length(h), Here) /\ Length(h) \in Nat
    BY <2>1, <2>2, LengthType DEF Length
  <2>4. Here \in Places
    BY <1>1, HereType
  <2>5. Cancellable(b, c) /\ Numbered(b, Length(h))
    BY <2>2 DEF c
  <2>6. Sound(out, Length(h)) /\ (Done(b) \/ VerdictsKept(b, out.batch))
    BY <2>3, <2>4, <2>5, HandleCancellationSound DEF Cancellable
  <2>7. out \in Outcomes
    BY <2>3, <2>4, HandleCancellationType
  <2>8. then(out) \in Outcomes
    BY <2>7, ResetType DEF Outcomes
  <2>9. Stopped(active) \in Seq(Runs)
    BY <1>1, StoppedType DEF TypeOK
  <2>10. Sound(then(out), Length(h))
    <3>1. CASE ~closing
      BY <2>6, <3>1
    <3>2. CASE closing
      <4>1. out.chat = 0
        <5>1. Done(b) \/ Winding(b, c)
          BY <3>2 DEF c
        <5> QED BY <2>3, <2>4, <2>5, <5>1, EndsSilently
      <4>2. then(out).batch = Reset /\ then(out).chat = 0 /\ then(out).made = out.made
        BY <2>7, <3>2, <4>1 DEF Outcomes
      <4>3. Length(h) + out.made \in Nat
        BY <2>3, <2>7 DEF Outcomes
      <4> HIDE DEF then
      <4> QED BY <1>0, <4>2, <4>3 DEF Sound
    <3> QED BY <3>1, <3>2
  <2>11. Coupled'
    BY <2>1, <2>2, <2>8, <2>9, <2>10, ProceedCoupled
  <2>12. batch' = then(out).batch
    BY <2>1 DEF Proceed
  <2>13. batch' = IF closing THEN Reset ELSE out.batch
    BY <2>7, <2>12 DEF Outcomes
  <2> QED BY <2>6, <2>11, <2>13
<1> QED BY <1>2, <1>3

\* What a running queue decided is final.
Final == batch.running /\ Len(batch'.items) = Len(batch.items) =>
            VerdictsKept(batch, batch')

LEMMA KeptTrans ==
    ASSUME NEW b, NEW d, NEW e, VerdictsKept(b, d), VerdictsKept(d, e)
    PROVE  VerdictsKept(b, e)
BY DEF VerdictsKept

LEMMA UnchangedFinal == UNCHANGED batch => Final
BY DEF Final, VerdictsKept

\* The queue stays coupled, and its verdicts final, when the user acts ...
LEMMA UserCoupled ==
    Control /\ Control' /\ Coupled /\ User => Coupled' /\ Final
<1> SUFFICES ASSUME Control, Control', Coupled, User PROVE Coupled' /\ Final
  OBVIOUS
<1>1. /\ TypeOK /\ TypeOK' /\ history \in GoodHistories
      /\ Length(history) \in Nat /\ batch \in Batches
  BY HistoryGood, LengthType DEF Control, TypeOK
<1>2. active = 0 => Done(batch)
  BY DEF Control, Exclusive, SingleFlight, Coupled
<1>3. CASE SendNow
  <2> DEFINE h == EnsureChat(history)
  <2>1. ~running /\ UNCHANGED batch /\ Begin(runs, h, h.current)
    BY <1>3 DEF SendNow
  <2>2. h \in GoodHistories /\ h.current \in Nat /\ Length(history) <= Length(h)
    BY <1>1, EnsureChatType, EnsureChatLength
  <2> HIDE DEF h
  <2>3. Length(history') = Length(h)
    BY <1>1, <2>1, <2>2, BeginLength DEF TypeOK
  <2> QED BY <1>1, <2>1, <2>2, <2>3, QuietCoupled, UnchangedFinal
<1>4. CASE SendLater
  <2>1. Length(history) <= Length(history')
    BY <1>1, <1>4, EnsureChatLength DEF SendLater
  <2> QED BY <1>1, <1>4, <2>1, QuietCoupled, UnchangedFinal DEF SendLater
<1>5. CASE CancelQueued
  BY <1>1, <1>5, QuietCoupled, UnchangedFinal DEF CancelQueued
<1>6. CASE Stop
  <2> DEFINE b == RequestSkipCurrent(batch)
  <2>1. /\ b \in Batches /\ Cancellable(b, runs[active].chat)
        /\ Numbered(b, Length(history)) /\ VerdictsKept(batch, b)
        /\ Done(batch) => Done(b)
        /\ b.running = batch.running
    BY <1>1, RequestSkipCurrentType, SkipCancellable
  <2>2. CancelRun(b, FALSE)
    BY <1>6 DEF Stop
  <2> HIDE DEF b
  <2>3. Coupled' /\ (Done(b) \/ VerdictsKept(b, batch'))
    BY <1>2, <2>1, <2>2, CancelRunCoupled
  <2> QED BY <2>1, <2>3, KeptTrans DEF Final, Done
<1>7. CASE Regenerate
  <2> DEFINE h == DropLastEntry(history, history.current)
  <2>1. /\ ~running /\ UNCHANGED batch /\ history.current \in history.open
        /\ HasEntries(history, history.current)
        /\ Begin(runs, h, history.current)
    BY <1>7 DEF Regenerate
  <2>2. history.current \in DOMAIN history.chats /\ history.current \in Nat
    BY <1>1, <2>1 DEF GoodHistories, Histories
  <2>3. h \in GoodHistories /\ Length(h) = Length(history)
    BY <1>1, <2>1, <2>2, DropLastEntryType, WithTranscriptLength DEF DropLastEntry
  <2> HIDE DEF h
  <2>4. Length(history') = Length(h)
    BY <1>1, <2>1, <2>2, <2>3, BeginLength DEF TypeOK
  <2> QED BY <1>1, <2>1, <2>3, <2>4, QuietCoupled, UnchangedFinal
<1>8. CASE NewChat
  <2>1. Length(history) <= Length(history')
    BY <1>1, <1>8, EnsureChatLength DEF NewChat
  <2> QED BY <1>1, <1>8, <2>1, QuietCoupled, UnchangedFinal DEF NewChat
<1>9. CASE SelectChat
  <2>1. PICK c \in history.open : history' = Select(history, c)
    BY <1>9 DEF SelectChat
  <2>2. Length(history') = Length(history)
    BY <1>1, <2>1, SelectType DEF Length, GoodHistories, Histories
  <2> QED BY <1>1, <1>9, <2>2, QuietCoupled, UnchangedFinal DEF SelectChat
<1>10. CASE AskDelete
  BY <1>1, <1>10, QuietCoupled, UnchangedFinal DEF AskDelete
<1>11. CASE AnswerDelete
  <2>1. Length(history) <= Length(history')
    BY <1>1, <1>11, RemoveChatsLength DEF AnswerDelete
  <2> QED BY <1>1, <1>11, <2>1, QuietCoupled, UnchangedFinal DEF AnswerDelete
<1>12. CASE StartBatch
  <2>1. PICK n \in 1 .. MaxTargets : \E out \in Start(n, Len(history.chats), Here) :
           Proceed(runs, history, 0, out)
    BY <1>12 DEF StartBatch
  <2>2. PICK out \in Start(n, Len(history.chats), Here) : Proceed(runs, history, 0, out)
    BY <2>1
  <2>3. n \in Nat \ {0} /\ Here \in Places
    BY <1>1, HereType, BoundsAssumption
  <2>4. out \in Outcomes /\ Sound(out, Length(history))
    BY <1>1, <2>2, <2>3, StartType, StartSound DEF Length
  <2>5. Coupled'
    BY <1>1, <2>2, <2>4, ProceedCoupled DEF TypeOK
  <2> QED BY <1>12, <2>5 DEF StartBatch, Final
<1>13. CASE StopBatch
  <2> DEFINE b == CancelAll(batch)
  <2>1. /\ b \in Batches /\ Numbered(b, Length(history)) /\ VerdictsKept(batch, b)
        /\ Done(batch) => Done(b)
        /\ Done(b) \/ Winding(b, runs[active].chat)
        /\ b.running = batch.running
    BY <1>1, CancelAllType, CancelAllCancellable
  <2>2. CancelRun(b, FALSE)
    BY <1>13 DEF StopBatch
  <2> HIDE DEF b
  <2>3. Coupled' /\ (Done(b) \/ VerdictsKept(b, batch'))
    BY <1>2, <2>1, <2>2, CancelRunCoupled DEF Cancellable
  <2> QED BY <2>1, <2>3, KeptTrans DEF Final, Done
<1>14. CASE CloseBatch
  <2>1. batch' = Reset /\ UNCHANGED history /\ ~batch.running
    BY <1>14 DEF CloseBatch
  <2>2. Numbered(Reset, Length(history)) /\ Done(Reset)
    BY DEF Reset, Numbered, Done
  <2>3. Coupled'
    BY <2>1, <2>2 DEF Coupled, Numbered, Done, Length
  <2> QED BY <2>1, <2>3 DEF Final
<1>15. CASE AskClose
  BY <1>1, <1>15, QuietCoupled, UnchangedFinal DEF AskClose
<1>16. CASE AnswerClose
  <2>1. CASE CancelRun(CancelAll(batch), TRUE)
    <3> DEFINE b == CancelAll(batch)
    <3>1. /\ b \in Batches /\ Numbered(b, Length(history)) /\ VerdictsKept(batch, b)
          /\ Done(batch) => Done(b)
          /\ Done(b) \/ Winding(b, runs[active].chat)
          /\ b.running = batch.running
      BY <1>1, CancelAllType, CancelAllCancellable
    <3>2. CancelRun(b, TRUE)
      BY <2>1
    <3> HIDE DEF b
    <3>3. Coupled' /\ (Done(b) \/ VerdictsKept(b, batch') \/ batch' = Reset)
      BY <1>2, <3>1, <3>2, CancelRunCoupled DEF Cancellable
    <3>4. batch' = Reset => Final
      <4>1. Len(Reset.items) = 0 /\ DOMAIN Reset.items = {}
        BY DEF Reset
      <4>2. Len(batch.items) = 0 => DOMAIN batch.items = {}
        BY <1>1 DEF Batches
      <4> QED BY <4>1, <4>2 DEF Final, VerdictsKept
    <3> QED BY <3>1, <3>3, <3>4, KeptTrans DEF Final, Done
  <2>2. CASE UNCHANGED <<runs, active, running, gui, history, batch>>
    BY <1>1, <2>2, QuietCoupled, UnchangedFinal
  <2> QED BY <1>16, <2>1, <2>2 DEF AnswerClose
<1>17. CASE SelectDocument
  BY <1>1, <1>17, QuietCoupled, UnchangedFinal DEF SelectDocument
<1>18. CASE SwitchProject
  <2>1. PICK p \in (1 .. NumProjects) : history' = OpenProject(history, p)
    BY <1>18 DEF SwitchProject
  <2>2. Length(history) <= Length(history')
    BY <1>1, <2>1, OpenProjectLength
  <2>3. /\ runs' = [r \in DOMAIN runs |-> [runs[r] EXCEPT !.attached = FALSE]]
        /\ UNCHANGED <<active, running, batch>>
    BY <1>18 DEF SwitchProject
  <2>4. ASSUME running PROVE runs'[active].chat = runs[active].chat
    <3>1. active \in DOMAIN runs
      BY <2>4 DEF Control, Exclusive, SingleFlight
    <3>2. runs[active] \in Runs
      BY <1>1, <3>1, RunAt
    <3> QED BY <2>3, <3>1, <3>2 DEF Runs
  <2> QED BY <1>1, <2>2, <2>3, <2>4, QuietCoupled, UnchangedFinal
<1> QED
  BY <1>3, <1>4, <1>5, <1>6, <1>7, <1>8, <1>9, <1>10, <1>11, <1>12, <1>13, <1>14,
     <1>15, <1>16, <1>17, <1>18 DEF User

\* ... when the worker does ...
LEMMA WorkerCoupled ==
    Control /\ Control' /\ Coupled /\ Worker => Coupled' /\ Final
<1> SUFFICES ASSUME Control, Control', Coupled, Worker PROVE Coupled' /\ Final
  OBVIOUS
<1>1. TypeOK /\ TypeOK' /\ Length(history) \in Nat
  BY HistoryGood, LengthType DEF Control
<1>2. UNCHANGED <<active, running, history, batch>>
  BY DEF Worker, Execute, ReportProgress, Return
<1>3. PICK r \in DOMAIN runs :
         \/ \E t : runs' = [runs EXCEPT ![r].stage = t]
         \/ runs' = [runs EXCEPT ![r].sent = @ + 1]
  BY DEF Worker, Execute, ReportProgress, Return
<1>4. \A s \in DOMAIN runs : runs[s] \in Runs
  BY <1>1, RunAt
<1>5. \A s \in DOMAIN runs : runs'[s].chat = runs[s].chat
  <2>1. CASE \E t : runs' = [runs EXCEPT ![r].stage = t]
    <3>1. PICK t : runs' = [runs EXCEPT ![r].stage = t]
      BY <2>1
    <3> QED BY <1>4, <3>1 DEF Runs
  <2>2. CASE runs' = [runs EXCEPT ![r].sent = @ + 1]
    BY <1>4, <2>2 DEF Runs
  <2> QED BY <1>3, <2>1, <2>2
<1>6. running => active \in DOMAIN runs
  BY DEF Control, Exclusive, SingleFlight
<1> QED BY <1>1, <1>2, <1>5, <1>6, QuietCoupled, UnchangedFinal

\* ... and when a callback is executed.
LEMMA EventLoopCoupled ==
    Control /\ Control' /\ Coupled /\ EventLoop => Coupled' /\ Final
<1> SUFFICES ASSUME Control, Control', Coupled, EventLoop PROVE Coupled' /\ Final
  OBVIOUS
<1>1. /\ TypeOK /\ TypeOK' /\ history \in GoodHistories
      /\ Length(history) \in Nat /\ batch \in Batches
  BY HistoryGood, LengthType DEF Control, TypeOK
<1>2. gui # <<>>
  BY DEF EventLoop, DropAnswer, ShowAnswer, ShowProgress, FlushNothing,
         FlushPrompt, CleanUp, Turn
<1> DEFINE r == Head(gui).run
<1>3. ASSUME Turn("finalize")
      PROVE  r \in DOMAIN runs /\ runs[r].stage = "posted" /\ runs[r] \in Runs
  <2>1. 1 \in DOMAIN gui /\ IsAnswer(gui, 1, r)
    BY <1>1, <1>2, <1>3, TailIs DEF Turn, IsAnswer, TypeOK
  <2>2. Delivery(runs, gui)
    BY DeliveryIs DEF Control
  <2>3. r \in DOMAIN runs
    BY <2>1, <2>2 DEF Delivery, IsAnswer
  <2> QED BY <1>1, <2>1, <2>2, <2>3, RunAt DEF Delivery
<1>4. CASE DropAnswer
  <2>1. /\ Turn("finalize") /\ runs' = [runs EXCEPT ![r].stage = "over"]
        /\ UNCHANGED <<active, running, history, batch>>
    BY <1>4 DEF DropAnswer
  <2>2. r \in DOMAIN runs
    BY <1>3, <2>1
  <2> HIDE DEF r
  <2>3. \A s \in DOMAIN runs : runs'[s].chat = runs[s].chat
    <3>1. \A s \in DOMAIN runs : runs[s] \in Runs
      BY <1>1, RunAt
    <3> QED BY <2>1, <2>2, <3>1 DEF Runs
  <2>4. running => active \in DOMAIN runs
    BY DEF Control, Exclusive, SingleFlight
  <2> QED BY <1>1, <2>1, <2>3, <2>4, QuietCoupled, UnchangedFinal
<1>5. CASE ShowAnswer
  <2> DEFINE rs == [runs EXCEPT ![r].stage = "over", ![r].pending = FALSE]
             h == Answered(r)
  <2>1. Turn("finalize") /\ ~runs[r].cancelled
    BY <1>5 DEF ShowAnswer
  <2>2. r \in DOMAIN runs /\ runs[r].stage = "posted" /\ runs[r] \in Runs
    BY <1>3, <2>1
  <2>3. active = r
    BY <2>1, <2>2 DEF Control, Exclusive, NoUnownedWork
  <2>4. PICK out \in HandleCompletion(batch, runs[r].chat, Head(gui).ok,
                                      Len(h.chats), Here) : Proceed(rs, h, 0, out)
    BY <1>5, <2>3 DEF ShowAnswer
  <2>5. r \in Nat /\ Head(gui).ok \in BOOLEAN
    BY <1>1, <1>2, TurnType DEF Callbacks
  <2> HIDE DEF r
  <2>6. h \in GoodHistories /\ Length(history) <= Length(h) /\ Length(h) \in Nat
    BY <1>1, <2>5, AnsweredType, AnsweredLength, LengthType
  <2>7. rs \in Seq(Runs)
    <3> DEFINE new == [runs[r] EXCEPT !.stage = "over", !.pending = FALSE]
    <3>1. new \in Runs
      BY <2>2 DEF Runs, Stages
    <3>2. rs = [runs EXCEPT ![r] = new]
      BY <1>1, <2>2 DEF TypeOK
    <3> HIDE DEF new, rs
    <3> QED BY <1>1, <2>2, <3>1, <3>2, RunUpdateType
  <2> HIDE DEF rs, h
  <2>8. out \in HandleCompletion(batch, runs[r].chat, Head(gui).ok, Length(h), Here)
        /\ Here \in Places
    BY <1>1, <2>4, HereType DEF Length
  <2>9. out \in Outcomes
    BY <1>1, <2>5, <2>6, <2>8, HandleCompletionType
  <2>10. Numbered(batch, Length(h))
    BY <1>1, <2>6, NumberedGrows DEF Coupled
  <2>11. Done(batch) \/ (Working(batch, runs[r].chat) /\ batch.mode = "none")
    BY <2>3 DEF Coupled
  <2>12. /\ Sound(out, Length(h))
         /\ Working(batch, runs[r].chat) => VerdictsKept(batch, out.batch)
    BY <1>1, <2>5, <2>6, <2>8, <2>10, <2>11, HandleCompletionSound
  <2>13. Coupled'
    BY <2>4, <2>6, <2>7, <2>9, <2>12, ProceedCoupled
  <2>14. batch' = out.batch
    BY <2>4 DEF Proceed
  <2> QED BY <2>11, <2>12, <2>13, <2>14 DEF Final, Done
<1>6. CASE ShowProgress
  <2>1. Length(history') = Length(history)
    BY <1>1, <1>6, WithTranscriptLength DEF ShowProgress, StreamEntry
  <2> QED BY <1>1, <1>6, <2>1, QuietCoupled, UnchangedFinal DEF ShowProgress
<1>7. CASE FlushNothing
  BY <1>1, <1>7, QuietCoupled, UnchangedFinal DEF FlushNothing
<1>8. CASE FlushPrompt
  <2>1. PICK k \in DOMAIN promptQueue :
           Begin(runs, Select(history, promptQueue[k]), promptQueue[k])
    BY <1>8 DEF FlushPrompt
  <2>2. ~running /\ UNCHANGED batch
    BY <1>8 DEF FlushPrompt
  <2>3. promptQueue[k] \in Nat
    BY <1>1 DEF TypeOK
  <2>4. Select(history, promptQueue[k]) \in GoodHistories
        /\ Length(Select(history, promptQueue[k])) = Length(history)
    BY <1>1, <2>3, SelectType DEF Length
  <2>5. Length(history') = Length(history)
    BY <1>1, <2>1, <2>3, <2>4, BeginLength DEF TypeOK
  <2> QED BY <1>1, <2>2, <2>5, QuietCoupled, UnchangedFinal
<1>9. CASE CleanUp
  <2>1. Length(history') = Length(history)
    BY <1>1, <1>9, PruneEmptyLength DEF CleanUp
  <2> QED BY <1>1, <1>9, <2>1, QuietCoupled, UnchangedFinal DEF CleanUp
<1> QED BY <1>4, <1>5, <1>6, <1>7, <1>8, <1>9 DEF EventLoop

-----------------------------------------------------------------------------
LEMMA InitCoupled == Init => Coupled
<1> SUFFICES ASSUME Init PROVE Coupled
  OBVIOUS
<1>1. batch = Reset
  BY DEF Init
<1>2. Numbered(Reset, Length(history)) /\ Done(Reset)
  BY DEF Reset, Numbered, Done
<1> QED BY <1>1, <1>2 DEF Coupled

LEMMA NextCoupled == Control /\ Control' /\ Coupled /\ [Next]_vars => Coupled' /\ Final
<1> SUFFICES ASSUME Control, Control', Coupled, [Next]_vars PROVE Coupled' /\ Final
  OBVIOUS
<1>1. CASE Next
  BY <1>1, UserCoupled, WorkerCoupled, EventLoopCoupled DEF Next
<1>2. CASE UNCHANGED vars
  BY <1>2, UnchangedFinal DEF vars, Coupled, Numbered, Done, Working, Ordered, Length
<1> QED BY <1>1, <1>2

LEMMA AlwaysCoupled == Spec => []Coupled
BY AlwaysControl, InitCoupled, NextCoupled, PTL DEF Spec

\* A batch runs exactly while the active run works for one of its items; the
\* items before that one are settled and those after it have not begun, and
\* no cancel mode is left over.  No chat prompt, failed context, stop or close
\* question gets them out of step.
THEOREM BatchInStep == Spec => []BatchCoupled
<1>1. Control /\ Coupled => BatchCoupled
  <2> SUFFICES ASSUME Control, Coupled PROVE BatchCoupled
    OBVIOUS
  <2>1. batch.items \in Seq(BatchItem)
    BY DEF Control, TypeOK, Batches
  <2>2. DOMAIN batch.items = 1 .. Len(batch.items) /\ Len(batch.items) \in Nat
    BY <2>1
  <2>3. CASE Done(batch)
    BY <2>3 DEF Done, BatchCoupled
  <2>4. CASE running /\ batch.mode = "none" /\ Working(batch, runs[active].chat)
    <3>1. PICK k \in DOMAIN batch.items :
             /\ batch.items[k].status = "running"
             /\ batch.items[k].chat = runs[active].chat /\ Ordered(batch, k)
      BY <2>4 DEF Working
    <3>2. /\ \A j \in 1 .. (k - 1) : j \in DOMAIN batch.items /\ j < k
          /\ \A j \in (k + 1) .. Len(batch.items) : j \in DOMAIN batch.items /\ j > k
      BY <2>2
    <3> QED BY <2>4, <3>1, <3>2 DEF BatchCoupled, Working, Ordered
  <2> QED BY <2>3, <2>4 DEF Coupled
<1> QED BY <1>1, AlwaysControl, AlwaysCoupled, PTL

\* An item a running queue is done with keeps its verdict.
THEOREM VerdictsAreFinal == Spec => BatchVerdictStable
<1> DEFINE Stable == batch.running /\ Len(batch'.items) = Len(batch.items) =>
              \A i \in DOMAIN batch.items :
                 batch.items[i].status \in Settled => batch'.items[i] = batch.items[i]
<1>1. Final => Stable
  BY DEF Final, VerdictsKept
<1> HIDE DEF Stable
<1>2. Control /\ Control' /\ Coupled /\ [Next]_vars => [Stable]_vars
  BY <1>1, NextCoupled
<1>3. Spec => [][Stable]_vars
  BY <1>2, AlwaysControl, AlwaysCoupled, PTL DEF Spec
<1> QED BY <1>3 DEF BatchVerdictStable, Stable
=============================================================================
