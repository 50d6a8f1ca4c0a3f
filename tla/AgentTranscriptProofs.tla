----------------------- MODULE AgentTranscriptProofs ------------------------
(***************************************************************************)
(* The transcript and the agent agree: WorkingIsInFlight,                  *)
(* SettledEntryIsFinal and, in one project, AnswerRecorded hold of         *)
(* AgentRun.                                                               *)
(*                                                                         *)
(* An entry and the run that writes it find each other by the run's number *)
(* and its conversation.  What makes that sound is that a conversation     *)
(* holds at most one entry of a run (Single), that an entry still working  *)
(* is in the conversation of its run (Owned), that a run in flight settled *)
(* none (InFlight), and that a conversation closed under it lost its       *)
(* entries (Shown).                                                        *)
(***************************************************************************)
EXTENDS AgentControlProofs

Known(h, rs) ==
    \A c \in DOMAIN h.chats : \A k \in DOMAIN Transcript(h, c) :
        Transcript(h, c)[k].run \in 0 .. Len(rs)

Single(h) ==
    \A c \in DOMAIN h.chats : \A k, l \in DOMAIN Transcript(h, c) :
        Transcript(h, c)[k].run # 0 /\ Transcript(h, c)[k].run = Transcript(h, c)[l].run
            => k = l

Owned(h, rs, a) ==
    \A c \in DOMAIN h.chats : \A k \in DOMAIN Transcript(h, c) :
        LET e == Transcript(h, c)[k]
        IN  e.state = "working" =>
                e.run # 0 /\ rs[e.run].chat = c /\ (rs[e.run].attached => e.run = a)

InFlight(h, a) ==
    \A c \in DOMAIN h.chats : \A k \in DOMAIN Transcript(h, c) :
        a # 0 /\ Transcript(h, c)[k].run = a => Transcript(h, c)[k].state = "working"

\* The transcripts of h when the handles are rs and the one of run a is active.
Transcripts(h, rs, a) ==
    Known(h, rs) /\ Single(h) /\ Owned(h, rs, a) /\ InFlight(h, a)

\* The run in flight has its entry, unless its conversation was deleted.
Shown(h, rs, a) ==
    a # 0 /\ rs[a].attached =>
        LET c == rs[a].chat
        IN  /\ c \in DOMAIN h.chats
            /\ c \in h.open =>
                  \E k \in DOMAIN Transcript(h, c) : Transcript(h, c)[k].run = a
            /\ c \notin h.open => Transcript(h, c) = <<>>

\* From h to g no entry of a run among the first n is added or changed, but
\* for those of run a.
Kept(h, g, n, a) ==
    \A c \in DOMAIN h.chats : \A r \in 1 .. n :
        r # a => EntriesOf(g, c, r) \subseteq EntriesOf(h, c, r)

\* From h to g no entry is lost or changed.
Grows(h, g) ==
    \A c \in DOMAIN h.chats :
        /\ c \in DOMAIN g.chats
        /\ \A k \in DOMAIN Transcript(h, c) :
              /\ k \in DOMAIN Transcript(g, c)
              /\ Transcript(g, c)[k] = Transcript(h, c)[k]

-----------------------------------------------------------------------------
(* Operations that create, select, close and empty conversations.          *)

\* From h to g conversations are added, empty, and closed, without entries.
Rearranged(h, g) ==
    /\ \A c \in DOMAIN h.chats : c \in DOMAIN g.chats
    /\ \A c \in DOMAIN g.chats :
          \/ Transcript(g, c) = <<>>
          \/ c \in DOMAIN h.chats /\ Transcript(g, c) = Transcript(h, c)
    /\ \A c \in DOMAIN h.chats :
          \/ /\ c \in g.open <=> c \in h.open
             /\ Transcript(g, c) = Transcript(h, c)
          \/ c \notin g.open /\ Transcript(g, c) = <<>>

LEMMA RearrangedTranscripts ==
    ASSUME NEW h, NEW g, NEW rs, NEW a, Rearranged(h, g),
           Transcripts(h, rs, a), Shown(h, rs, a)
    PROVE  Transcripts(g, rs, a) /\ Shown(g, rs, a)
<1>1. \A c \in DOMAIN g.chats : \A k \in DOMAIN Transcript(g, c) :
         c \in DOMAIN h.chats /\ Transcript(g, c) = Transcript(h, c)
  BY DEF Rearranged
<1>2. Known(g, rs) /\ Single(g) /\ Owned(g, rs, a) /\ InFlight(g, a)
  BY <1>1 DEF Transcripts, Known, Single, Owned, InFlight
<1>3. Shown(g, rs, a)
  BY DEF Shown, Rearranged
<1> QED BY <1>2, <1>3 DEF Transcripts

LEMMA RearrangedKept ==
    ASSUME NEW h, NEW g, Rearranged(h, g), NEW n, NEW a
    PROVE  Kept(h, g, n, a)
<1> SUFFICES ASSUME NEW c \in DOMAIN h.chats, NEW r,
                    NEW k \in DOMAIN g.chats[c].entries, g.chats[c].entries[k].run = r
             PROVE  g.chats[c].entries[k] \in EntriesOf(h, c, r)
  BY DEF Kept, EntriesOf
<1>1. g.chats[c].entries = h.chats[c].entries
  BY DEF Rearranged, Transcript
<1> QED BY <1>1 DEF EntriesOf

LEMMA ChatsOf ==
    ASSUME NEW h \in GoodHistories
    PROVE  /\ h.chats \in Seq(Chats) /\ Len(h.chats) \in Nat
           /\ DOMAIN h.chats = 1 .. Len(h.chats)
           /\ h.open \subseteq DOMAIN h.chats /\ h.open \subseteq Nat
           /\ \A c \in DOMAIN h.chats : Transcript(h, c) \in Seq(Entries)
<1>1. h.chats \in Seq(Chats) /\ h.open \subseteq 1 .. Len(h.chats)
  BY DEF GoodHistories, Histories
<1> QED BY <1>1, TranscriptType

LEMMA RegisterChatsIs ==
    ASSUME NEW h \in GoodHistories, NEW n \in Nat
    PROVE  /\ Rearranged(h, RegisterChats(h, n)) /\ Grows(h, RegisterChats(h, n))
           /\ \A i \in (Len(h.chats) + 1) .. (Len(h.chats) + n) :
                 i \in RegisterChats(h, n).open
<1> DEFINE g == RegisterChats(h, n)
           new == NewChats(h, n)
           m == Len(h.chats)
<1>1. new \in Seq(Chats) /\ Len(new) = n
      /\ \A i \in 1 .. n : new[i].entries = <<>>
  BY DEF NewChats, Chats, GoodHistories, Histories
<1> HIDE DEF new
<1>2. g.chats = h.chats \o new /\ g.open = h.open \cup (m + 1) .. (m + n)
  BY DEF RegisterChats, GoodHistories, Histories, new
<1>3. h.chats \in Seq(Chats) /\ m \in Nat /\ DOMAIN h.chats = 1 .. m
      /\ h.open \subseteq 1 .. m
  BY ChatsOf
<1> HIDE DEF g, m
<1>4. DOMAIN g.chats = 1 .. (m + n)
  <2>1. h.chats \o new \in Seq(Chats) /\ Len(h.chats \o new) = m + n
    BY <1>1, <1>3 DEF m
  <2> QED BY <1>2, <2>1
<1>5. \A c \in 1 .. m : g.chats[c] = h.chats[c]
  BY <1>1, <1>2, <1>3 DEF m
<1>6. \A c \in (m + 1) .. (m + n) : g.chats[c].entries = <<>>
  <2> SUFFICES ASSUME NEW c \in (m + 1) .. (m + n) PROVE g.chats[c].entries = <<>>
    OBVIOUS
  <2>1. g.chats[c] = new[c - m] /\ c - m \in 1 .. n
    BY <1>1, <1>2, <1>3 DEF m
  <2> QED BY <1>1, <2>1
<1>7. \A c \in 1 .. m : c \in g.open <=> c \in h.open
  BY <1>2, <1>3
<1>8. Rearranged(h, g)
  <2>1. \A c \in 1 .. (m + n) : c \in 1 .. m \/ c \in (m + 1) .. (m + n)
    BY <1>3
  <2>2. \A c \in 1 .. m : c \in 1 .. (m + n)
    BY <1>3
  <2> QED BY <1>3, <1>4, <1>5, <1>6, <1>7, <2>1, <2>2 DEF Rearranged, Transcript
<1>9. Grows(h, g)
  <2>2. \A c \in 1 .. m : c \in 1 .. (m + n)
    BY <1>3
  <2> QED BY <1>3, <1>4, <1>5, <2>2 DEF Grows, Transcript
<1> QED BY <1>2, <1>8, <1>9 DEF g, m

LEMMA SelectIs ==
    ASSUME NEW h \in GoodHistories, NEW g \in GoodHistories, NEW c \in Nat
    PROVE  /\ Rearranged(h, g) => Rearranged(h, Select(g, c))
           /\ Grows(h, g) => Grows(h, Select(g, c))
BY SelectType DEF Rearranged, Grows, Transcript

LEMMA SameIs ==
    ASSUME NEW h
    PROVE  Rearranged(h, h) /\ Grows(h, h)
BY DEF Rearranged, Grows

LEMMA CreateChatIs ==
    ASSUME NEW h \in GoodHistories
    PROVE  /\ Rearranged(h, CreateChat(h)) /\ Grows(h, CreateChat(h))
           /\ Rearranged(h, EnsureChat(h)) /\ Grows(h, EnsureChat(h))
           /\ CreateChat(h).current \notin DOMAIN h.chats
<1>1. Rearranged(h, RegisterChats(h, 1)) /\ Grows(h, RegisterChats(h, 1))
      /\ RegisterChats(h, 1) \in GoodHistories
  BY RegisterChatsIs, RegisterChatsType
<1>2. Len(h.chats) + 1 \in Nat /\ Len(h.chats) + 1 \notin DOMAIN h.chats
  BY ChatsOf
<1>3. Rearranged(h, CreateChat(h)) /\ Grows(h, CreateChat(h))
      /\ CreateChat(h).current = Len(h.chats) + 1
  BY <1>1, <1>2, SelectIs, SelectType DEF CreateChat
<1> QED BY <1>2, <1>3, SameIs DEF EnsureChat

LEMMA OpenBatchChatsIs ==
    ASSUME NEW h \in GoodHistories, NEW n \in Nat
    PROVE  /\ Rearranged(h, OpenBatchChats(h, n)) /\ Grows(h, OpenBatchChats(h, n))
           /\ \A i \in (Len(h.chats) + 1) .. (Len(h.chats) + n) :
                 i \in OpenBatchChats(h, n).open
<1> DEFINE g == RegisterChats(h, n)
<1>1. Rearranged(h, g) /\ Grows(h, g) /\ g \in GoodHistories
      /\ \A i \in (Len(h.chats) + 1) .. (Len(h.chats) + n) : i \in g.open
  BY RegisterChatsIs, RegisterChatsType
<1>2. Len(h.chats) + n \in Nat
  BY ChatsOf
<1>3. OpenBatchChats(h, n) = g \/ OpenBatchChats(h, n) = Select(g, Len(h.chats) + n)
  BY DEF OpenBatchChats
<1> HIDE DEF g
<1>4. Rearranged(h, Select(g, Len(h.chats) + n)) /\ Grows(h, Select(g, Len(h.chats) + n))
      /\ Select(g, Len(h.chats) + n).open = g.open
  BY <1>1, <1>2, SelectIs, SelectType
<1> QED BY <1>1, <1>3, <1>4

LEMMA RemoveChatsIs ==
    ASSUME NEW h \in GoodHistories, NEW gone
    PROVE  Rearranged(h, RemoveChats(h, gone))
<1> DEFINE left == h.open \ gone
           cs == [c \in DOMAIN h.chats |->
                    IF c \in gone \cap h.open THEN [h.chats[c] EXCEPT !.entries = <<>>]
                    ELSE h.chats[c]]
           g == RemoveChats(h, gone)
<1>1. g = h \/ (g.chats = cs /\ g.open = left)
  BY DEF RemoveChats, GoodHistories, Histories
<1>2. \A c \in DOMAIN h.chats : h.chats[c] \in Chats
  BY ChatsOf
<1>3. \A c \in DOMAIN h.chats : c \in gone \cap h.open => cs[c].entries = <<>>
  BY <1>2 DEF Chats
<1>4. \A c \in DOMAIN h.chats : c \notin gone \cap h.open => cs[c] = h.chats[c]
  OBVIOUS
<1>5. DOMAIN cs = DOMAIN h.chats
  OBVIOUS
<1> HIDE DEF cs, g
<1>6. CASE g.chats = cs /\ g.open = left
  <2> SUFFICES Rearranged(h, g)
    BY DEF g
  <2>1. \A c \in DOMAIN h.chats :
           \/ (c \in g.open <=> c \in h.open) /\ g.chats[c].entries = h.chats[c].entries
           \/ c \notin g.open /\ g.chats[c].entries = <<>>
    BY <1>3, <1>4, <1>6
  <2> QED BY <1>5, <1>6, <2>1 DEF Rearranged, Transcript
<1> QED BY <1>1, <1>6, SameIs DEF g

LEMMA PruneEmptyIs ==
    ASSUME NEW h \in GoodHistories
    PROVE  Rearranged(h, PruneEmpty(h))
<1> DEFINE full == {c \in h.open : HasEntries(h, c)}
           kept == IF full = {} THEN {Largest(h.open)} ELSE full
           g == PruneEmpty(h)
<1> SUFFICES ASSUME h.open # {} PROVE Rearranged(h, g)
  BY SameIs DEF PruneEmpty
<1>1. g.chats = h.chats /\ g.open = kept
  BY DEF PruneEmpty, GoodHistories, Histories
<1>2. Largest(h.open) \in h.open
  <2>1. h.open \in SUBSET (1 .. Len(h.chats)) /\ Len(h.chats) \in Nat
    BY ChatsOf
  <2> QED BY <2>1, LargestOf
<1>3. \A c \in DOMAIN h.chats :
         \/ c \in kept <=> c \in h.open
         \/ c \notin kept /\ Transcript(h, c) = <<>>
  BY <1>2 DEF HasEntries
<1> HIDE DEF g, kept
<1> QED BY <1>1, <1>3 DEF Rearranged, Transcript

-----------------------------------------------------------------------------
(* Operations that change the entries of one conversation.                 *)

LEMMA WithTranscriptIs ==
    ASSUME NEW h \in GoodHistories, NEW c \in DOMAIN h.chats, NEW es
    PROVE  LET g == WithTranscript(h, c, es)
           IN  /\ DOMAIN g.chats = DOMAIN h.chats /\ g.open = h.open
               /\ Transcript(g, c) = es
               /\ \A d \in DOMAIN h.chats : d # c => Transcript(g, d) = Transcript(h, d)
<1> DEFINE cs == [h.chats EXCEPT ![c].entries = es]
           g == WithTranscript(h, c, es)
<1>1. g.chats = cs
  BY DEF WithTranscript, GoodHistories, Histories
<1>2. g.open = h.open
  BY WithTranscriptKeeps
<1>3. h.chats[c] \in Chats
  BY TranscriptType
<1>4. DOMAIN cs = DOMAIN h.chats /\ cs[c].entries = es
      /\ \A d \in DOMAIN h.chats : d # c => cs[d] = h.chats[d]
  BY <1>3 DEF Chats
<1> HIDE DEF g, cs
<1> QED BY <1>1, <1>2, <1>4 DEF Transcript, g

\* Conversation c gets the entries es: runs whose entries in c are new or
\* changed are named in R.
LEMMA RewrittenKept ==
    ASSUME NEW h \in GoodHistories, NEW c \in DOMAIN h.chats, NEW es, NEW n, NEW a,
           \A k \in DOMAIN es : es[k].run \in 1 .. n /\ es[k].run # a =>
               \E l \in DOMAIN Transcript(h, c) : Transcript(h, c)[l] = es[k]
    PROVE  Kept(h, WithTranscript(h, c, es), n, a)
<1> DEFINE g == WithTranscript(h, c, es)
<1>1. g.chats[c].entries = es
      /\ \A d \in DOMAIN h.chats : d # c => g.chats[d].entries = h.chats[d].entries
  BY WithTranscriptIs DEF Transcript
<1> HIDE DEF g
<1> SUFFICES ASSUME NEW d \in DOMAIN h.chats, NEW r \in 1 .. n, r # a,
                    NEW k \in DOMAIN g.chats[d].entries, g.chats[d].entries[k].run = r
             PROVE  g.chats[d].entries[k] \in EntriesOf(h, d, r)
  BY DEF Kept, EntriesOf, g
<1>2. CASE d = c
  <2>1. PICK l \in DOMAIN h.chats[c].entries : h.chats[c].entries[l] = es[k]
    BY <1>1, <1>2 DEF Transcript
  <2> QED BY <1>1, <1>2, <2>1 DEF EntriesOf
<1>3. CASE d # c
  BY <1>1, <1>3 DEF EntriesOf
<1> QED BY <1>2, <1>3

\* A run begins: its entry is added to a loaded conversation.
LEMMA BeginTranscripts ==
    ASSUME NEW rs \in Seq(Runs), NEW h \in GoodHistories, NEW c \in h.open,
           Transcripts(h, rs, 0), Begin(rs, h, c), NEW a
    PROVE  /\ Transcripts(history', runs', active') /\ Shown(history', runs', active')
           /\ Kept(h, history', Len(rs), a) /\ Grows(h, history')
<1> DEFINE n == Len(rs) + 1
           e == [run |-> n, state |-> "working", steps |-> 0]
           old == Transcript(h, c)
           es == Append(old, e)
<1>1. /\ runs' = Append(rs, NewRun(c)) /\ active' = n
      /\ history' = WithTranscript(h, c, es)
  BY DEF Begin, AddEntry
<1>2. /\ n \in Nat /\ n # 0 /\ n \notin 0 .. Len(rs) /\ Len(rs) \in Nat
      /\ Len(runs') = n
      /\ \A r \in 1 .. Len(rs) : runs'[r] = rs[r]
      /\ runs'[n] = NewRun(c)
  BY <1>1
<1>3. NewRun(c).chat = c /\ NewRun(c).attached = TRUE
  BY DEF NewRun
<1>4. c \in DOMAIN h.chats /\ old \in Seq(Entries)
  BY ChatsOf
<1>5. e.run = n /\ e.state = "working"
  OBVIOUS
<1> HIDE DEF es
<1>6. /\ DOMAIN history'.chats = DOMAIN h.chats /\ history'.open = h.open
      /\ Transcript(history', c) = es
      /\ \A d \in DOMAIN h.chats : d # c => Transcript(history', d) = Transcript(h, d)
  BY <1>1, <1>4, WithTranscriptIs
<1> HIDE DEF e, n
<1>7. /\ DOMAIN es = DOMAIN old \cup {Len(old) + 1} /\ Len(old) + 1 \notin DOMAIN old
      /\ \A k \in DOMAIN old : es[k] = old[k]
      /\ es[Len(old) + 1] = e
  BY <1>4 DEF es
<1> DEFINE last == Len(old) + 1
<1> HIDE DEF last, old
<1>8. \A k \in DOMAIN old : old[k].run # n
  BY <1>2, <1>4 DEF Transcripts, Known, old
<1>9. Known(history', runs')
  <2>1. \A d \in DOMAIN h.chats : \A k \in DOMAIN Transcript(h, d) :
           Transcript(h, d)[k].run \in 0 .. Len(runs')
    BY <1>2 DEF Transcripts, Known, n
  <2>2. n \in 0 .. Len(runs')
    BY <1>2
  <2> QED BY <1>5, <1>6, <1>7, <2>1, <2>2 DEF Known, old, last
<1>10. Single(history')
  BY <1>5, <1>6, <1>7, <1>8 DEF Transcripts, Single, old, last
<1>11. Owned(history', runs', active')
  <2> SUFFICES ASSUME NEW d \in DOMAIN h.chats, NEW k \in DOMAIN Transcript(history', d),
                      Transcript(history', d)[k].state = "working"
               PROVE  LET f == Transcript(history', d)[k]
                      IN  f.run # 0 /\ runs'[f.run].chat = d
                          /\ (runs'[f.run].attached => f.run = active')
    BY <1>6 DEF Owned
  <2>1. CASE d = c /\ k = last
    BY <1>1, <1>2, <1>3, <1>5, <1>6, <1>7, <2>1 DEF last
  <2>2. CASE ~ (d = c /\ k = last)
    <3>1. k \in DOMAIN Transcript(h, d) /\ Transcript(history', d)[k] = Transcript(h, d)[k]
      BY <1>6, <1>7, <2>2 DEF old, last
    <3> DEFINE f == Transcript(h, d)[k]
    <3>2. f.run \in 0 .. Len(rs) /\ f.run # 0 /\ rs[f.run].chat = d
          /\ (rs[f.run].attached => f.run = 0)
      BY <3>1 DEF Transcripts, Known, Owned
    <3>3. f.run \in 1 .. Len(rs)
      BY <1>2, <3>2
    <3> QED BY <1>2, <3>1, <3>2, <3>3
  <2> QED BY <2>1, <2>2
<1>12. InFlight(history', active')
  <2> SUFFICES ASSUME NEW d \in DOMAIN h.chats, NEW k \in DOMAIN Transcript(history', d),
                      Transcript(history', d)[k].run = n
               PROVE  Transcript(history', d)[k].state = "working"
    BY <1>1, <1>6 DEF InFlight
  <2>1. CASE d = c /\ k = last
    BY <1>5, <1>6, <1>7, <2>1 DEF last
  <2>2. CASE ~ (d = c /\ k = last)
    <3>1. k \in DOMAIN Transcript(h, d) /\ Transcript(history', d)[k] = Transcript(h, d)[k]
      BY <1>6, <1>7, <2>2 DEF old, last
    <3> QED BY <1>2, <3>1 DEF Transcripts, Known
  <2> QED BY <2>1, <2>2
<1>13. Shown(history', runs', active')
  BY <1>1, <1>2, <1>3, <1>4, <1>5, <1>6, <1>7 DEF Shown
<1>14. Kept(h, history', Len(rs), a)
  <2>1. \A k \in DOMAIN es : es[k].run \in 1 .. Len(rs) /\ es[k].run # a =>
           \E l \in DOMAIN Transcript(h, c) : Transcript(h, c)[l] = es[k]
    <3> SUFFICES ASSUME NEW k \in DOMAIN es, es[k].run \in 1 .. Len(rs)
                 PROVE  \E l \in DOMAIN Transcript(h, c) : Transcript(h, c)[l] = es[k]
      OBVIOUS
    <3>1. es[k].run # n
      BY <1>2
    <3> QED BY <1>5, <1>7, <3>1 DEF old
  <2> QED BY <1>1, <1>4, <2>1, RewrittenKept
<1>15. Grows(h, history')
  BY <1>6, <1>7 DEF Grows, old
<1> QED BY <1>9, <1>10, <1>11, <1>12, <1>13, <1>14, <1>15 DEF Transcripts

\* The runs rs2 work for the conversations those of rs do, and no other entry
\* objects than theirs are loaded.
SameTargets(rs, rs2) ==
    /\ Len(rs2) = Len(rs)
    /\ \A r \in 1 .. Len(rs) :
          rs2[r].chat = rs[r].chat /\ (rs2[r].attached => rs[r].attached)

LEMMA RetargetTranscripts ==
    ASSUME NEW rs \in Seq(Runs), NEW rs2, SameTargets(rs, rs2), NEW h, NEW a,
           Transcripts(h, rs, a)
    PROVE  /\ Transcripts(h, rs2, a)
           /\ a \in 1 .. Len(rs) /\ Shown(h, rs, a) => Shown(h, rs2, a)
<1>1. Len(rs) \in Nat /\ Len(rs2) = Len(rs)
  BY DEF SameTargets
<1>2. Owned(h, rs2, a)
  <2> SUFFICES ASSUME NEW c \in DOMAIN h.chats, NEW k \in DOMAIN Transcript(h, c),
                      Transcript(h, c)[k].state = "working"
               PROVE  LET e == Transcript(h, c)[k]
                      IN  e.run # 0 /\ rs2[e.run].chat = c
                          /\ (rs2[e.run].attached => e.run = a)
    BY DEF Owned
  <2> DEFINE e == Transcript(h, c)[k]
  <2>1. e.run \in 0 .. Len(rs) /\ e.run # 0 /\ rs[e.run].chat = c
        /\ (rs[e.run].attached => e.run = a)
    BY DEF Transcripts, Known, Owned
  <2>2. e.run \in 1 .. Len(rs)
    BY <1>1, <2>1
  <2> QED BY <2>1, <2>2 DEF SameTargets
<1>3. Known(h, rs2) /\ Single(h) /\ InFlight(h, a)
  BY <1>1 DEF Transcripts, Known
<1>4. ASSUME a \in 1 .. Len(rs), Shown(h, rs, a) PROVE Shown(h, rs2, a)
  BY <1>4 DEF Shown, SameTargets
<1> QED BY <1>2, <1>3, <1>4 DEF Transcripts

\* The run in flight ends and leaves nothing to settle: its entry is not on
\* the screen or went with its conversation.
LEMMA LeftTranscripts ==
    ASSUME NEW rs, NEW h, NEW a, Transcripts(h, rs, a), a # 0,
           rs[a].attached => Transcript(h, rs[a].chat) = <<>>
    PROVE  Transcripts(h, rs, 0)
<1>1. Owned(h, rs, 0)
  BY DEF Transcripts, Owned
<1> QED BY <1>1 DEF Transcripts, InFlight

\* From h to g the entry of run a in conversation c is left in state s.
SettledAs(h, g, c, a, s) ==
    \A k \in DOMAIN Transcript(h, c) : Transcript(h, c)[k].run = a =>
        /\ k \in DOMAIN Transcript(g, c) /\ Transcript(g, c)[k].run = a
        /\ Transcript(g, c)[k].state = s

\* ... or its entry is settled.
LEMMA SettleTranscripts ==
    ASSUME NEW rs, NEW h \in GoodHistories, NEW a \in Nat, Transcripts(h, rs, a), a # 0,
           rs[a].chat \in DOMAIN h.chats,
           NEW s \in EntryStates, s # "working",
           NEW g, g = SettleEntry(h, rs[a].chat, a, s)
    PROVE  /\ Transcripts(g, rs, 0) /\ \A n : Kept(h, g, n, a)
           /\ SettledAs(h, g, rs[a].chat, a, s)
<1> DEFINE c == rs[a].chat
           old == Transcript(h, c)
           es == [k \in DOMAIN old |-> Settle(old[k], a, s)]
<1>0. c \in DOMAIN h.chats /\ c = rs[a].chat /\ g = SettleEntry(h, c, a, s)
  OBVIOUS
<1> HIDE DEF c
<1>1. old \in Seq(Entries)
  BY <1>0, ChatsOf
<1>2. \A k \in DOMAIN old : old[k] \in Entries
  BY <1>1
<1>3. /\ DOMAIN es = DOMAIN old
      /\ \A k \in DOMAIN old : es[k].run = old[k].run
      /\ \A k \in DOMAIN old : old[k].run # a => es[k] = old[k]
      /\ \A k \in DOMAIN old : old[k].run = a => es[k].state = s
  BY <1>2 DEF Settle, Entries
<1>4. g = WithTranscript(h, c, es)
  BY <1>0 DEF SettleEntry
<1> HIDE DEF es
<1>5. /\ DOMAIN g.chats = DOMAIN h.chats
      /\ Transcript(g, c) = es
      /\ \A d \in DOMAIN h.chats : d # c => Transcript(g, d) = Transcript(h, d)
  BY <1>0, <1>4, WithTranscriptIs
<1>6. ASSUME NEW n PROVE Kept(h, g, n, a)
  <2>1. \A k \in DOMAIN es : es[k].run \in 1 .. n /\ es[k].run # a =>
               \E l \in DOMAIN old : old[l] = es[k]
    BY <1>3
  <2> QED BY <1>0, <1>4, <2>1, RewrittenKept
<1> HIDE DEF old
<1>7. Known(g, rs)
  BY <1>0, <1>3, <1>5 DEF Transcripts, Known, old
<1>8. Single(g)
  BY <1>0, <1>3, <1>5 DEF Transcripts, Single, old
<1>9. Owned(g, rs, 0)
  <2> SUFFICES ASSUME NEW d \in DOMAIN h.chats, NEW k \in DOMAIN Transcript(g, d),
                      Transcript(g, d)[k].state = "working"
               PROVE  LET e == Transcript(g, d)[k]
                      IN  e.run # 0 /\ rs[e.run].chat = d /\ ~rs[e.run].attached
    BY <1>5 DEF Owned
  <2>1. CASE d = c
    <3>1. old[k].run # a
      BY <1>0, <1>3, <1>5, <2>1
    <3> QED BY <1>0, <1>3, <1>5, <2>1, <3>1 DEF Transcripts, Owned, old
  <2>2. CASE d # c
    BY <1>0, <1>5, <2>2 DEF Transcripts, Owned
  <2> QED BY <2>1, <2>2
<1>10. InFlight(g, 0)
  BY DEF InFlight
<1>11. SettledAs(h, g, c, a, s)
  BY <1>3, <1>5 DEF SettledAs, old
<1> QED BY <1>0, <1>6, <1>7, <1>8, <1>9, <1>10, <1>11 DEF Transcripts, old

\* An answer gets an entry of its own in conversation c.
LEMMA AddAnswerTranscripts ==
    ASSUME NEW rs, NEW h \in GoodHistories, Transcripts(h, rs, 0),
           NEW c \in DOMAIN h.chats, NEW r \in 1 .. Len(rs), Len(rs) \in Nat,
           \A k \in DOMAIN Transcript(h, c) : Transcript(h, c)[k].run # r
    PROVE  LET e == [run |-> r, state |-> "answered", steps |-> 0]
               g == AddEntry(h, c, e)
           IN  /\ Transcripts(g, rs, 0) /\ \A n : Kept(h, g, n, r)
               /\ \E k \in DOMAIN Transcript(g, c) : Transcript(g, c)[k] = e
<1> DEFINE e == [run |-> r, state |-> "answered", steps |-> 0]
           g == AddEntry(h, c, e)
           old == Transcript(h, c)
           last == Len(old) + 1
           es == Append(old, e)
<1>1. old \in Seq(Entries)
  BY ChatsOf
<1>2. e.run = r /\ e.state = "answered" /\ r # 0
  OBVIOUS
<1> HIDE DEF e
<1>3. /\ DOMAIN es = DOMAIN old \cup {last} /\ last \notin DOMAIN old
      /\ \A k \in DOMAIN old : es[k] = old[k]
      /\ es[last] = e
  BY <1>1
<1>4. g = WithTranscript(h, c, es)
  BY DEF AddEntry
<1> HIDE DEF es
<1>5. /\ DOMAIN g.chats = DOMAIN h.chats
      /\ Transcript(g, c) = es
      /\ \A d \in DOMAIN h.chats : d # c => Transcript(g, d) = Transcript(h, d)
  BY <1>4, WithTranscriptIs
<1>6. ASSUME NEW n PROVE Kept(h, g, n, r)
  <2>1. \A k \in DOMAIN es : es[k].run \in 1 .. n /\ es[k].run # r =>
               \E l \in DOMAIN old : old[l] = es[k]
    BY <1>2, <1>3
  <2> QED BY <1>4, <2>1, RewrittenKept
<1> HIDE DEF g, old, last
<1>7. Known(g, rs)
  <2>1. r \in 0 .. Len(rs)
    OBVIOUS
  <2> QED BY <1>2, <1>3, <1>5, <2>1 DEF Transcripts, Known, old
<1>8. Single(g)
  BY <1>2, <1>3, <1>5 DEF Transcripts, Single, old
<1>9. Owned(g, rs, 0)
  <2> SUFFICES ASSUME NEW d \in DOMAIN h.chats, NEW k \in DOMAIN Transcript(g, d),
                      Transcript(g, d)[k].state = "working"
               PROVE  LET f == Transcript(g, d)[k]
                      IN  f.run # 0 /\ rs[f.run].chat = d /\ ~rs[f.run].attached
    BY <1>5 DEF Owned
  <2>1. k \in DOMAIN Transcript(h, d) /\ Transcript(g, d)[k] = Transcript(h, d)[k]
    BY <1>2, <1>3, <1>5 DEF old
  <2> QED BY <2>1 DEF Transcripts, Owned
<1>10. InFlight(g, 0)
  BY DEF InFlight
<1>11. \E k \in DOMAIN Transcript(g, c) : Transcript(g, c)[k] = e
  BY <1>3, <1>5
<1> QED BY <1>6, <1>7, <1>8, <1>9, <1>10, <1>11 DEF Transcripts, g, e

\* One more update of the run in flight is shown.
LEMMA StreamTranscripts ==
    ASSUME NEW rs, NEW h \in GoodHistories, NEW a \in Nat,
           Transcripts(h, rs, a), Shown(h, rs, a),
           NEW c \in DOMAIN h.chats
    PROVE  LET g == StreamEntry(h, c, a)
           IN  Transcripts(g, rs, a) /\ Shown(g, rs, a) /\ \A n : Kept(h, g, n, a)
<1> DEFINE g == StreamEntry(h, c, a)
           old == Transcript(h, c)
           es == [k \in DOMAIN old |-> Advanced(old[k], a)]
<1>1. old \in Seq(Entries)
  BY ChatsOf
<1>2. \A k \in DOMAIN old : old[k] \in Entries
  BY <1>1
<1>3. /\ DOMAIN es = DOMAIN old
      /\ \A k \in DOMAIN old : es[k].run = old[k].run /\ es[k].state = old[k].state
      /\ \A k \in DOMAIN old : old[k].run # a => es[k] = old[k]
  BY <1>2 DEF Advanced, Entries
<1>4. g = WithTranscript(h, c, es) /\ (old = <<>> => es = <<>>)
  BY DEF StreamEntry
<1> HIDE DEF es
<1>5. /\ DOMAIN g.chats = DOMAIN h.chats /\ g.open = h.open
      /\ Transcript(g, c) = es
      /\ \A d \in DOMAIN h.chats : d # c => Transcript(g, d) = Transcript(h, d)
  BY <1>4, WithTranscriptIs
<1>6. ASSUME NEW n PROVE Kept(h, g, n, a)
  <2>1. \A k \in DOMAIN es : es[k].run \in 1 .. n /\ es[k].run # a =>
               \E l \in DOMAIN old : old[l] = es[k]
    BY <1>3
  <2> QED BY <1>4, <2>1, RewrittenKept
<1> HIDE DEF g, old
<1>7. \A d \in DOMAIN h.chats :
         /\ DOMAIN Transcript(g, d) = DOMAIN Transcript(h, d)
         /\ \A k \in DOMAIN Transcript(h, d) :
               /\ Transcript(g, d)[k].run = Transcript(h, d)[k].run
               /\ Transcript(g, d)[k].state = Transcript(h, d)[k].state
         /\ Transcript(h, d) = <<>> => Transcript(g, d) = <<>>
  BY <1>3, <1>4, <1>5 DEF old
<1>8. Known(g, rs) /\ Single(g) /\ Owned(g, rs, a) /\ InFlight(g, a)
  BY <1>5, <1>7 DEF Transcripts, Known, Single, Owned, InFlight
<1>9. Shown(g, rs, a)
  BY <1>5, <1>7 DEF Shown
<1> QED BY <1>6, <1>8, <1>9 DEF Transcripts, g

\* The last entry of a conversation is regenerated.
LEMMA DropLastTranscripts ==
    ASSUME NEW rs, NEW h \in GoodHistories, Transcripts(h, rs, 0),
           NEW c \in DOMAIN h.chats, HasEntries(h, c)
    PROVE  LET g == DropLastEntry(h, c)
           IN  /\ Transcripts(g, rs, 0) /\ \A n, a : Kept(h, g, n, a)
               /\ g.open = h.open /\ DOMAIN g.chats = DOMAIN h.chats
<1> DEFINE g == DropLastEntry(h, c)
           old == Transcript(h, c)
           es == Front(old)
<1>1. old \in Seq(Entries) /\ old # <<>>
  BY ChatsOf DEF HasEntries
<1>2. \A k \in DOMAIN es : k \in DOMAIN old /\ es[k] = old[k]
  BY <1>1 DEF Front
<1>3. g = WithTranscript(h, c, es)
  BY DEF DropLastEntry
<1> HIDE DEF es
<1>4. /\ DOMAIN g.chats = DOMAIN h.chats /\ g.open = h.open
      /\ Transcript(g, c) = es
      /\ \A d \in DOMAIN h.chats : d # c => Transcript(g, d) = Transcript(h, d)
  BY <1>3, WithTranscriptIs
<1>5. \A n, a : Kept(h, g, n, a)
  BY <1>2, <1>3, RewrittenKept
<1> HIDE DEF g, old
<1>6. \A d \in DOMAIN h.chats : \A k \in DOMAIN Transcript(g, d) :
         k \in DOMAIN Transcript(h, d) /\ Transcript(g, d)[k] = Transcript(h, d)[k]
  BY <1>2, <1>4 DEF old
<1>7. Known(g, rs) /\ Single(g) /\ Owned(g, rs, 0) /\ InFlight(g, 0)
  BY <1>4, <1>6 DEF Transcripts, Known, Single, Owned, InFlight
<1> QED BY <1>4, <1>5, <1>7 DEF Transcripts, g

\* Another project is opened.
LEMMA OpenProjectIs ==
    ASSUME NEW h \in GoodHistories, NEW p \in Nat
    PROVE  LET g == OpenProject(h, p)
           IN  /\ DOMAIN h.chats \subseteq DOMAIN g.chats
               /\ \A c \in DOMAIN h.chats : Transcript(g, c) = Transcript(h, c)
               /\ \A c \in DOMAIN g.chats : c \in DOMAIN h.chats \/ Transcript(g, c) = <<>>
<1> DEFINE f == [h EXCEPT !.project = p, !.open = StoredIn(h, p)]
<1>1. /\ StoredIn(h, p) \subseteq 1 .. Len(h.chats) /\ Len(h.chats) \in Nat
      /\ StoredIn(h, p) \in SUBSET Nat
  BY DEF StoredIn, GoodHistories, Histories
<1>2. f \in GoodHistories /\ f.chats = h.chats
  BY <1>1 DEF GoodHistories, Histories
<1> HIDE DEF f
<1>3. Rearranged(f, CreateChat(f)) /\ Grows(f, CreateChat(f))
  BY <1>2, CreateChatIs
<1> DEFINE g == CreateChat(f)
<1>4. OpenProject(h, p) = g
  BY DEF OpenProject, f
<1>5. g \in GoodHistories
  BY <1>2, CreateChatType
<1> HIDE DEF g
<1>6. \A c \in DOMAIN h.chats : Transcript(f, c) = Transcript(h, c)
  BY <1>2 DEF Transcript
<1>7. \A c \in DOMAIN h.chats : Transcript(g, c) = Transcript(f, c)
  <2> SUFFICES ASSUME NEW c \in DOMAIN h.chats PROVE Transcript(g, c) = Transcript(f, c)
    OBVIOUS
  <2>1. CASE Transcript(g, c) = <<>>
    <3>1. \A k \in DOMAIN Transcript(f, c) : k \in DOMAIN <<>>
      BY <1>2, <1>3, <2>1 DEF Grows, g
    <3>2. Transcript(f, c) \in Seq(Entries)
      BY <1>2, ChatsOf
    <3>3. Transcript(f, c) # <<>> => 1 \in DOMAIN Transcript(f, c)
      BY <3>2
    <3>4. 1 \notin DOMAIN <<>>
      OBVIOUS
    <3> QED BY <2>1, <3>1, <3>3, <3>4
  <2> QED BY <1>2, <1>3, <2>1 DEF Rearranged, g
<1>8. DOMAIN h.chats \subseteq DOMAIN g.chats
      /\ \A c \in DOMAIN g.chats : c \in DOMAIN h.chats \/ Transcript(g, c) = <<>>
  BY <1>2, <1>3 DEF Rearranged, g
<1> QED BY <1>4, <1>6, <1>7, <1>8

-----------------------------------------------------------------------------
(* What the batch runner submits goes to a conversation it created.        *)

Fresh(out, base) == out.chat # 0 => out.chat \in (base + 1) .. (base + out.made)

LEMMA AdvanceFresh ==
    ASSUME NEW b \in Batches, NEW base \in Nat, NEW here,
           NEW out \in Advance(b, base, here)
    PROVE  Fresh(out, base)
<1>1. CASE ~b.running \/ Pending(b) = {}
  BY <1>1 DEF Advance, NothingStarted, Fresh
<1>2. CASE ~ (~b.running \/ Pending(b) = {})
  <2>1. PICK f \in FirstPending(b) : \E n \in Candidates(b, f) :
           out = StartItem(b, base, here, f, n)
    BY <1>2 DEF Advance
  <2>2. PICK n \in Candidates(b, f) : out = StartItem(b, base, here, f, n)
    BY <2>1
  <2>3. f \in 1 .. Len(b.items) /\ Len(b.items) \in Nat
    BY ItemAt DEF FirstPending, Pending
  <2>4. n \in f .. (Len(b.items) + 1)
    BY <2>3 DEF Candidates
  <2>5. /\ out.chat = IF n <= Len(b.items) THEN base + 1 + (n - f) ELSE 0
        /\ out.made = IF n <= Len(b.items) THEN n + 1 - f ELSE n - f
    BY <2>2 DEF StartItem
  <2> QED BY <2>3, <2>4, <2>5 DEF Fresh
<1> QED BY <1>1, <1>2

LEMMA StartFresh ==
    ASSUME NEW n \in Nat, NEW base \in Nat, NEW here \in Places,
           NEW out \in Start(n, base, here)
    PROVE  Fresh(out, base)
<1> DEFINE its == [i \in 1 .. n |-> [chat |-> 0, status |-> "pending", ctx |-> Nowhere]]
           b == [items |-> its, running |-> TRUE, mode |-> "none", origin |-> here]
<1>1. its \in Seq(BatchItem)
  BY DEF Nowhere, Places, BatchItem, BatchItemStatus
<1> HIDE DEF its
<1>2. b \in Batches
  BY <1>1 DEF Batches, CancelMode
<1>3. out \in Advance(b, base, here)
  BY DEF Start, its
<1> HIDE DEF b
<1> QED BY <1>2, <1>3, AdvanceFresh

LEMMA HandleCompletionFresh ==
    ASSUME NEW b \in Batches, NEW c, NEW ok \in BOOLEAN, NEW base \in Nat,
           NEW here \in Places, NEW out \in HandleCompletion(b, c, ok, base, here)
    PROVE  Fresh(out, base)
<1>1. CASE ItemsOf(b, c) = {}
  BY <1>1 DEF HandleCompletion, NothingStarted, Fresh
<1>2. CASE ItemsOf(b, c) # {}
  <2> DEFINE verdict == IF ok THEN "completed" ELSE "failed"
  <2>1. PICK i \in ItemsOf(b, c) : out \in Advance(Mark(b, i, verdict), base, here)
    BY <1>2 DEF HandleCompletion
  <2>2. i \in DOMAIN b.items /\ verdict \in BatchItemStatus
    BY DEF ItemsOf, BatchItemStatus
  <2> HIDE DEF verdict
  <2>3. Mark(b, i, verdict) \in Batches
    BY <2>2, MarkType
  <2> QED BY <2>1, <2>3, AdvanceFresh
<1> QED BY <1>1, <1>2

LEMMA HandleCancellationFresh ==
    ASSUME NEW b \in Batches, NEW c, NEW base \in Nat, NEW here \in Places,
           NEW out \in HandleCancellation(b, c, base, here)
    PROVE  Fresh(out, base)
<1>1. CASE ItemsOf(b, c) = {}
  BY <1>1 DEF HandleCancellation, NothingStarted, Fresh
<1>2. CASE ItemsOf(b, c) # {}
  <2> DEFINE d(i) == [Mark(b, i, "cancelled") EXCEPT !.mode = "none"]
  <2>1. PICK i \in ItemsOf(b, c) :
           \/ out = NothingStarted([d(i) EXCEPT !.running = FALSE])
           \/ out \in Advance(d(i), base, here)
    BY <1>2 DEF HandleCancellation
  <2>2. d(i) \in Batches
    <3>1. Mark(b, i, "cancelled") \in Batches
      BY MarkType DEF ItemsOf, BatchItemStatus
    <3> QED BY <3>1 DEF Batches, CancelMode
  <2> HIDE DEF d
  <2>3. CASE out \in Advance(d(i), base, here)
    BY <2>2, <2>3, AdvanceFresh
  <2>4. CASE out = NothingStarted([d(i) EXCEPT !.running = FALSE])
    BY <2>4 DEF NothingStarted, Fresh
  <2> QED BY <2>1, <2>3, <2>4
<1> QED BY <1>1, <1>2

\* The panel takes over what the runner decided.
LEMMA ProceedTranscripts ==
    ASSUME NEW rs \in Seq(Runs), NEW h \in GoodHistories, NEW out \in Outcomes,
           Transcripts(h, rs, 0), Fresh(out, Len(h.chats)), Proceed(rs, h, 0, out), NEW a
    PROVE  /\ Transcripts(history', runs', active') /\ Shown(history', runs', active')
           /\ Kept(h, history', Len(rs), a) /\ Grows(h, history')
<1> DEFINE g == OpenBatchChats(h, out.made)
<1>1. out.made \in Nat /\ out.chat \in Nat
  BY DEF Outcomes
<1>2. /\ g \in GoodHistories /\ Rearranged(h, g) /\ Grows(h, g)
      /\ \A i \in (Len(h.chats) + 1) .. (Len(h.chats) + out.made) : i \in g.open
  BY <1>1, OpenBatchChatsType, OpenBatchChatsIs
<1>3. Shown(h, rs, 0)
  BY DEF Shown
<1>4. Transcripts(g, rs, 0) /\ Shown(g, rs, 0) /\ Kept(h, g, Len(rs), a)
  BY <1>2, <1>3, RearrangedTranscripts, RearrangedKept
<1>5. CASE out.chat = 0
  <2>1. runs' = rs /\ active' = 0 /\ history' = g
    BY <1>5 DEF Proceed
  <2> HIDE DEF g
  <2> QED BY <1>2, <1>4, <2>1
<1>6. CASE out.chat # 0
  <2>1. Begin(rs, g, out.chat)
    BY <1>6 DEF Proceed
  <2>2. out.chat \in g.open
    BY <1>2, <1>6 DEF Fresh
  <2> HIDE DEF g
  <2>3. /\ Transcripts(history', runs', active') /\ Shown(history', runs', active')
        /\ Kept(g, history', Len(rs), a) /\ Grows(g, history')
    BY <1>2, <1>4, <2>1, <2>2, BeginTranscripts
  <2>4. Grows(h, history')
    BY <1>2, <2>3 DEF Grows
  <2>5. Kept(h, history', Len(rs), a)
    <3>1. \A c \in DOMAIN h.chats : c \in DOMAIN g.chats
      BY <1>2 DEF Grows
    <3> QED BY <1>4, <2>3, <3>1 DEF Kept
  <2> QED BY <2>3, <2>4, <2>5
<1> QED BY <1>5, <1>6

-----------------------------------------------------------------------------
(* Every step leaves the transcripts in order.                             *)

Tidy == Transcripts(history, runs, active) /\ Shown(history, runs, active)

TidyStep ==
    /\ Transcripts(history', runs', active') /\ Shown(history', runs', active')
    /\ Kept(history, history', Len(runs), active)

LEMMA ActiveIs ==
    ASSUME Control
    PROVE  /\ TypeOK /\ history \in GoodHistories /\ runs \in Seq(Runs)
           /\ Len(runs) \in Nat /\ DOMAIN runs = 1 .. Len(runs) /\ active \in Nat
           /\ active # 0 => active \in 1 .. Len(runs) /\ runs[active] \in Runs
           /\ running <=> active # 0
<1>1. TypeOK /\ history \in GoodHistories /\ runs \in Seq(Runs) /\ active \in Nat
  BY HistoryGood DEF Control, TypeOK
<1>2. DOMAIN runs = 1 .. Len(runs) /\ Len(runs) \in Nat
  BY <1>1
<1>3. active # 0 => active \in DOMAIN runs
  BY DEF Control, Exclusive, SingleFlight
<1> QED BY <1>1, <1>2, <1>3, RunAt DEF Control, Exclusive, SingleFlight

\* A step that touches neither the handles nor an entry.
LEMMA RearrangedStep ==
    ASSUME Control, Tidy, Rearranged(history, history'), UNCHANGED <<runs, active>>
    PROVE  TidyStep
<1> DEFINE g == history'
<1>1. Transcripts(g, runs, active) /\ Shown(g, runs, active)
      /\ Kept(history, g, Len(runs), active)
  BY RearrangedTranscripts, RearrangedKept DEF Tidy
<1> QED BY <1>1 DEF TidyStep

LEMMA QuietStep ==
    ASSUME Control, Tidy, UNCHANGED <<history, runs, active>>
    PROVE  TidyStep
<1>1. Rearranged(history, history')
  BY SameIs
<1> QED BY <1>1, RearrangedStep

\* An idle panel begins a run in a conversation of the rearranged history h.
LEMMA IdleBegin ==
    ASSUME Control, Tidy, ~running, NEW h \in GoodHistories, NEW c \in h.open,
           Transcripts(h, runs, 0), Kept(history, h, Len(runs), 0),
           \A d \in DOMAIN history.chats : d \in DOMAIN h.chats,
           Begin(runs, h, c)
    PROVE  TidyStep
<1>1. runs \in Seq(Runs) /\ active = 0
  BY ActiveIs
<1>2. /\ Transcripts(history', runs', active') /\ Shown(history', runs', active')
      /\ Kept(h, history', Len(runs), 0)
  BY <1>1, BeginTranscripts
<1>3. Kept(history, history', Len(runs), 0)
  BY <1>2 DEF Kept
<1> QED BY <1>1, <1>2, <1>3 DEF TidyStep

\* A stop settles the entry of the run as cancelled.
LEMMA CancelRunTidy ==
    ASSUME Control, Tidy, NEW b \in Batches, NEW closing \in BOOLEAN,
           CancelRun(b, closing)
    PROVE  TidyStep
<1> DEFINE c == runs[active].chat
           h == IF c \in history.open /\ runs[active].attached
                THEN SettleEntry(history, c, active, "cancelled")
                ELSE history
           then(out) == IF closing THEN [out EXCEPT !.batch = Reset] ELSE out
           rs == Stopped(active)
<1>1. CASE active = 0
  BY <1>1, QuietStep DEF CancelRun
<1>2. CASE active # 0
  <2>1. /\ history \in GoodHistories /\ runs \in Seq(Runs) /\ active \in 1 .. Len(runs)
        /\ DOMAIN runs = 1 .. Len(runs) /\ runs[active] \in Runs /\ active \in Nat
        /\ TypeOK /\ batch \in Batches
    BY <1>2, ActiveIs DEF TypeOK
  <2>2. PICK out \in HandleCancellation(b, c, Len(h.chats), Here) :
           Proceed(rs, h, 0, then(out))
    BY <1>2 DEF CancelRun
  <2>3. Transcripts(h, runs, 0) /\ Kept(history, h, Len(runs), active)
        /\ h \in GoodHistories /\ DOMAIN history.chats = DOMAIN h.chats
    <3>1. Transcripts(history, runs, active) /\ Shown(history, runs, active)
      BY DEF Tidy
    <3>2. "cancelled" \in EntryStates /\ "cancelled" # "working"
      BY DEF EntryStates
    <3>3. CASE c \in history.open /\ runs[active].attached
      <4>1. c \in DOMAIN history.chats
        BY <2>1, <3>3, ChatsOf
      <4>2. h = SettleEntry(history, c, active, "cancelled")
        BY <3>3
      <4> HIDE DEF h
      <4>3. c = runs[active].chat
        OBVIOUS
      <4> HIDE DEF c
      <4>4. Transcripts(h, runs, 0) /\ Kept(history, h, Len(runs), active)
        <5>1. /\ history \in GoodHistories /\ active \in Nat /\ active # 0
              /\ Transcripts(history, runs, active)
          BY <1>2, <2>1, <3>1
        <5>2. /\ runs[active].chat \in DOMAIN history.chats
              /\ h = SettleEntry(history, runs[active].chat, active, "cancelled")
          BY <4>1, <4>2, <4>3
        <5>3. Transcripts(h, runs, 0)
          BY <3>2, <5>1, <5>2, SettleTranscripts
        <5>4. \A n : Kept(history, h, n, active)
          BY <3>2, <5>1, <5>2, SettleTranscripts
        <5> QED BY <5>3, <5>4
      <4>5. h \in GoodHistories
        BY <2>1, <3>2, <4>2, SettleEntryType
      <4>6. DOMAIN history.chats = DOMAIN h.chats
        BY <2>1, <4>1, <4>2, WithTranscriptIs DEF SettleEntry
      <4> QED BY <4>4, <4>5, <4>6
    <3>4. CASE ~ (c \in history.open /\ runs[active].attached)
      <4>1. h = history
        BY <3>4
      <4>2. runs[active].attached => Transcript(history, runs[active].chat) = <<>>
        BY <1>2, <3>1, <3>4 DEF Shown
      <4>3. Transcripts(history, runs, 0)
        BY <1>2, <3>1, <4>2, LeftTranscripts
      <4>4. Kept(history, history, Len(runs), active)
        BY SameIs, RearrangedKept
      <4> QED BY <2>1, <4>1, <4>3, <4>4
    <3> QED BY <3>3, <3>4
  <2> HIDE DEF h
  <2>4. rs \in Seq(Runs) /\ Len(rs) = Len(runs) /\ SameTargets(runs, rs)
    <3>1. rs \in Seq(Runs) /\ Len(rs) = Len(runs)
      BY <2>1, StoppedType
    <3>2. \A r \in 1 .. Len(runs) : r # active => rs[r] = runs[r]
      BY <2>1 DEF Stopped
    <3>3. rs[active].chat = runs[active].chat /\ rs[active].attached = runs[active].attached
      BY <2>1 DEF Stopped, Runs
    <3> HIDE DEF rs
    <3> QED BY <3>1, <3>2, <3>3 DEF SameTargets
  <2>5. Transcripts(h, rs, 0)
    BY <2>1, <2>3, <2>4, RetargetTranscripts
  <2>6. Len(h.chats) \in Nat /\ Here \in Places
    BY <2>1, <2>3, ChatsOf, HereType
  <2>7. out \in Outcomes /\ Fresh(out, Len(h.chats))
    <3> HIDE DEF c
    <3> QED BY <2>2, <2>6, HandleCancellationType, HandleCancellationFresh
  <2>8. then(out) \in Outcomes /\ then(out).chat = out.chat /\ then(out).made = out.made
    BY <2>7, ResetType DEF Outcomes
  <2> HIDE DEF rs, then
  <2>9. /\ Transcripts(history', runs', active') /\ Shown(history', runs', active')
        /\ Kept(h, history', Len(runs), active)
    <3>1. Fresh(then(out), Len(h.chats))
      BY <2>7, <2>8 DEF Fresh
    <3> QED BY <2>2, <2>3, <2>4, <2>5, <2>8, <3>1, ProceedTranscripts
  <2>10. Kept(history, history', Len(runs), active)
    BY <2>3, <2>9 DEF Kept
  <2> QED BY <2>9, <2>10 DEF TidyStep
<1> QED BY <1>1, <1>2

\* An answer is in the transcript.
Recorded(h, r) ==
    \E c \in DOMAIN h.chats : \E k \in DOMAIN Transcript(h, c) :
        Transcript(h, c)[k].run = r /\ Transcript(h, c)[k].state = "answered"

LEMMA RecordedGrows ==
    ASSUME NEW h, NEW g, NEW r, Recorded(h, r), Grows(h, g)
    PROVE  Recorded(g, r)
BY DEF Recorded, Grows

\* The answer of the active run is recorded unless its entry is off screen
\* since another project was opened.
LEMMA AnsweredIs ==
    ASSUME Control, Tidy, active # 0
    PROVE  /\ Transcripts(Answered(active), runs, 0)
           /\ \A n : Kept(history, Answered(active), n, active)
           /\ \A c \in DOMAIN history.chats : c \in DOMAIN Answered(active).chats
           /\ runs[active].attached => Recorded(Answered(active), active)
<1> DEFINE a == active
           c == runs[a].chat
           h == Answered(a)
           base == EnsureChat(history)
<1>1. /\ TypeOK /\ history \in GoodHistories /\ runs \in Seq(Runs)
      /\ a \in 1 .. Len(runs) /\ Len(runs) \in Nat /\ a \in Nat
  BY ActiveIs
<1>2. runs[a].pending
  BY <1>1 DEF Control, Exclusive, SingleFlight
<1>3. Transcripts(history, runs, a) /\ Shown(history, runs, a)
  BY DEF Tidy
<1>4. CASE c \in history.open /\ runs[a].attached
  <2>1. c \in DOMAIN history.chats
    BY <1>1, <1>4, ChatsOf
  <2>2. h = SettleEntry(history, c, a, "answered")
    BY <1>2, <1>4 DEF Answered
  <2>3. "answered" \in EntryStates /\ "answered" # "working"
    BY DEF EntryStates
  <2>4. DOMAIN history.chats = DOMAIN h.chats
    BY <1>1, <2>1, <2>2, WithTranscriptIs DEF SettleEntry
  <2> HIDE DEF a, h
  <2>5. /\ runs[a].chat \in DOMAIN history.chats
        /\ h = SettleEntry(history, runs[a].chat, a, "answered")
    BY <2>1, <2>2
  <2> HIDE DEF c
  <2>6. a # 0
    BY DEF a
  <2>7. Transcripts(h, runs, 0)
    BY <1>1, <1>3, <2>3, <2>5, <2>6, SettleTranscripts
  <2>8. \A n : Kept(history, h, n, a)
    BY <1>1, <1>3, <2>3, <2>5, <2>6, SettleTranscripts
  <2>9. PICK k \in DOMAIN Transcript(history, c) : Transcript(history, c)[k].run = a
    BY <1>3, <1>4, <2>6 DEF Shown, c
  <2>10. SettledAs(history, h, c, a, "answered")
    BY <1>1, <1>3, <2>3, <2>5, <2>6, SettleTranscripts DEF c
  <2>11. Recorded(h, a)
    BY <2>1, <2>4, <2>9, <2>10 DEF Recorded, SettledAs
  <2> QED BY <2>4, <2>7, <2>8, <2>11 DEF a, h
<1>5. CASE ~ (c \in history.open /\ runs[a].attached)
  <2>1. Transcripts(history, runs, 0)
    <3>1. runs[a].attached => Transcript(history, c) = <<>>
      BY <1>3, <1>5 DEF Shown
    <3> QED BY <1>3, <3>1, LeftTranscripts
  <2>2. CASE c \in history.open
    <3>1. h = history
      BY <1>2, <1>5, <2>2 DEF Answered
    <3>2. \A n : Kept(history, history, n, a)
      BY SameIs, RearrangedKept
    <3> QED BY <1>5, <2>1, <2>2, <3>1, <3>2
  <2>3. CASE c \notin history.open
    <3>1. /\ base \in GoodHistories /\ base.current \in base.open
          /\ Rearranged(history, base)
          /\ base = history \/ base.current \notin DOMAIN history.chats
      BY <1>1, EnsureChatType, CreateChatIs DEF EnsureChat
    <3>2. h = AddEntry(base, base.current, [run |-> a, state |-> "answered", steps |-> 0])
      BY <2>3 DEF Answered
    <3> HIDE DEF a, h, base
    <3>3. base.current \in DOMAIN base.chats
      BY <3>1, ChatsOf
    <3>4. Transcripts(base, runs, 0)
      <4>1. Shown(history, runs, 0)
        BY DEF Shown
      <4> QED BY <2>1, <3>1, <4>1, RearrangedTranscripts
    <3>5. \A k \in DOMAIN Transcript(base, base.current) :
             Transcript(base, base.current)[k].run # a
      <4>1. CASE base = history
        <5>1. base.current # c
          BY <2>3, <3>1, <4>1
        <5> QED BY <1>3, <3>3, <4>1, <5>1 DEF Transcripts, InFlight, Owned, a
      <4>2. CASE base.current \notin DOMAIN history.chats
        BY <3>1, <3>3, <4>2 DEF Rearranged
      <4> QED BY <3>1, <4>1, <4>2
    <3>6. /\ Transcripts(h, runs, 0) /\ \A n : Kept(base, h, n, a)
          /\ \E k \in DOMAIN Transcript(h, base.current) :
                Transcript(h, base.current)[k]
                    = [run |-> a, state |-> "answered", steps |-> 0]
      BY <1>1, <3>1, <3>2, <3>3, <3>4, <3>5, AddAnswerTranscripts
    <3>7. DOMAIN base.chats = DOMAIN h.chats
      BY <3>1, <3>2, <3>3, WithTranscriptIs DEF AddEntry
    <3>8. Recorded(h, a)
      BY <3>3, <3>6, <3>7 DEF Recorded
    <3>9. \A n : Kept(history, h, n, a)
      <4>1. \A n : Kept(history, base, n, a)
        BY <3>1, RearrangedKept
      <4>2. \A d \in DOMAIN history.chats : d \in DOMAIN base.chats
        BY <3>1 DEF Rearranged
      <4> QED BY <3>6, <4>1, <4>2 DEF Kept
    <3>10. \A d \in DOMAIN history.chats : d \in DOMAIN h.chats
      BY <3>1, <3>7 DEF Rearranged
    <3> QED BY <3>6, <3>8, <3>9, <3>10 DEF a, h
  <2> QED BY <2>2, <2>3
<1> QED BY <1>4, <1>5

\* A step that touches handles only, and attaches none to an entry.
LEMMA RetargetStep ==
    ASSUME Control, Tidy, SameTargets(runs, runs'), UNCHANGED <<history, active>>
    PROVE  TidyStep
<1>1. /\ runs \in Seq(Runs) /\ Len(runs) \in Nat /\ active \in Nat
      /\ active # 0 => active \in 1 .. Len(runs)
  BY ActiveIs
<1> DEFINE rs2 == runs'
<1>2. SameTargets(runs, rs2)
  OBVIOUS
<1> HIDE DEF rs2
<1>3. Transcripts(history, runs, active) /\ Shown(history, runs, active)
  BY DEF Tidy
<1>4. Transcripts(history, rs2, active)
  BY <1>1, <1>2, <1>3, RetargetTranscripts
<1>5. Shown(history, rs2, active)
  <2>1. CASE active = 0
    BY <2>1 DEF Shown
  <2>2. CASE active # 0
    BY <1>1, <1>2, <1>3, <2>2, RetargetTranscripts
  <2> QED BY <2>1, <2>2
<1>6. Kept(history, history, Len(runs), active)
  BY SameIs, RearrangedKept
<1> QED BY <1>4, <1>5, <1>6 DEF TidyStep, rs2

\* What the user does leaves the transcripts in order ...
LEMMA UserTidy == Control /\ Tidy /\ User => TidyStep
<1> SUFFICES ASSUME Control, Tidy, User PROVE TidyStep
  OBVIOUS
<1>1. /\ TypeOK /\ history \in GoodHistories /\ runs \in Seq(Runs) /\ batch \in Batches
      /\ Len(runs) \in Nat /\ active \in Nat
      /\ active # 0 => active \in 1 .. Len(runs) /\ runs[active] \in Runs
      /\ running <=> active # 0
  BY ActiveIs DEF TypeOK
<1>2. Transcripts(history, runs, active) /\ Shown(history, runs, active)
  BY DEF Tidy
<1>3. CASE SendNow
  <2> DEFINE h == EnsureChat(history)
  <2>1. ~running /\ Begin(runs, h, h.current)
    BY <1>3 DEF SendNow
  <2>2. h \in GoodHistories /\ h.current \in h.open /\ Rearranged(history, h)
    BY <1>1, EnsureChatType, CreateChatIs
  <2> HIDE DEF h
  <2>3. active = 0
    BY <1>1, <2>1
  <2>4. Transcripts(h, runs, 0) /\ Kept(history, h, Len(runs), 0)
    BY <1>2, <2>2, <2>3, RearrangedTranscripts, RearrangedKept
  <2>5. \A d \in DOMAIN history.chats : d \in DOMAIN h.chats
    BY <2>2 DEF Rearranged
  <2> QED BY <2>1, <2>2, <2>4, <2>5, IdleBegin
<1>4. CASE SendLater
  <2>1. Rearranged(history, history') /\ UNCHANGED <<runs, active>>
    BY <1>1, <1>4, CreateChatIs DEF SendLater
  <2> QED BY <2>1, RearrangedStep
<1>5. CASE CancelQueued
  BY <1>5, QuietStep DEF CancelQueued
<1>6. CASE Stop
  <2>1. RequestSkipCurrent(batch) \in Batches /\ CancelRun(RequestSkipCurrent(batch), FALSE)
    BY <1>1, <1>6, RequestSkipCurrentType DEF Stop
  <2> QED BY <2>1, CancelRunTidy
<1>7. CASE Regenerate
  <2> DEFINE h == DropLastEntry(history, history.current)
  <2>1. /\ ~running /\ history.current \in history.open
        /\ HasEntries(history, history.current)
        /\ Begin(runs, h, history.current)
    BY <1>7 DEF Regenerate
  <2>2. history.current \in DOMAIN history.chats
    BY <1>1, <2>1, ChatsOf
  <2>3. h \in GoodHistories
    BY <1>1, <2>1, <2>2, DropLastEntryType
  <2>4. active = 0
    BY <1>1, <2>1
  <2>5. /\ Transcripts(h, runs, 0) /\ \A n, a : Kept(history, h, n, a)
        /\ h.open = history.open /\ DOMAIN h.chats = DOMAIN history.chats
    BY <1>1, <1>2, <2>1, <2>2, <2>4, DropLastTranscripts
  <2> HIDE DEF h
  <2> QED BY <2>1, <2>3, <2>5, IdleBegin
<1>8. CASE NewChat
  <2>1. Rearranged(history, history') /\ UNCHANGED <<runs, active>>
    BY <1>1, <1>8, CreateChatIs DEF NewChat
  <2> QED BY <2>1, RearrangedStep
<1>9. CASE SelectChat
  <2>1. PICK c \in history.open : history' = Select(history, c)
    BY <1>9 DEF SelectChat
  <2>2. c \in Nat
    BY <1>1, ChatsOf
  <2>3. Rearranged(history, history') /\ UNCHANGED <<runs, active>>
    BY <1>1, <1>9, <2>1, <2>2, SelectIs, SameIs DEF SelectChat
  <2> QED BY <2>3, RearrangedStep
<1>10. CASE AskDelete
  BY <1>10, QuietStep DEF AskDelete
<1>11. CASE AnswerDelete
  <2>1. Rearranged(history, history') /\ UNCHANGED <<runs, active>>
    BY <1>1, <1>11, RemoveChatsIs, SameIs DEF AnswerDelete
  <2> QED BY <2>1, RearrangedStep
<1>12. CASE StartBatch
  <2>1. PICK n \in 1 .. MaxTargets : \E out \in Start(n, Len(history.chats), Here) :
           Proceed(runs, history, 0, out)
    BY <1>12 DEF StartBatch
  <2>2. PICK out \in Start(n, Len(history.chats), Here) : Proceed(runs, history, 0, out)
    BY <2>1
  <2>3. n \in Nat \ {0} /\ Here \in Places /\ Len(history.chats) \in Nat
    BY <1>1, HereType, BoundsAssumption, ChatsOf
  <2>4. out \in Outcomes /\ Fresh(out, Len(history.chats))
    BY <2>2, <2>3, StartType, StartFresh
  <2>5. active = 0
    BY <1>1, <1>12 DEF StartBatch
  <2>6. /\ Transcripts(history', runs', active') /\ Shown(history', runs', active')
        /\ Kept(history, history', Len(runs), active)
    BY <1>1, <1>2, <2>2, <2>4, <2>5, ProceedTranscripts
  <2> QED BY <2>6 DEF TidyStep
<1>13. CASE StopBatch
  <2>1. CancelAll(batch) \in Batches /\ CancelRun(CancelAll(batch), FALSE)
    BY <1>1, <1>13, CancelAllType DEF StopBatch
  <2> QED BY <2>1, CancelRunTidy
<1>14. CASE CloseBatch
  BY <1>14, QuietStep DEF CloseBatch
<1>15. CASE AskClose
  BY <1>15, QuietStep DEF AskClose
<1>16. CASE AnswerClose
  <2>1. CASE CancelRun(CancelAll(batch), TRUE)
    BY <1>1, <2>1, CancelAllType, CancelRunTidy
  <2>2. CASE UNCHANGED <<runs, active, running, gui, history, batch>>
    BY <2>2, QuietStep
  <2> QED BY <1>16, <2>1, <2>2 DEF AnswerClose
<1>17. CASE SelectDocument
  BY <1>17, QuietStep DEF SelectDocument
<1>18. CASE SwitchProject
  <2>1. PICK p \in (1 .. NumProjects) : history' = OpenProject(history, p)
    BY <1>18 DEF SwitchProject
  <2> DEFINE g == history'
             rs2 == runs'
  <2>2. /\ DOMAIN history.chats \subseteq DOMAIN g.chats
        /\ \A c \in DOMAIN history.chats : Transcript(g, c) = Transcript(history, c)
        /\ \A c \in DOMAIN g.chats : c \in DOMAIN history.chats \/ Transcript(g, c) = <<>>
    <3>1. p \in Nat
      BY NumProjectsAssumption
    <3> QED BY <1>1, <2>1, <3>1, OpenProjectIs
  <2>3. UNCHANGED active /\ rs2 = [r \in DOMAIN runs |-> [runs[r] EXCEPT !.attached = FALSE]]
    BY <1>18 DEF SwitchProject
  <2> HIDE DEF g, rs2
  <2>4. /\ Len(rs2) = Len(runs)
        /\ \A r \in 1 .. Len(runs) : rs2[r].chat = runs[r].chat /\ ~rs2[r].attached
    <3>1. \A r \in 1 .. Len(runs) : runs[r] \in Runs
      BY <1>1
    <3>2. DOMAIN runs = 1 .. Len(runs)
      BY <1>1
    <3>3. Len(rs2) = Len(runs)
      BY <1>1, <2>3, <3>2
    <3> QED BY <2>3, <3>1, <3>2, <3>3 DEF Runs
  <2>5. Known(g, rs2) /\ Single(g) /\ InFlight(g, active)
    BY <1>2, <2>2, <2>4 DEF Transcripts, Known, Single, InFlight
  <2>6. Owned(g, rs2, active)
    <3> SUFFICES ASSUME NEW c \in DOMAIN g.chats, NEW k \in DOMAIN Transcript(g, c),
                        Transcript(g, c)[k].state = "working"
                 PROVE  LET e == Transcript(g, c)[k]
                        IN  e.run # 0 /\ rs2[e.run].chat = c /\ ~rs2[e.run].attached
      BY DEF Owned
    <3>1. c \in DOMAIN history.chats /\ Transcript(g, c) = Transcript(history, c)
      BY <2>2
    <3> DEFINE e == Transcript(g, c)[k]
    <3>2. e.run \in 0 .. Len(runs) /\ e.run # 0 /\ runs[e.run].chat = c
      BY <1>2, <3>1 DEF Transcripts, Known, Owned
    <3>3. e.run \in 1 .. Len(runs)
      BY <1>1, <3>2
    <3> QED BY <2>4, <3>2, <3>3
  <2>7. Shown(g, rs2, active)
    BY <1>1, <2>4 DEF Shown
  <2>8. Kept(history, g, Len(runs), active)
    BY <2>2 DEF Kept, EntriesOf, Transcript
  <2> QED BY <2>3, <2>5, <2>6, <2>7, <2>8 DEF TidyStep, Transcripts, g, rs2
<1> QED
  BY <1>3, <1>4, <1>5, <1>6, <1>7, <1>8, <1>9, <1>10, <1>11, <1>12, <1>13, <1>14,
     <1>15, <1>16, <1>17, <1>18 DEF User

\* ... so does what the worker does ...
LEMMA WorkerTidy == Control /\ Tidy /\ Worker => TidyStep
<1> SUFFICES ASSUME Control, Tidy, Worker PROVE TidyStep
  OBVIOUS
<1>1. UNCHANGED <<active, history>>
  BY DEF Worker, Execute, ReportProgress, Return
<1>2. PICK r \in DOMAIN runs :
         \/ \E t : runs' = [runs EXCEPT ![r].stage = t]
         \/ runs' = [runs EXCEPT ![r].sent = @ + 1]
  BY DEF Worker, Execute, ReportProgress, Return
<1>3. /\ DOMAIN runs = 1 .. Len(runs) /\ Len(runs) \in Nat
      /\ \A s \in 1 .. Len(runs) : runs[s] \in Runs
  <2>1. runs \in Seq(Runs)
    BY ActiveIs
  <2> QED BY <2>1
<1>4. DOMAIN runs' = DOMAIN runs
      /\ \A s \in DOMAIN runs : runs'[s].chat = runs[s].chat
                                /\ runs'[s].attached = runs[s].attached
  <2>1. CASE \E t : runs' = [runs EXCEPT ![r].stage = t]
    <3>1. PICK t : runs' = [runs EXCEPT ![r].stage = t]
      BY <2>1
    <3> QED BY <1>3, <3>1 DEF Runs
  <2>2. CASE runs' = [runs EXCEPT ![r].sent = @ + 1]
    BY <1>3, <2>2 DEF Runs
  <2> QED BY <1>2, <2>1, <2>2
<1>5. Len(runs') = Len(runs)
  <2>1. runs' \in Seq(Runs)
    BY WorkerType DEF Control, TypeOK
  <2>2. DOMAIN runs' = 1 .. Len(runs') /\ Len(runs') \in Nat
    BY <2>1
  <2> QED BY <1>3, <1>4, <2>2
<1>6. SameTargets(runs, runs')
  BY <1>3, <1>4, <1>5 DEF SameTargets
<1> QED BY <1>1, <1>6, RetargetStep

\* An answer leaves them in order, and is in one of them.
LEMMA ShowAnswerTidy ==
    ASSUME Control, Tidy, ShowAnswer
    PROVE  /\ TidyStep /\ active # 0 /\ active = Head(gui).run
           /\ runs[active].attached => Recorded(history', active)
<1> DEFINE rs == [runs EXCEPT ![active].stage = "over", ![active].pending = FALSE]
           h == Answered(active)
<1>1. /\ TypeOK /\ history \in GoodHistories /\ runs \in Seq(Runs) /\ batch \in Batches
      /\ Len(runs) \in Nat /\ active \in Nat /\ DOMAIN runs = 1 .. Len(runs)
      /\ active # 0 => active \in 1 .. Len(runs) /\ runs[active] \in Runs
  BY ActiveIs DEF TypeOK
<1>2. gui # <<>> /\ Turn("finalize") /\ ~runs[Head(gui).run].cancelled
  BY DEF ShowAnswer, Turn
<1>3. active = Head(gui).run /\ active # 0
  <2> DEFINE r == Head(gui).run
  <2>1. 1 \in DOMAIN gui /\ IsAnswer(gui, 1, r)
    BY <1>1, <1>2, TailIs DEF Turn, IsAnswer, TypeOK
  <2>2. Delivery(runs, gui)
    BY DeliveryIs DEF Control
  <2>3. r \in DOMAIN runs /\ runs[r].stage = "posted"
    BY <2>1, <2>2 DEF Delivery, IsAnswer
  <2>4. r = active
    BY <1>2, <2>3 DEF Control, Exclusive, NoUnownedWork
  <2> QED BY <1>1, <2>3, <2>4
<1>4. PICK out \in HandleCompletion(batch, runs[active].chat, Head(gui).ok,
                                    Len(h.chats), Here) : Proceed(rs, h, 0, out)
  BY <1>3 DEF ShowAnswer
<1>5. Head(gui).ok \in BOOLEAN
  BY <1>1, <1>2, TurnType DEF Callbacks
<1>6. h \in GoodHistories
  BY <1>1, AnsweredType
<1>7. /\ Transcripts(h, runs, 0) /\ \A n : Kept(history, h, n, active)
      /\ \A c \in DOMAIN history.chats : c \in DOMAIN h.chats
      /\ runs[active].attached => Recorded(h, active)
  BY <1>3, AnsweredIs
<1>8. rs \in Seq(Runs) /\ SameTargets(runs, rs)
  <2> DEFINE new == [runs[active] EXCEPT !.stage = "over", !.pending = FALSE]
  <2>1. new \in Runs /\ new.chat = runs[active].chat /\ new.attached = runs[active].attached
    BY <1>1, <1>3 DEF Runs, Stages
  <2>2. rs = [runs EXCEPT ![active] = new]
    BY <1>1
  <2> HIDE DEF new, rs
  <2>3. rs \in Seq(Runs) /\ Len(rs) = Len(runs)
    BY <1>1, <1>3, <2>1, <2>2, RunUpdateType
  <2> QED BY <1>1, <1>3, <2>1, <2>2, <2>3 DEF SameTargets
<1> HIDE DEF rs, h
<1>9. Transcripts(h, rs, 0)
  BY <1>1, <1>7, <1>8, RetargetTranscripts
<1>10. Len(h.chats) \in Nat /\ Here \in Places
  BY <1>1, <1>6, ChatsOf, HereType
<1>11. out \in Outcomes /\ Fresh(out, Len(h.chats))
  <2> DEFINE c == runs[active].chat
  <2>1. c \in Nat
    BY <1>1, <1>3 DEF Runs
  <2> HIDE DEF c
  <2> QED BY <1>1, <1>4, <1>5, <1>10, <2>1, HandleCompletionType, HandleCompletionFresh DEF c
<1>12. /\ Transcripts(history', runs', active') /\ Shown(history', runs', active')
       /\ Kept(h, history', Len(rs), active) /\ Grows(h, history')
  BY <1>4, <1>6, <1>8, <1>9, <1>11, ProceedTranscripts
<1>13. Kept(history, history', Len(runs), active)
  BY <1>7, <1>8, <1>12 DEF Kept, SameTargets
<1>14. runs[active].attached => Recorded(history', active)
  BY <1>7, <1>12, RecordedGrows
<1> QED BY <1>3, <1>12, <1>13, <1>14 DEF TidyStep

\* ... and so do the callbacks.
LEMMA EventLoopTidy == Control /\ Tidy /\ EventLoop => TidyStep
<1> SUFFICES ASSUME Control, Tidy, EventLoop PROVE TidyStep
  OBVIOUS
<1>1. /\ TypeOK /\ history \in GoodHistories /\ runs \in Seq(Runs)
      /\ Len(runs) \in Nat /\ active \in Nat /\ DOMAIN runs = 1 .. Len(runs)
      /\ active # 0 => active \in 1 .. Len(runs) /\ runs[active] \in Runs
      /\ running <=> active # 0
  BY ActiveIs
<1>2. Transcripts(history, runs, active) /\ Shown(history, runs, active)
  BY DEF Tidy
<1>3. CASE DropAnswer
  <2> DEFINE r == Head(gui).run
  <2>1. runs' = [runs EXCEPT ![r].stage = "over"] /\ UNCHANGED <<active, history>>
    BY <1>3 DEF DropAnswer
  <2> HIDE DEF r
  <2>2. \A s \in 1 .. Len(runs) : runs[s] \in Runs
    BY <1>1
  <2>3. /\ DOMAIN runs' = DOMAIN runs
        /\ \A s \in 1 .. Len(runs) : runs'[s].chat = runs[s].chat
                                     /\ runs'[s].attached = runs[s].attached
    BY <1>1, <2>1, <2>2 DEF Runs
  <2>4. Len(runs') = Len(runs)
    BY <1>1, <2>1
  <2>5. SameTargets(runs, runs')
    BY <2>3, <2>4 DEF SameTargets
  <2> QED BY <2>1, <2>5, RetargetStep
<1>4. CASE ShowAnswer
  BY <1>4, ShowAnswerTidy
<1>5. CASE ShowProgress
  <2> DEFINE c == runs[active].chat
             g == StreamEntry(history, c, active)
  <2>1. /\ UNCHANGED <<runs, active>>
        /\ \/ UNCHANGED history
           \/ active # 0 /\ runs[active].attached /\ history' = g
    <3>1. Head(gui).run \in DOMAIN runs
      <4>1. gui # <<>> /\ Head(gui).kind = "stream"
        BY <1>5 DEF ShowProgress, Turn
      <4>2. 1 \in DOMAIN gui /\ gui[1] = Head(gui)
        BY <1>1, <4>1 DEF TypeOK
      <4> QED BY <4>1, <4>2 DEF Control, AnswerOnItsWay
    <3> QED BY <1>1, <1>5, <3>1 DEF ShowProgress
  <2>2. CASE UNCHANGED history
    BY <2>1, <2>2, QuietStep
  <2>3. CASE active # 0 /\ runs[active].attached /\ history' = g
    <3>1. c \in DOMAIN history.chats
      BY <1>2, <2>3 DEF Shown
    <3>2. /\ Transcripts(g, runs, active) /\ Shown(g, runs, active)
          /\ \A n : Kept(history, g, n, active)
      <4> HIDE DEF c
      <4> QED BY <1>1, <1>2, <3>1, StreamTranscripts
    <3> HIDE DEF g
    <3> QED BY <2>1, <2>3, <3>2 DEF TidyStep
  <2> QED BY <2>1, <2>2, <2>3
<1>6. CASE FlushNothing
  BY <1>6, QuietStep DEF FlushNothing
<1>7. CASE FlushPrompt
  <2>1. PICK k \in DOMAIN promptQueue :
           /\ promptQueue[k] \in history.open
           /\ Begin(runs, Select(history, promptQueue[k]), promptQueue[k])
    BY <1>7 DEF FlushPrompt
  <2> DEFINE c == promptQueue[k]
             h == Select(history, c)
  <2>2. ~running /\ active = 0
    BY <1>1, <1>7 DEF FlushPrompt
  <2>3. c \in Nat
    BY <1>1, <2>1, ChatsOf
  <2>4. Begin(runs, h, c) /\ c \in history.open
    BY <2>1
  <2> HIDE DEF c
  <2>5. /\ h \in GoodHistories /\ h.open = history.open /\ Rearranged(history, h)
    BY <1>1, <2>3, SelectType, SelectIs, SameIs
  <2> HIDE DEF h
  <2>6. Transcripts(h, runs, 0) /\ Kept(history, h, Len(runs), 0)
    BY <1>2, <2>2, <2>5, RearrangedTranscripts, RearrangedKept
  <2>7. \A d \in DOMAIN history.chats : d \in DOMAIN h.chats
    BY <2>5 DEF Rearranged
  <2> QED BY <2>2, <2>4, <2>5, <2>6, <2>7, IdleBegin
<1>8. CASE CleanUp
  <2>1. Rearranged(history, history') /\ UNCHANGED <<runs, active>>
    BY <1>1, <1>8, PruneEmptyIs DEF CleanUp
  <2> QED BY <2>1, RearrangedStep
<1> QED BY <1>3, <1>4, <1>5, <1>6, <1>7, <1>8 DEF EventLoop

LEMMA InitTidy == Init => Tidy
<1> SUFFICES ASSUME Init PROVE Tidy
  OBVIOUS
<1> DEFINE first == [run |-> 0, state |-> "answered", steps |-> 0]
           cs == [p \in 1 .. NumProjects |-> [home |-> p, entries |-> <<first>>]]
           h == [chats |-> cs, open |-> {}, current |-> 0, project |-> 1]
           g == OpenProject(h, 1)
<1>1. runs = <<>> /\ active = 0 /\ history = g
  BY DEF Init
<1>2. h \in GoodHistories
  <2>1. first \in Entries
    BY DEF Entries, EntryStates
  <2>2. NumProjects \in Nat
    BY NumProjectsAssumption
  <2> HIDE DEF first
  <2>3. \A p \in 1 .. NumProjects : [home |-> p, entries |-> <<first>>] \in Chats
    BY <2>1, <2>2 DEF Chats
  <2>4. cs \in Seq(Chats)
    BY <2>2, <2>3
  <2> HIDE DEF cs
  <2> QED BY <2>4 DEF GoodHistories, Histories
<1>3. /\ DOMAIN h.chats = 1 .. NumProjects
      /\ \A c \in 1 .. NumProjects : Transcript(h, c) = <<first>>
  BY DEF Transcript
<1>4. DOMAIN <<first>> = {1} /\ <<first>>[1].run = 0 /\ <<first>>[1].state = "answered"
  OBVIOUS
<1> HIDE DEF h, first
<1>5. \A c \in DOMAIN g.chats : Transcript(g, c) = <<first>> \/ Transcript(g, c) = <<>>
  <2>1. /\ \A c \in DOMAIN h.chats : Transcript(g, c) = Transcript(h, c)
        /\ \A c \in DOMAIN g.chats : c \in DOMAIN h.chats \/ Transcript(g, c) = <<>>
    BY <1>2, OpenProjectIs, 1 \in Nat
  <2> HIDE DEF g
  <2> QED BY <1>3, <2>1
<1> HIDE DEF g
<1>6. \A c \in DOMAIN g.chats : \A k \in DOMAIN Transcript(g, c) :
         Transcript(g, c)[k].run = 0 /\ Transcript(g, c)[k].state = "answered"
  <2>1. \A k \in DOMAIN <<>> : FALSE
    <3>1. <<>> \in Seq(Nat) /\ Len(<<>>) = 0
      OBVIOUS
    <3> QED BY <3>1
  <2> QED BY <1>4, <1>5, <2>1
<1>7. Len(runs) = 0 /\ 0 \in 0 .. 0
  BY <1>1
<1> QED
  BY <1>1, <1>6, <1>7 DEF Tidy, Transcripts, Shown, Known, Single, Owned, InFlight

LEMMA NextTidy == Control /\ Tidy /\ [Next]_vars => TidyStep
<1>1. Control /\ Tidy /\ UNCHANGED vars => TidyStep
  BY QuietStep DEF vars
<1> QED BY <1>1, UserTidy, WorkerTidy, EventLoopTidy DEF Next

LEMMA AlwaysTidy == Spec => [](Control /\ Tidy)
<1>1. TidyStep => Tidy'
  BY DEF TidyStep, Tidy
<1> QED BY <1>1, InitTidy, NextTidy, AlwaysControl, PTL DEF Spec

-----------------------------------------------------------------------------
(* The transcripts as the user sees them.                                  *)

\* The transcript never shows "Working" for a run that is not in flight,
\* whatever projects were opened meanwhile and whatever they were opened during.
THEOREM WorkingIsOwned == Spec => []WorkingIsInFlight
<1>1. Control /\ Tidy => WorkingIsInFlight
  <2> SUFFICES ASSUME Control, Tidy, NEW c \in history.open,
                      NEW k \in DOMAIN history.chats[c].entries,
                      history.chats[c].entries[k].state = "working"
               PROVE  LET e == history.chats[c].entries[k]
                      IN  e.run = active \/ ~runs[e.run].attached
    BY DEF WorkingIsInFlight
  <2>1. c \in DOMAIN history.chats
    BY ActiveIs, ChatsOf
  <2> QED BY <2>1 DEF Tidy, Transcripts, Owned, Transcript
<1> QED BY <1>1, AlwaysTidy, PTL

\* A settled entry is history: no late answer, no late streamed update and no
\* second cancellation changes it or adds another entry of its run.
THEOREM SettledEntriesAreFinal == Spec => SettledEntryIsFinal
<1> DEFINE IsFinal(c, r, e) ==
              e.state # "working" => EntriesOf(history', c, r) \in {{}, {e}}
<1>1. ASSUME Control, Tidy, TidyStep
      PROVE  \A c \in DOMAIN history.chats : \A r \in DOMAIN runs :
                \A e \in EntriesOf(history, c, r) : IsFinal(c, r, e)
  <2> SUFFICES ASSUME NEW c \in DOMAIN history.chats, NEW r \in DOMAIN runs,
                      NEW k \in DOMAIN Transcript(history, c),
                      Transcript(history, c)[k].run = r,
                      Transcript(history, c)[k].state # "working"
               PROVE  EntriesOf(history', c, r) \in {{}, {Transcript(history, c)[k]}}
    BY <1>1 DEF EntriesOf, Transcript
  <2>1. r \in 1 .. Len(runs) /\ r # 0 /\ active \in Nat
    BY <1>1, ActiveIs
  <2>2. r # active
    BY <1>1, <2>1 DEF Tidy, Transcripts, InFlight
  <2>3. EntriesOf(history', c, r) \subseteq EntriesOf(history, c, r)
    BY <1>1, <2>1, <2>2 DEF TidyStep, Kept
  <2>4. \A l \in DOMAIN Transcript(history, c) : Transcript(history, c)[l].run = r => l = k
    BY <1>1, <2>1 DEF Tidy, Transcripts, Single
  <2>5. EntriesOf(history, c, r) = {Transcript(history, c)[k]}
    BY <2>4 DEF EntriesOf, Transcript
  <2> QED BY <2>3, <2>5
<1>2. Control /\ Tidy /\ [Next]_vars =>
         [\A c \in DOMAIN history.chats : \A r \in DOMAIN runs :
            \A e \in EntriesOf(history, c, r) :
               e.state # "working" => EntriesOf(history', c, r) \in {{}, {e}}]_vars
  BY <1>1, NextTidy
<1> QED BY <1>2, AlwaysTidy, PTL DEF Spec, SettledEntryIsFinal

\* A step that ends a run without cancelling it is the one that shows its answer.
LEMMA EndsByAnswer ==
    ASSUME Control, [Next]_vars, NEW r \in DOMAIN runs,
           runs[r].pending, ~runs'[r].pending, ~runs'[r].cancelled
    PROVE  ShowAnswer /\ r = active
<1>1. /\ runs \in Seq(Runs) /\ Len(runs) \in Nat /\ DOMAIN runs = 1 .. Len(runs)
      /\ r = active /\ runs[r] \in Runs /\ active # 0
  BY ActiveIs, RunAt DEF Control, Exclusive, SingleFlight
<1>2. ASSUME NEW h, NEW c, Begin(runs, h, c) PROVE FALSE
  BY <1>1, <1>2 DEF Begin
<1>3. ASSUME NEW b, NEW closing, CancelRun(b, closing) PROVE FALSE
  <2>1. PICK h, out : Proceed(Stopped(active), h, 0, out)
    BY <1>1, <1>3 DEF CancelRun
  <2>2. /\ Stopped(active)[r].cancelled = TRUE
        /\ Stopped(active) \in Seq(Runs) /\ r \in DOMAIN Stopped(active)
    BY <1>1, StoppedType, StoppedIdle DEF Stopped, Runs, Control
  <2> DEFINE rs == Stopped(active)
  <2>3. runs' = rs \/ runs' = Append(rs, NewRun(out.chat))
    BY <2>1 DEF Proceed, Begin
  <2> HIDE DEF rs
  <2>4. runs'[r] = rs[r]
    BY <2>2, <2>3 DEF rs
  <2> QED BY <2>2, <2>4 DEF rs
<1>4. runs' # runs
  OBVIOUS
<1>5. ASSUME User PROVE FALSE
  <2>1. ASSUME SwitchProject PROVE FALSE
    BY <1>1, <2>1 DEF SwitchProject, Runs
  <2>2. ASSUME StartBatch PROVE FALSE
    <3>1. ~running
      BY <2>2 DEF StartBatch
    <3> QED BY <1>1, <3>1, ActiveIs
  <2>3. ASSUME SendNow \/ Regenerate PROVE FALSE
    BY <1>2, <2>3 DEF SendNow, Regenerate
  <2>4. ASSUME Stop \/ StopBatch \/ AnswerClose PROVE FALSE
    BY <1>3, <1>4, <2>4 DEF Stop, StopBatch, AnswerClose
  <2> QED
    BY <1>4, <1>5, <2>1, <2>2, <2>3, <2>4
       DEF User, SendLater, CancelQueued, NewChat, SelectChat, AskDelete,
           AnswerDelete, CloseBatch, AskClose, SelectDocument
<1>6. ASSUME Worker PROVE FALSE
  <2>1. PICK s \in DOMAIN runs :
           \/ \E t : runs' = [runs EXCEPT ![s].stage = t]
           \/ runs' = [runs EXCEPT ![s].sent = @ + 1]
    BY <1>6 DEF Worker, Execute, ReportProgress, Return
  <2>2. runs'[r].pending = runs[r].pending
    <3>1. CASE \E t : runs' = [runs EXCEPT ![s].stage = t]
      <4>1. PICK t : runs' = [runs EXCEPT ![s].stage = t]
        BY <3>1
      <4> QED BY <1>1, <4>1 DEF Runs
    <3>2. CASE runs' = [runs EXCEPT ![s].sent = @ + 1]
      BY <1>1, <3>2 DEF Runs
    <3> QED BY <2>1, <3>1, <3>2
  <2> QED BY <2>2
<1>7. ASSUME EventLoop, ~ShowAnswer PROVE FALSE
  <2>1. ASSUME DropAnswer PROVE FALSE
    <3> DEFINE s == Head(gui).run
    <3>1. runs' = [runs EXCEPT ![s].stage = "over"]
      BY <2>1 DEF DropAnswer
    <3> HIDE DEF s
    <3>2. runs'[r].pending = runs[r].pending
      BY <1>1, <3>1 DEF Runs
    <3> QED BY <3>2
  <2>2. ASSUME FlushPrompt PROVE FALSE
    BY <1>2, <2>2 DEF FlushPrompt
  <2> QED BY <1>4, <1>7, <2>1, <2>2 DEF EventLoop, ShowProgress, FlushNothing, CleanUp
<1>8. ~ UNCHANGED vars
  BY <1>4 DEF vars
<1> QED BY <1>1, <1>5, <1>6, <1>7, <1>8 DEF Next

\* The operations on the list of conversations leave the project open.
LEMMA ProjectKept ==
    ASSUME NEW h \in GoodHistories
    PROVE  /\ CreateChat(h).project = h.project /\ EnsureChat(h).project = h.project
           /\ \A c : Select(h, c).project = h.project
           /\ \A c, es : WithTranscript(h, c, es).project = h.project
           /\ \A gone : RemoveChats(h, gone).project = h.project
           /\ PruneEmpty(h).project = h.project
           /\ \A n \in Nat : OpenBatchChats(h, n).project = h.project
<1>1. \A g \in GoodHistories : \A c : Select(g, c).project = g.project
  BY DEF Select, GoodHistories, Histories
<1>2. \A n \in Nat : RegisterChats(h, n) \in GoodHistories
                    /\ RegisterChats(h, n).project = h.project
  BY RegisterChatsType
<1>3. CreateChat(h).project = h.project /\ EnsureChat(h).project = h.project
  BY <1>1, <1>2, 1 \in Nat DEF CreateChat, EnsureChat
<1>4. \A n \in Nat : OpenBatchChats(h, n).project = h.project
  <2> SUFFICES ASSUME NEW n \in Nat PROVE OpenBatchChats(h, n).project = h.project
    OBVIOUS
  <2> DEFINE g == RegisterChats(h, n)
  <2>1. OpenBatchChats(h, n) = g \/ OpenBatchChats(h, n) = Select(g, Len(h.chats) + n)
    BY DEF OpenBatchChats
  <2>2. g \in GoodHistories /\ g.project = h.project
    BY <1>2
  <2> HIDE DEF g
  <2> QED BY <1>1, <2>1, <2>2
<1>5. \A gone : RemoveChats(h, gone).project = h.project
  BY DEF RemoveChats, GoodHistories, Histories
<1>6. PruneEmpty(h).project = h.project
  BY DEF PruneEmpty, GoodHistories, Histories
<1> QED BY <1>1, <1>3, <1>4, <1>5, <1>6, WithTranscriptKeeps

\* While one project is open, the entry of every run stays on the screen.
OnScreen == history.project = 1 /\ \A r \in DOMAIN runs : runs[r].attached

LEMMA BeginOnScreen ==
    ASSUME NEW rs \in Seq(Runs), \A r \in DOMAIN rs : rs[r].attached,
           NEW h \in GoodHistories, h.project = 1, NEW c, Begin(rs, h, c)
    PROVE  OnScreen'
<1>1. runs' = Append(rs, NewRun(c)) /\ NewRun(c).attached
  BY DEF Begin, NewRun
<1>2. history'.project = 1
  BY ProjectKept DEF Begin, AddEntry
<1>3. \A r \in DOMAIN runs' : runs'[r].attached
  BY <1>1
<1> QED BY <1>2, <1>3 DEF OnScreen

LEMMA ProceedOnScreen ==
    ASSUME NEW rs \in Seq(Runs), \A r \in DOMAIN rs : rs[r].attached,
           NEW h \in GoodHistories, h.project = 1, NEW left,
           NEW out \in Outcomes, Proceed(rs, h, left, out)
    PROVE  OnScreen'
<1> DEFINE g == OpenBatchChats(h, out.made)
<1>1. out.made \in Nat
  BY DEF Outcomes
<1>2. g \in GoodHistories /\ g.project = 1
  BY <1>1, ProjectKept, OpenBatchChatsType
<1>3. CASE out.chat = 0
  BY <1>2, <1>3 DEF Proceed, OnScreen
<1>4. CASE out.chat # 0
  <2>1. Begin(rs, g, out.chat)
    BY <1>4 DEF Proceed
  <2> HIDE DEF g
  <2> QED BY <1>2, <2>1, BeginOnScreen
<1> QED BY <1>3, <1>4

LEMMA CancelRunOnScreen ==
    ASSUME Control, OnScreen, NEW b \in Batches, NEW closing \in BOOLEAN,
           CancelRun(b, closing)
    PROVE  OnScreen'
<1> DEFINE c == runs[active].chat
           h == IF c \in history.open /\ runs[active].attached
                THEN SettleEntry(history, c, active, "cancelled")
                ELSE history
           then(out) == IF closing THEN [out EXCEPT !.batch = Reset] ELSE out
           rs == Stopped(active)
<1>1. CASE active = 0
  BY <1>1 DEF CancelRun, OnScreen
<1>2. CASE active # 0
  <2>1. PICK out \in HandleCancellation(b, c, Len(h.chats), Here) :
           Proceed(rs, h, 0, then(out))
    BY <1>2 DEF CancelRun
  <2>2. h \in GoodHistories /\ h.project = 1
    <3>1. history \in GoodHistories /\ history.project = 1
      BY ActiveIs DEF OnScreen
    <3>2. SettleEntry(history, c, active, "cancelled") \in GoodHistories
      BY <3>1, SettleEntryType DEF EntryStates
    <3>3. SettleEntry(history, c, active, "cancelled").project = 1
      BY <3>1, ProjectKept DEF SettleEntry
    <3> QED BY <3>1, <3>2, <3>3
  <2>3. rs \in Seq(Runs) /\ \A r \in DOMAIN rs : rs[r].attached
    <3>1. runs \in Seq(Runs) /\ \A r \in DOMAIN runs : runs[r] \in Runs /\ runs[r].attached
      BY ActiveIs DEF OnScreen
    <3>2. \A r \in DOMAIN runs : rs[r].attached
      BY <3>1 DEF Stopped, Runs
    <3>3. DOMAIN rs = DOMAIN runs /\ rs \in Seq(Runs)
      BY <3>1, StoppedType DEF Stopped
    <3> QED BY <3>2, <3>3
  <2>4. out \in Outcomes
    <3> HIDE DEF c
    <3>1. Len(h.chats) \in Nat /\ Here \in Places
      BY <2>2, ChatsOf, HereType, ActiveIs
    <3> HIDE DEF h
    <3> QED BY <2>1, <3>1, HandleCancellationType
  <2>5. then(out) \in Outcomes
    BY <2>4, ResetType DEF Outcomes
  <2> HIDE DEF h, rs, then
  <2> QED BY <2>1, <2>2, <2>3, <2>5, ProceedOnScreen
<1> QED BY <1>1, <1>2

LEMMA NextOnScreen ==
    NumProjects = 1 /\ Control /\ OnScreen /\ [Next]_vars => OnScreen'
<1> SUFFICES ASSUME NumProjects = 1, Control, OnScreen, [Next]_vars PROVE OnScreen'
  OBVIOUS
<1>1. /\ TypeOK /\ runs \in Seq(Runs) /\ history \in GoodHistories /\ batch \in Batches
      /\ history.project = 1 /\ \A r \in DOMAIN runs : runs[r].attached
      /\ \A r \in DOMAIN runs : runs[r] \in Runs
      /\ active # 0 => active \in DOMAIN runs
  <2>1. runs \in Seq(Runs)
    BY ActiveIs
  <2> QED BY <2>1, ActiveIs DEF OnScreen, TypeOK
<1>2. ASSUME UNCHANGED runs, history'.project = history.project PROVE OnScreen'
  BY <1>1, <1>2 DEF OnScreen
<1>3. ASSUME NEW r, NEW v,
             \/ runs' = [runs EXCEPT ![r].stage = v]
             \/ runs' = [runs EXCEPT ![r].sent = v],
             UNCHANGED history
      PROVE  OnScreen'
  <2>1. CASE runs' = [runs EXCEPT ![r].stage = v]
    BY <1>1, <1>3, <2>1 DEF OnScreen, Runs
  <2>2. CASE runs' = [runs EXCEPT ![r].sent = v]
    BY <1>1, <1>3, <2>2 DEF OnScreen, Runs
  <2> QED BY <1>3, <2>1, <2>2
<1>4. CASE User
  <2>1. ASSUME SwitchProject PROVE FALSE
    <3>1. PICK p \in 1 .. NumProjects : p # history.project
      BY <2>1 DEF SwitchProject
    <3> QED BY <1>1, <3>1
  <2>2. CASE SendNow
    <3> DEFINE h == EnsureChat(history)
    <3>1. Begin(runs, h, h.current)
      BY <2>2 DEF SendNow
    <3>2. h \in GoodHistories /\ h.project = 1
      BY <1>1, EnsureChatType, ProjectKept
    <3> HIDE DEF h
    <3> QED BY <1>1, <3>1, <3>2, BeginOnScreen
  <2>3. CASE Regenerate
    <3> DEFINE h == DropLastEntry(history, history.current)
    <3>1. Begin(runs, h, history.current) /\ history.current \in history.open
          /\ HasEntries(history, history.current)
      BY <2>3 DEF Regenerate
    <3>2. h \in GoodHistories
      BY <1>1, <3>1, ChatsOf, DropLastEntryType
    <3>3. h.project = 1
      BY <1>1, ProjectKept DEF DropLastEntry
    <3> HIDE DEF h
    <3> QED BY <1>1, <3>1, <3>2, <3>3, BeginOnScreen
  <2>4. CASE StartBatch
    <3>1. PICK n \in 1 .. MaxTargets : \E out \in Start(n, Len(history.chats), Here) :
             Proceed(runs, history, 0, out)
      BY <2>4 DEF StartBatch
    <3>2. PICK out \in Start(n, Len(history.chats), Here) : Proceed(runs, history, 0, out)
      BY <3>1
    <3>3. n \in Nat \ {0} /\ Here \in Places /\ Len(history.chats) \in Nat
      BY <1>1, HereType, BoundsAssumption, ChatsOf
    <3>4. out \in Outcomes
      BY <3>2, <3>3, StartType
    <3> QED BY <1>1, <3>2, <3>4, ProceedOnScreen
  <2>5. CASE Stop \/ StopBatch \/ AnswerClose
    <3>1. RequestSkipCurrent(batch) \in Batches /\ CancelAll(batch) \in Batches
      BY <1>1, RequestSkipCurrentType, CancelAllType
    <3> QED BY <1>2, <2>5, <3>1, CancelRunOnScreen DEF Stop, StopBatch, AnswerClose
  <2>6. CASE SendLater \/ NewChat \/ SelectChat \/ AnswerDelete
    BY <1>1, <1>2, <2>6, ProjectKept DEF SendLater, NewChat, SelectChat, AnswerDelete
  <2>7. CASE \/ CancelQueued \/ AskDelete \/ CloseBatch \/ AskClose \/ SelectDocument
    BY <1>2, <2>7 DEF CancelQueued, AskDelete, CloseBatch, AskClose, SelectDocument
  <2> QED BY <1>4, <2>1, <2>2, <2>3, <2>4, <2>5, <2>6, <2>7 DEF User
<1>5. CASE Worker
  <2>1. UNCHANGED history /\ \E r, v : \/ runs' = [runs EXCEPT ![r].stage = v]
                                       \/ runs' = [runs EXCEPT ![r].sent = v]
    BY <1>5 DEF Worker, Execute, ReportProgress, Return
  <2> QED BY <1>3, <2>1
<1>6. CASE EventLoop
  <2>1. CASE DropAnswer
    BY <1>3, <2>1 DEF DropAnswer
  <2>2. CASE ShowAnswer
    <3> DEFINE r == Head(gui).run
               rs == [runs EXCEPT ![r].stage = "over", ![r].pending = FALSE]
               h == Answered(r)
    <3>1. gui # <<>>
      BY <2>2 DEF ShowAnswer, Turn
    <3>2. r \in Nat /\ Head(gui).ok \in BOOLEAN
      BY <1>1, <3>1, TurnType DEF Callbacks
    <3>3. PICK out \in HandleCompletion(batch, runs[r].chat, Head(gui).ok,
                                        Len(h.chats), Here) :
             Proceed(rs, h, IF active = r THEN 0 ELSE active, out)
      BY <2>2 DEF ShowAnswer
    <3> HIDE DEF r
    <3>4. rs \in Seq(Runs) /\ \A s \in DOMAIN rs : rs[s].attached
      <4>1. \A s \in DOMAIN runs : rs[s] \in Runs /\ rs[s].attached
        BY <1>1 DEF Runs, Stages
      <4>2. DOMAIN rs = DOMAIN runs /\ DOMAIN runs = 1 .. Len(runs) /\ Len(runs) \in Nat
        BY <1>1
      <4> HIDE DEF rs
      <4>3. rs = [s \in 1 .. Len(runs) |-> rs[s]]
        BY <4>2 DEF rs
      <4> QED BY <4>1, <4>2, <4>3
    <3>5. h \in GoodHistories
      BY <1>1, <3>2, AnsweredType
    <3>6. h.project = 1
      <4>1. EnsureChat(history) \in GoodHistories
        BY <1>1, EnsureChatType
      <4>2. \A c, e : AddEntry(EnsureChat(history), c, e).project = 1
        BY <1>1, <4>1, ProjectKept DEF AddEntry
      <4>3. \A c : SettleEntry(history, c, r, "answered").project = 1
        BY <1>1, ProjectKept DEF SettleEntry
      <4> QED BY <1>1, <4>2, <4>3 DEF Answered
    <3> HIDE DEF rs, h
    <3>7. Len(h.chats) \in Nat /\ Here \in Places
      BY <1>1, <3>5, ChatsOf, HereType
    <3>8. out \in Outcomes
      BY <1>1, <3>2, <3>3, <3>7, HandleCompletionType
    <3> QED BY <3>3, <3>4, <3>5, <3>6, <3>8, ProceedOnScreen
  <2>3. CASE ShowProgress
    BY <1>1, <1>2, <2>3, ProjectKept DEF ShowProgress, StreamEntry
  <2>4. CASE FlushNothing
    BY <1>2, <2>4 DEF FlushNothing
  <2>5. CASE FlushPrompt
    <3>1. PICK k \in DOMAIN promptQueue :
             Begin(runs, Select(history, promptQueue[k]), promptQueue[k])
      BY <2>5 DEF FlushPrompt
    <3>2. promptQueue[k] \in Nat
      BY <1>1 DEF TypeOK
    <3> DEFINE c == promptQueue[k]
               h == Select(history, c)
    <3>3. h \in GoodHistories /\ h.project = 1 /\ Begin(runs, h, c)
      BY <1>1, <3>1, <3>2, SelectType
    <3> HIDE DEF h, c
    <3> QED BY <1>1, <3>3, BeginOnScreen
  <2>6. CASE CleanUp
    BY <1>1, <1>2, <2>6, ProjectKept DEF CleanUp
  <2> QED BY <1>6, <2>1, <2>2, <2>3, <2>4, <2>5, <2>6 DEF EventLoop
<1>7. CASE UNCHANGED vars
  BY <1>2, <1>7 DEF vars
<1> QED BY <1>4, <1>5, <1>6, <1>7 DEF Next

LEMMA InitOnScreen == Init => OnScreen
<1> SUFFICES ASSUME Init PROVE OnScreen
  OBVIOUS
<1>1. runs = <<>>
  BY DEF Init
<1> DEFINE cs == [p \in 1 .. NumProjects |->
                    [home |-> p,
                     entries |-> <<[run |-> 0, state |-> "answered", steps |-> 0]>>]]
           h == [chats |-> cs, open |-> {}, current |-> 0, project |-> 1]
<1>2. history = OpenProject(h, 1)
  BY DEF Init
<1> HIDE DEF cs
<1>3. history.project = 1
  BY <1>2 DEF OpenProject, CreateChat, RegisterChats, Select
<1> QED BY <1>1, <1>3 DEF OnScreen

\* The step that ends a run whose entry is on the screen, without cancelling
\* the run, leaves its answer in some conversation.
AnswerOnScreenRecorded ==
    [][\A r \in DOMAIN runs :
          runs[r].pending /\ runs[r].attached /\ ~runs'[r].pending /\ ~runs'[r].cancelled =>
             \E c \in DOMAIN history'.chats :
                \E e \in EntriesOf(history', c, r) : e.state = "answered"]_vars

LEMMA EndIsRecorded ==
    ASSUME Control, Tidy, [Next]_vars, NEW r \in DOMAIN runs,
           runs[r].pending, runs[r].attached, ~runs'[r].pending, ~runs'[r].cancelled
    PROVE  \E c \in DOMAIN history'.chats :
              \E e \in EntriesOf(history', c, r) : e.state = "answered"
<1>1. ShowAnswer /\ r = active
  BY EndsByAnswer
<1>2. Recorded(history', r)
  BY <1>1, ShowAnswerTidy
<1> QED BY <1>2 DEF Recorded, EntriesOf, Transcript

\* _finalize_prompt records the answer of a run whose entry is on the screen,
\* also when its conversation was deleted, whatever project was opened before.
THEOREM AnswersOnScreenAreRecorded == Spec => AnswerOnScreenRecorded
<1>1. Control /\ Tidy /\ [Next]_vars =>
         [\A r \in DOMAIN runs :
            runs[r].pending /\ runs[r].attached /\ ~runs'[r].pending /\ ~runs'[r].cancelled =>
               \E c \in DOMAIN history'.chats :
                  \E e \in EntriesOf(history', c, r) : e.state = "answered"]_vars
  BY EndIsRecorded
<1> QED BY <1>1, AlwaysTidy, PTL DEF Spec, AnswerOnScreenRecorded

\* While one project is open no answer is lost: the step that ends a run without
\* cancelling it records it (a second project takes the entry off the screen).
THEOREM AnswersAreRecorded ==
    ASSUME NumProjects = 1
    PROVE  Spec => AnswerRecorded
<1>1. Control /\ OnScreen /\ [Next]_vars => OnScreen'
  BY NextOnScreen
<1>2. Control /\ Tidy /\ OnScreen /\ [Next]_vars =>
         [\A r \in DOMAIN runs :
            runs[r].pending /\ ~runs'[r].pending /\ ~runs'[r].cancelled =>
               \E c \in DOMAIN history'.chats :
                  \E e \in EntriesOf(history', c, r) : e.state = "answered"]_vars
  BY EndIsRecorded DEF OnScreen
<1> QED BY <1>1, <1>2, InitOnScreen, AlwaysTidy, PTL DEF Spec, AnswerRecorded
=============================================================================
