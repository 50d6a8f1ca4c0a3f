----------------------------- MODULE ChatList ------------------------------
(***************************************************************************)
(* The conversations of the agent chat panel: what AgentChatHistory        *)
(* (ui/agent_chat_panel/history.py) and the panel's own helpers do to the  *)
(* list of loaded conversations.  A history is a record with               *)
(*    chats    every conversation ever created, in order of creation:      *)
(*             [home, entries], the project whose store holds it and its   *)
(*             entries; a deleted conversation has no entries              *)
(*    open     the conversations that are loaded, listed by their number   *)
(*    current  the active conversation, 0 for none                         *)
(*    project  the project whose store is in use                           *)
(* An entry is [run, state, steps]: the run that writes it (0: it was      *)
(* there before the program started), how far it is, and how many of the   *)
(* run's streamed updates it shows.                                        *)
(*                                                                         *)
(* The panel saves after each of these steps and the save never raises, so *)
(* a conversation's stored entries are the ones modelled here.             *)
(***************************************************************************)
EXTENDS Naturals, Sequences

EntryStates == {"working", "answered", "cancelled"}
Entries == [run : Nat, state : EntryStates, steps : Nat]
Chats == [home : Nat, entries : Seq(Entries)]
Histories == [chats : Seq(Chats), open : SUBSET Nat, current : Nat, project : Nat]

Largest(S) == CHOOSE i \in S : \A j \in S : j <= i
Smallest(S) == CHOOSE i \in S : \A j \in S : i <= j

NewChats(h, n) == [i \in 1 .. n |-> [home |-> h.project, entries |-> <<>>]]

\* Mutant: the numbers handed out start one too late.
RegisterChats_OffByOne(h, n) ==
    [h EXCEPT !.chats = @ \o NewChats(h, n),
              !.open = @ \cup (Len(h.chats) + 2) .. (Len(h.chats) + n + 1)]

\* Append n empty conversations to the list without selecting one.
RegisterChats(h, n) ==
    [h EXCEPT !.chats = @ \o NewChats(h, n),
              !.open = @ \cup (Len(h.chats) + 1) .. (Len(h.chats) + n)]

Select(h, chat) == [h EXCEPT !.current = chat]

\* _create_conversation: register a conversation and make it the active one.
CreateChat(h) == Select(RegisterChats(h, 1), Len(h.chats) + 1)

\* _ensure_active_conversation
EnsureChat(h) == IF h.current \in h.open THEN h ELSE CreateChat(h)

Transcript(h, chat) == h.chats[chat].entries

WithTranscript(h, chat, entries) == [h EXCEPT !.chats[chat].entries = entries]

AddEntry(h, chat, entry) ==
    WithTranscript(h, chat, Append(Transcript(h, chat), entry))

\* Mutant: a cancelled run leaves its entry as it is.
Settle_AnswersOnly(e, run, state) ==
    IF e.run = run /\ state = "answered" THEN [e EXCEPT !.state = state] ELSE e

\* Entry e when the run `run` leaves it in the given state.
Settle(e, run, state) == IF e.run = run THEN [e EXCEPT !.state = state] ELSE e

\* _complete_pending_entry: the entry of `run` in `chat` gets its final state.
SettleEntry(h, chat, run, state) ==
    LET old == Transcript(h, chat)
    IN  WithTranscript(h, chat, [k \in DOMAIN old |-> Settle(old[k], run, state)])

\* Entry e when one more streamed update of the run `run` is shown.
Advanced(e, run) == IF e.run = run THEN [e EXCEPT !.steps = @ + 1] ELSE e

StreamEntry(h, chat, run) ==
    LET old == Transcript(h, chat)
    IN  WithTranscript(h, chat, [k \in DOMAIN old |-> Advanced(old[k], run)])

\* The list without its last element.
Front(s) == SubSeq(s, 1, Len(s) - 1)

DropLastEntry(h, chat) == WithTranscript(h, chat, Front(Transcript(h, chat)))

\* _remove_conversations: the fallback is the conversation that takes the
\* place of the first one removed, or the last of the list.
RemoveChats(h, gone) ==
    LET left == h.open \ gone
        after == {c \in left : c > Smallest(gone \cap h.open)}
    IN  IF gone \cap h.open = {} THEN h
        ELSE [h EXCEPT
                !.chats = [c \in DOMAIN @ |->
                    IF c \in gone \cap h.open THEN [@[c] EXCEPT !.entries = <<>>]
                    ELSE @[c]],
                !.open = left,
                !.current = IF @ \in left THEN @
                            ELSE IF left = {} THEN 0
                            ELSE IF after # {} THEN Smallest(after)
                            ELSE Largest(left)]

HasEntries(h, chat) == Transcript(h, chat) # <<>>

\* prune_empty_conversations(verify_with_store=True): conversations without
\* stored entries go, the active one included, but never all of them.
PruneEmpty(h) ==
    LET full == {c \in h.open : HasEntries(h, c)}
        kept == IF full = {} THEN {Largest(h.open)} ELSE full
    IN  IF h.open = {} THEN h
        ELSE [h EXCEPT !.open = kept,
                       !.current = IF @ = 0 \/ @ \in kept THEN @ ELSE Largest(kept)]

\* The stored conversations of project p, as load() and the pruning that
\* follows it leave them.
StoredIn(h, p) == {c \in DOMAIN h.chats : h.chats[c].home = p /\ HasEntries(h, c)}

\* HistorySynchronizer.initialize() on the store of project p: its
\* conversations are loaded and a draft is added and made active.
OpenProject(h, p) ==
    CreateChat([h EXCEPT !.project = p, !.open = StoredIn(h, p)])
=============================================================================
