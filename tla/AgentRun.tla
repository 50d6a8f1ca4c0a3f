------------------------------ MODULE AgentRun ------------------------------
(***************************************************************************)
(* The agent chat panel of CookaReq: how prompts become agent runs, how    *)
(* their answers reach the transcript, and what may happen meanwhile.      *)
(*                                                                         *)
(* Three parties interleave.  The user acts on the panel; the single       *)
(* worker of ThreadedAgentCommandExecutor executes one run at a time; and  *)
(* the GUI event loop executes, in order, the callbacks posted with        *)
(* wx.CallAfter (`gui`).  User actions and callbacks run on the GUI thread *)
(* and are atomic; the worker touches GUI state through `gui` only.        *)
(*                                                                         *)
(* runs[r] is the _AgentRunHandle with run_id r:                           *)
(*    chat       conversation_id                                           *)
(*    cancelled  is cancel_event set?                                      *)
(*    pending    does the handle still own a pending_entry?                *)
(*    attached   is that entry object one of the loaded transcript?        *)
(*    stage      its future: queued in the pool, executing, posted (its    *)
(*               _finalize_prompt is in gui) or over                       *)
(*    sent       streamed updates posted so far                            *)
(***************************************************************************)
EXTENDS Integers, Sequences, FiniteSets, BatchRunner, ChatList

CONSTANTS
    NumProjects,  \* project folders the user may open
    Docs,         \* documents of a project
    Uses,         \* the parts of the panel the user touches in an instance
    MaxRuns,      \* bound: prompts asked for, run or still waiting
    MaxChats,     \* bound: conversations before the user stops adding some
    MaxTargets,   \* bound: requirements in one batch
    MaxSteps      \* bound: streamed updates of one run

ASSUME NumProjectsAssumption == NumProjects \in Nat \ {0}
ASSUME DocsAssumption == Docs # {} /\ Docs \subseteq Nat \ {0}
ASSUME UsesAssumption ==
    Uses \subseteq {"batch", "close", "browse", "regenerate", "delete"}
ASSUME BoundsAssumption ==
    /\ MaxRuns \in Nat /\ MaxChats \in Nat
    /\ MaxTargets \in Nat /\ MaxSteps \in Nat

VARIABLES
    runs,         \* every run handle created, by run_id
    active,       \* AgentRunController._active_handle, 0 for None
    running,      \* AgentChatSession._is_running
    gui,          \* callbacks posted with wx.CallAfter, oldest first
    history,      \* AgentChatHistory, see ChatList
    doc,          \* MainFrame.current_doc_prefix
    promptQueue,  \* AgentChatPanel._prompt_queue: the conversations to run in
    batch,        \* AgentBatchRunner, see BatchRunner
    dialog        \* the modal question on the screen

vars == <<runs, active, running, gui, history, doc, promptQueue, batch, dialog>>

Stages == {"queued", "executing", "posted", "over"}

Runs == [chat : Nat, cancelled : BOOLEAN, pending : BOOLEAN,
         attached : BOOLEAN, stage : Stages, sent : Nat]

Callbacks == [kind : {"finalize", "stream", "flush", "cleanup"},
              run : Nat, ok : BOOLEAN]

Finalize(r, ok) == [kind |-> "finalize", run |-> r, ok |-> ok]
Stream(r) == [kind |-> "stream", run |-> r, ok |-> TRUE]
Flush == [kind |-> "flush", run |-> 0, ok |-> TRUE]
Cleanup == [kind |-> "cleanup", run |-> 0, ok |-> TRUE]

Dialogs == [kind : {"none", "delete", "close"}, chats : SUBSET Nat]
NoDialog == [kind |-> "none", chats |-> {}]

TypeOK ==
    /\ runs \in Seq(Runs)
    /\ active \in Nat
    /\ running \in BOOLEAN
    /\ gui \in Seq(Callbacks)
    /\ history \in Histories
    /\ history.open \subseteq 1 .. Len(history.chats)
    /\ doc \in Docs
    /\ promptQueue \in Seq(Nat)
    /\ batch \in Batches
    /\ dialog \in Dialogs

\* Where the main frame would resolve a requirement id now.
Here == <<history.project, doc>>

\* Conversation p holds one answered prompt of project p from an earlier
\* session; project 1 was opened, so a draft was added and a clean-up posted.
Init ==
    /\ runs = <<>>
    /\ active = 0
    /\ running = FALSE
    /\ gui = <<Cleanup>>
    /\ history =
         OpenProject(
           [chats |-> [p \in 1 .. NumProjects |->
                         [home |-> p,
                          entries |-> <<[run |-> 0, state |-> "answered", steps |-> 0]>>]],
            open |-> {}, current |-> 0, project |-> 1], 1)
    /\ doc \in Docs
    /\ promptQueue = <<>>
    /\ batch = Reset
    /\ dialog = NoDialog

-----------------------------------------------------------------------------
(* Steps shared by the actions: starting a run, cancelling it, its end.    *)

\* Mutant: a flush is posted only when more than one prompt waits.
FlushOf_OffByOne(queue) == IF Len(queue) <= 1 THEN <<>> ELSE <<Flush>>

\* _schedule_prompt_queue_flush: posts nothing when nothing waits.
FlushOf(queue) == IF queue = <<>> THEN <<>> ELSE <<Flush>>

\* _update_queued_prompt_banner drops the prompts at the head of the queue
\* whose conversation is not loaded; p is what remains of q.
Pruned(q, open, p) ==
    \E k \in 0 .. Len(q) :
        /\ \A i \in 1 .. k : q[i] \notin open
        /\ k < Len(q) => q[k + 1] \in open
        /\ p = SubSeq(q, k + 1, Len(q))

\* Prompts asked for: run, waiting in the queue or in the batch.
Demand == Len(runs) + Len(promptQueue) + Cardinality(Pending(batch))

NewRun(c) == [chat |-> c, cancelled |-> FALSE, pending |-> TRUE,
              attached |-> TRUE, stage |-> "queued", sent |-> 0]

\* _start_prompt in conversation c of history h, given run handles rs.
Begin(rs, h, c) ==
    /\ runs' = Append(rs, NewRun(c))
    /\ active' = Len(rs) + 1
    /\ running' = TRUE
    /\ history' = AddEntry(h, c, [run |-> Len(rs) + 1, state |-> "working", steps |-> 0])

\* _create_batch_conversation, n times for the outcome `out` of the runner.
\* They follow each other as active conversation unless the user looks at a
\* conversation outside the batch.
OpenBatchChats(h, n) ==
    LET ofBatch == IF batch.running
                   THEN {batch.items[i].chat : i \in DOMAIN batch.items} \ {0}
                   ELSE {}
    IN  IF n > 0 /\ (h.current = 0 \/ ofBatch = {} \/ h.current \in ofBatch)
        THEN Select(RegisterChats(h, n), Len(h.chats) + n)
        ELSE RegisterChats(h, n)

\* Take over what the batch runner decided; `left` is the handle that stays
\* active when it starts nothing.
Proceed(rs, h, left, out) ==
    /\ batch' = out.batch
    /\ IF out.chat = 0
       THEN /\ runs' = rs
            /\ active' = left
            /\ running' = FALSE
            /\ history' = OpenBatchChats(h, out.made)
       ELSE Begin(rs, OpenBatchChats(h, out.made), out.chat)

\* Mutant: the handle keeps its pending entry.
Stopped_KeepsEntry(r) == [runs EXCEPT ![r].cancelled = TRUE,
                                      ![r].stage = IF @ = "queued" THEN "over" ELSE @]

\* Mutant: the controller lets go of the handle without telling the run.
Stopped_Untold(r) == [runs EXCEPT ![r].pending = FALSE]

\* The handle r after stop(): a future still queued is cancelled with it.
Stopped(r) == [runs EXCEPT ![r].cancelled = TRUE,
                           ![r].pending = FALSE,
                           ![r].stage = IF @ = "queued" THEN "over" ELSE @]

\* cancel_agent_run when the batch runner is b: controller stop, wait state
\* off, _finalize_cancelled_run, notify_cancellation, flush.  The batch queue
\* is reset afterwards when its panel is being closed.
CancelRun(b, closing) ==
    LET c == runs[active].chat
        h == IF c \in history.open /\ runs[active].attached
             THEN SettleEntry(history, c, active, "cancelled")
             ELSE history
        then(out) == IF closing THEN [out EXCEPT !.batch = Reset] ELSE out
    IN  IF active = 0
        THEN /\ batch' = then(NothingStarted(b)).batch
             /\ UNCHANGED <<runs, active, running, gui, history>>
        ELSE /\ \E out \in HandleCancellation(b, c, Len(h.chats), Here) :
                    Proceed(Stopped(active), h, 0, then(out))
             /\ gui' = gui \o FlushOf(promptQueue)

-----------------------------------------------------------------------------
(* The user.  A modal question blocks every other user action.             *)

\* May the user ask for n more prompts?  (bound)
Room(n) == Demand + n <= MaxRuns

\* _on_send while the agent is idle: the prompt runs at once.
SendNow ==
    /\ dialog = NoDialog /\ Room(1)
    /\ ~running
    /\ LET h == EnsureChat(history) IN Begin(runs, h, h.current)
    /\ UNCHANGED <<gui, doc, promptQueue, batch, dialog>>

\* _on_send while a run is in flight: _queue_prompt.
SendLater ==
    /\ dialog = NoDialog /\ Room(1)
    /\ running
    /\ history' = EnsureChat(history)
    /\ Pruned(Append(promptQueue, history'.current), history'.open, promptQueue')
    /\ UNCHANGED <<runs, active, running, gui, doc, batch, dialog>>

\* _on_cancel_queued_prompt: the oldest queued prompt is withdrawn.
CancelQueued ==
    /\ dialog = NoDialog
    /\ promptQueue # <<>>
    /\ Pruned(Tail(promptQueue), history.open, promptQueue')
    /\ UNCHANGED <<runs, active, running, gui, history, doc, batch, dialog>>

\* _on_stop: in a batch it skips the item that runs.
Stop ==
    /\ dialog = NoDialog
    /\ running
    /\ CancelRun(RequestSkipCurrent(batch), FALSE)
    /\ UNCHANGED <<doc, promptQueue, dialog>>

\* regenerate_entry: the last entry, once settled, is removed and its prompt
\* is submitted again.
Regenerate ==
    /\ "regenerate" \in Uses
    /\ dialog = NoDialog /\ Room(1)
    /\ ~running
    /\ history.current \in history.open
    /\ HasEntries(history, history.current)
    /\ LET entries == Transcript(history, history.current)
       IN  entries[Len(entries)].state # "working"
    /\ Begin(runs, DropLastEntry(history, history.current), history.current)
    /\ UNCHANGED <<gui, doc, promptQueue, batch, dialog>>

\* _on_new_chat
NewChat ==
    /\ "browse" \in Uses
    /\ dialog = NoDialog
    /\ Len(history.chats) < MaxChats
    /\ history' = CreateChat(history)
    /\ UNCHANGED <<runs, active, running, gui, doc, promptQueue, batch, dialog>>

\* _on_history_row_activated
SelectChat ==
    /\ "browse" \in Uses
    /\ dialog = NoDialog
    /\ \E c \in history.open \ {history.current} : history' = Select(history, c)
    /\ UNCHANGED <<runs, active, running, gui, doc, promptQueue, batch, dialog>>

\* _delete_selected_conversations up to its question: refused while a run is
\* in flight.
AskDelete ==
    /\ "delete" \in Uses
    /\ dialog = NoDialog
    /\ ~running
    /\ \E S \in SUBSET history.open \ {{}} :
          dialog' = [kind |-> "delete", chats |-> S]
    /\ UNCHANGED <<runs, active, running, gui, history, doc, promptQueue, batch>>

\* ... and its answer, which does not look at the run state again.
AnswerDelete ==
    /\ dialog.kind = "delete"
    /\ \/ history' = RemoveChats(history, dialog.chats)
       \/ UNCHANGED history
    /\ dialog' = NoDialog
    /\ UNCHANGED <<runs, active, running, gui, doc, promptQueue, batch>>

\* AgentBatchSection.start_batch
StartBatch ==
    /\ "batch" \in Uses
    /\ dialog = NoDialog
    /\ ~running /\ ~batch.running
    /\ \E n \in 1 .. MaxTargets :
          /\ Room(n) /\ Len(history.chats) + n <= MaxChats
          /\ \E out \in Start(n, Len(history.chats), Here) :
                Proceed(runs, history, 0, out)
    /\ UNCHANGED <<gui, doc, promptQueue, dialog>>

\* stop_batch; its button is live while the queue runs.
StopBatch ==
    /\ dialog = NoDialog
    /\ batch.running
    /\ CancelRun(CancelAll(batch), FALSE)
    /\ UNCHANGED <<doc, promptQueue, dialog>>

\* close_panel on a queue that does not run.
CloseBatch ==
    /\ dialog = NoDialog
    /\ batch.items # <<>> /\ ~batch.running
    /\ batch' = Reset
    /\ UNCHANGED <<runs, active, running, gui, history, doc, promptQueue, dialog>>

\* close_panel on a running queue up to its question ...
AskClose ==
    /\ "close" \in Uses
    /\ dialog = NoDialog
    /\ batch.running
    /\ dialog' = [kind |-> "close", chats |-> {}]
    /\ UNCHANGED <<runs, active, running, gui, history, doc, promptQueue, batch>>

\* ... and its answer: yes stops whatever runs by then and resets the queue.
AnswerClose ==
    /\ dialog.kind = "close"
    /\ \/ CancelRun(CancelAll(batch), TRUE)
       \/ UNCHANGED <<runs, active, running, gui, history, batch>>
    /\ dialog' = NoDialog
    /\ UNCHANGED <<doc, promptQueue>>

\* MainFrame.on_document_selected: nothing holds it back during a run.
SelectDocument ==
    /\ dialog = NoDialog
    /\ doc' \in Docs \ {doc}
    /\ UNCHANGED <<runs, active, running, gui, history, promptQueue, batch, dialog>>

\* MainFrame._load_directory on another project, also during a run: the
\* panel reloads its history, so no entry object of the old one is on screen.
SwitchProject ==
    /\ dialog = NoDialog
    /\ Len(history.chats) < MaxChats
    /\ \E p \in (1 .. NumProjects) \ {history.project} :
          history' = OpenProject(history, p)
    /\ runs' = [r \in DOMAIN runs |-> [runs[r] EXCEPT !.attached = FALSE]]
    /\ gui' = Append(gui, Cleanup)
    /\ doc' \in Docs
    /\ UNCHANGED <<active, running, promptQueue, batch, dialog>>

-----------------------------------------------------------------------------
(* The worker thread.                                                      *)

\* The pool takes the oldest run left in its queue.
Execute ==
    /\ \A r \in DOMAIN runs : runs[r].stage # "executing"
    /\ \E r \in DOMAIN runs :
          /\ runs[r].stage = "queued"
          /\ \A q \in 1 .. (r - 1) : runs[q].stage # "queued"
          /\ runs' = [runs EXCEPT ![r].stage = "executing"]
    /\ UNCHANGED <<active, running, gui, history, doc, promptQueue, batch, dialog>>

\* on_tool_result and on_llm_step post an update unless the run was stopped.
ReportProgress ==
    /\ \E r \in DOMAIN runs :
          /\ runs[r].stage = "executing" /\ ~runs[r].cancelled
          /\ runs[r].sent < MaxSteps
          /\ runs' = [runs EXCEPT ![r].sent = @ + 1]
          /\ gui' = Append(gui, Stream(r))
    /\ UNCHANGED <<active, running, history, doc, promptQueue, batch, dialog>>

\* Mutant: on_complete keeps an error to itself.
Return_SwallowsError ==
    /\ \E r \in DOMAIN runs :
          /\ runs[r].stage = "executing"
          /\ \/ /\ runs' = [runs EXCEPT ![r].stage = "over"]
                /\ UNCHANGED gui
             \/ /\ ~runs[r].cancelled
                /\ runs' = [runs EXCEPT ![r].stage = "posted"]
                /\ gui' = Append(gui, Finalize(r, TRUE))
    /\ UNCHANGED <<active, running, history, doc, promptQueue, batch, dialog>>

\* Mutant: on_complete posts whatever the run's cancel event says.
Return_PostsStopped ==
    /\ \E r \in DOMAIN runs :
          /\ runs[r].stage = "executing"
          /\ runs' = [runs EXCEPT ![r].stage =
                         IF runs[r].cancelled THEN "over" ELSE "posted"]
          /\ \E ok \in BOOLEAN : gui' = Append(gui, Finalize(r, ok))
    /\ UNCHANGED <<active, running, history, doc, promptQueue, batch, dialog>>

\* The command returns, with a result or an error, or raises because it was
\* stopped; on_complete posts the result of a run that was not.
Return ==
    /\ \E r \in DOMAIN runs :
          /\ runs[r].stage = "executing"
          /\ IF runs[r].cancelled
             THEN /\ runs' = [runs EXCEPT ![r].stage = "over"]
                  /\ UNCHANGED gui
             ELSE /\ runs' = [runs EXCEPT ![r].stage = "posted"]
                  /\ \E ok \in BOOLEAN : gui' = Append(gui, Finalize(r, ok))
    /\ UNCHANGED <<active, running, history, doc, promptQueue, batch, dialog>>

-----------------------------------------------------------------------------
(* The GUI event loop, which also turns while a question is on the screen. *)

Turn(kind) == gui # <<>> /\ Head(gui).kind = kind

\* _finalize_prompt of a run that was stopped after it returned.
DropAnswer ==
    /\ Turn("finalize")
    /\ runs[Head(gui).run].cancelled
    /\ runs' = [runs EXCEPT ![Head(gui).run].stage = "over"]
    /\ gui' = Tail(gui)
    /\ UNCHANGED <<active, running, history, doc, promptQueue, batch, dialog>>

\* Mutant: an answer whose conversation is not loaded is dropped.
Answered_LoadedOnly(r) ==
    IF runs[r].chat \in history.open
    THEN SettleEntry(history, runs[r].chat, r, "answered")
    ELSE history

\* The history after the answer of run r: in its pending entry when its
\* conversation is loaded (unseen there if the entry object is not), else in
\* a new entry of the active conversation.
Answered(r) ==
    LET c == runs[r].chat
        h == EnsureChat(history)
    IN  IF c \in history.open /\ runs[r].pending
        THEN IF runs[r].attached
             THEN SettleEntry(history, c, r, "answered")
             ELSE history
        ELSE AddEntry(h, h.current, [run |-> r, state |-> "answered", steps |-> 0])

\* _finalize_prompt: the handle is released, the answer recorded, the wait
\* state left, the batch told, and the queued prompts scheduled.
ShowAnswer ==
    /\ Turn("finalize")
    /\ LET r == Head(gui).run
           rs == [runs EXCEPT ![r].stage = "over", ![r].pending = FALSE]
           h == Answered(r)
       IN  /\ ~runs[r].cancelled
           /\ \E out \in HandleCompletion(batch, runs[r].chat, Head(gui).ok,
                                          Len(h.chats), Here) :
                 Proceed(rs, h, IF active = r THEN 0 ELSE active, out)
    /\ gui' = Tail(gui) \o FlushOf(promptQueue)
    /\ UNCHANGED <<doc, promptQueue, dialog>>

\* Mutant: a streamed update is shown whatever became of its run.
ShowProgress_Unchecked ==
    /\ Turn("stream")
    /\ LET r == Head(gui).run
       IN  history' = StreamEntry(history, runs[r].chat, r)
    /\ gui' = Tail(gui)
    /\ UNCHANGED <<runs, active, running, doc, promptQueue, batch, dialog>>

\* _handle_streamed_tool_results, _handle_llm_step: only for the active run
\* while it owns its pending entry.
ShowProgress ==
    /\ Turn("stream")
    /\ LET r == Head(gui).run
           c == runs[r].chat
       IN  history' = IF /\ ~runs[r].cancelled /\ r = active /\ runs[r].pending
                         /\ runs[r].attached
                      THEN StreamEntry(history, c, r)
                      ELSE history
    /\ gui' = Tail(gui)
    /\ UNCHANGED <<runs, active, running, doc, promptQueue, batch, dialog>>

\* _process_next_queued_prompt while another run is in flight, or when no
\* conversation with a waiting prompt is left.
FlushNothing ==
    /\ Turn("flush")
    /\ IF running THEN UNCHANGED promptQueue
       ELSE /\ \A i \in DOMAIN promptQueue : promptQueue[i] \notin history.open
            /\ promptQueue' = <<>>
    /\ gui' = Tail(gui)
    /\ UNCHANGED <<runs, active, running, history, doc, batch, dialog>>

\* ... or else: the oldest prompt whose conversation is loaded is submitted
\* there; the ones before it are forgotten.
FlushPrompt ==
    /\ Turn("flush")
    /\ ~running
    /\ \E k \in DOMAIN promptQueue :
          /\ promptQueue[k] \in history.open
          /\ \A i \in 1 .. (k - 1) : promptQueue[i] \notin history.open
          /\ Begin(runs, Select(history, promptQueue[k]), promptQueue[k])
          /\ Pruned(SubSeq(promptQueue, k + 1, Len(promptQueue)), history.open,
                    promptQueue')
    /\ gui' = Tail(gui)
    /\ UNCHANGED <<doc, batch, dialog>>

\* The clean-up posted when a project was opened.
CleanUp ==
    /\ Turn("cleanup")
    /\ history' = PruneEmpty(history)
    /\ gui' = Tail(gui)
    /\ UNCHANGED <<runs, active, running, doc, promptQueue, batch, dialog>>

-----------------------------------------------------------------------------
User == \/ SendNow \/ SendLater \/ CancelQueued \/ Stop \/ Regenerate
        \/ NewChat \/ SelectChat \/ AskDelete \/ AnswerDelete
        \/ StartBatch \/ StopBatch \/ CloseBatch \/ AskClose \/ AnswerClose
        \/ SelectDocument \/ SwitchProject

Worker == Execute \/ ReportProgress \/ Return

EventLoop == \/ DropAnswer \/ ShowAnswer \/ ShowProgress
             \/ FlushNothing \/ FlushPrompt \/ CleanUp

Next == User \/ Worker \/ EventLoop

Spec == Init /\ [][Next]_vars

\* The event loop keeps turning, the pool keeps taking work, and a command
\* that was taken returns.  The user owes the program nothing.
Fairness == WF_vars(EventLoop) /\ WF_vars(Execute) /\ WF_vars(Return)

FairSpec == Spec /\ Fairness

-----------------------------------------------------------------------------
(* Invariants.                                                             *)

\* One run at a time: the panel shows itself busy exactly while the controller
\* has an active handle, and that handle is the only one that still owns a
\* transcript entry; it was not stopped and its future still matters.
SingleFlight ==
    /\ running <=> active # 0
    /\ \A r \in DOMAIN runs : runs[r].pending <=> r = active
    /\ active # 0 => /\ active \in DOMAIN runs
                     /\ ~runs[active].cancelled
                     /\ runs[active].stage # "over"

\* Nothing works behind the user's back: a command that may still change
\* requirements (queued, executing, or with an answer on its way) belongs to
\* the active handle or was told to stop.
NoUnownedWork ==
    \A r \in DOMAIN runs :
        runs[r].stage # "over" /\ ~runs[r].cancelled => r = active

\* The event loop and the worker agree: a run that returned an answer has that
\* answer in the event queue, once, and the queue holds no other (on_complete
\* posts one _finalize_prompt for a future that was not stopped).
AnswersIn(r) == {i \in DOMAIN gui : gui[i].kind = "finalize" /\ gui[i].run = r}

AnswerOnItsWay ==
    /\ \A r \in DOMAIN runs : runs[r].stage = "posted" <=> AnswersIn(r) # {}
    /\ \A r \in DOMAIN runs : \A i, j \in AnswersIn(r) : i = j
    /\ \A i \in DOMAIN gui :
          gui[i].kind \in {"finalize", "stream"} => gui[i].run \in DOMAIN runs

\* A prompt that waits is never forgotten by the event loop: if no run is in
\* flight, whose end would schedule the queue, a flush is already posted
\* (_schedule_prompt_queue_flush at every end of a run).
NoLostWakeup ==
    promptQueue # <<>> /\ ~running =>
        \E i \in DOMAIN gui : gui[i].kind = "flush"

\* A running batch and the agent agree: the queue runs exactly while one of
\* its items does, that item's conversation is the one the active run works
\* for, the items before it are settled and the items after it have not begun.
\* No cancel request is left over (_cancel_mode is consumed by the cancellation it
\* asked for), or the end of a later item would stop the rest of the queue.
BatchCoupled ==
    /\ batch.running => batch.mode = "none"
    /\ batch.running =>
         \E i \in DOMAIN batch.items :
            /\ batch.items[i].status = "running"
            /\ running /\ runs[active].chat = batch.items[i].chat
            /\ \A j \in 1 .. (i - 1) : batch.items[j].status \in Settled
            /\ \A j \in (i + 1) .. Len(batch.items) :
                  batch.items[j].status = "pending"
    /\ ~batch.running =>
         \A i \in DOMAIN batch.items : batch.items[i].status \in Settled

\* The transcript never shows "Working" for a run that is not in flight, as
\* long as the project stays open (a project switch detaches the entry).
WorkingIsInFlight ==
    \A c \in history.open : \A k \in DOMAIN history.chats[c].entries :
        LET e == history.chats[c].entries[k]
        IN  e.state = "working" => e.run = active \/ ~runs[e.run].attached

-----------------------------------------------------------------------------
(* Action properties.                                                      *)

EntriesOf(h, c, r) ==
    {h.chats[c].entries[k] : k \in {k \in DOMAIN h.chats[c].entries :
                                      h.chats[c].entries[k].run = r}}

\* A settled entry is history: no late answer, no late streamed update and no
\* second cancellation ever changes it (only deleting or regenerating does
\* away with it).
SettledEntryIsFinal ==
    [][\A c \in DOMAIN history.chats : \A r \in DOMAIN runs :
          \A e \in EntriesOf(history, c, r) :
             e.state # "working" => EntriesOf(history', c, r) \in {{}, {e}}]_vars

\* Every answer is recorded: the step that ends a run without cancelling it
\* leaves its answer in some conversation (_finalize_prompt: "Render agent
\* response and update history").
AnswerRecorded ==
    [][\A r \in DOMAIN runs :
          runs[r].pending /\ ~runs'[r].pending /\ ~runs'[r].cancelled =>
             \E c \in DOMAIN history'.chats :
                \E e \in EntriesOf(history', c, r) : e.state = "answered"]_vars

\* While a queue runs, an item it is done with keeps its verdict, whatever
\* other conversations do meanwhile.
BatchVerdictStable ==
    [][batch.running /\ Len(batch'.items) = Len(batch.items) =>
          \A i \in DOMAIN batch.items :
             batch.items[i].status \in Settled => batch'.items[i] = batch.items[i]]_vars

-----------------------------------------------------------------------------
(* Liveness, under FairSpec.                                               *)

\* The queued prompt eventually leaves the queue, and every batch comes to an end,
\* whichever of the two gets its turn first (_schedule_prompt_queue_flush, _advance).
QueuesDrain ==
    /\ promptQueue # <<>> ~> promptQueue = <<>>
    /\ batch.running ~> ~batch.running

\* The panel keeps the promise of RunLedger.
Outcome(run) == IF run.pending THEN "running"
                ELSE IF run.cancelled THEN "cancelled" ELSE "answered"

Ledger == INSTANCE RunLedger
            WITH outcomes <- [r \in DOMAIN runs |-> Outcome(runs[r])], current <- active

\* Every step of the panel is a step of the ledger or leaves it alone.
LedgerKept == Ledger!LedgerSafety

\* ... and every run in flight is eventually settled.
LedgerHonoured == Ledger!LedgerSpec

-----------------------------------------------------------------------------
(* What the documentation says and the code does not do.                   *)

\* README: transcripts are persisted to project-scoped files.  The answer of a
\* run is recorded in the project its prompt was asked in.
AnswerStaysInProject ==
    \A c \in DOMAIN history.chats : \A r \in DOMAIN runs :
        EntriesOf(history, c, r) # {} =>
            history.chats[c].home = history.chats[runs[r].chat].home

\* ARCHITECTURE: a queued prompt is submitted automatically once the agent
\* finishes.  A prompt that leaves the queue was submitted, was withdrawn by
\* the user, or has lost its conversation for good.
QueuedPromptSubmitted ==
    [][~CancelQueued =>
         \A i \in 1 .. (Len(promptQueue) - Len(promptQueue')) :
            \/ ~HasEntries(history, promptQueue[i])
            \/ /\ Len(runs') > Len(runs)
               /\ runs'[Len(runs')].chat = promptQueue[i]]_vars

\* README: a batch runs the prompt over the selected requirements.  Every item
\* was given the context of the document its requirement was selected in.
BatchKeepsSelection ==
    \A i \in DOMAIN batch.items : batch.items[i].ctx \in {Nowhere, batch.origin}
=============================================================================
