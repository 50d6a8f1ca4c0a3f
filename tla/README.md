# CookaReq: a verification project

CookaReq is a wxPython desktop application for requirements: a document store
on disk, a GUI, a CLI, an in-process MCP server that exposes the store as tools,
and an LLM agent that works on the requirements through those tools. This
directory holds TLA+ models of it, the TLC configurations that check them and
TLAPS proofs about them. Paths below are relative to `src/`.

Seven parts are modelled: the **agent chat panel** (how prompts become agent runs,
how runs end, the queues of prompts and batch items), the **chat history** (the
conversations and the SQLite files they are kept in), the **agent loop** (steps,
tool calls, limits and the record of a run), the **streamed answer** of the LLM,
the **tool calls** between agent, user and MCP server, the **requirement store**
(files under two services), and the **labels** of requirements. Section 6 says
what is left out.

## 1. Inventory

| Component | State | Operations | Talks to |
|---|---|---|---|
| **Agent run pipeline** `app/ui/agent_chat_panel/{controller,execution,session,coordinator,panel}.py` | run handles (`cancel_event`, `pending_entry`, `future`), `_active_handle`, `_is_running`, `_prompt_queue` | submit, queue, withdraw, stop, regenerate, finalize, stream progress, flush the queue | worker pool (1 thread), `wx.CallAfter`, batch runner, conversation list |
| **Batch queue** `batch_runner.py`, `batch_ui.py` | items with status and conversation, `_running`, `_cancel_mode` | start, advance, start item, complete, cancel, skip, cancel all, reset | panel (context, conversation, submit callbacks) |
| **Conversation list** `history.py`, `history_sync.py` | conversations, active id, store path, dirty flags | add, select, delete, prune, load, save, change store | history store |
| **Chat history store** `history_store.py` | SQLite file of conversations and entries | load, save (synchronise), lazily load entries | conversation list of one or more program instances |
| **Confirmation** `confirm.py`, `confirm_preferences.py` | preference PROMPT / CHAT_ONLY / NEVER, the installed confirm callbacks | ask from a worker thread, remember | GUI thread (`CallAfter` + event), MCP client |
| **Agent loop** `app/agent/local_agent.py`, `run_contract.py` | conversation, step and error counters, tool snapshots | request a step, execute tool calls, stop, fail | LLM client, MCP client, cancellation token |
| **MCP client** `app/mcp/client.py`, `events.py` | readiness cache, settings | ensure ready, confirm, call tool, broadcast result | confirmation, MCP server, GUI listeners |
| **MCP server lifecycle** `app/mcp/{server,controller,service_cache}.py` | uvicorn server and thread, service cache, base directory | start, stop (bounded joins), status, activate cache | requirement services |
| **Requirement store** `app/core/document_store/*`, `app/services/requirements.py` | documents, items, links, revisions, labels on disk; one cached service in the GUI and one in the MCP server | create, save, move, delete, link, copy, label promotion | file system |
| **User documents** `app/services/user_documents.py` | a directory tree of plain files | read, create, delete | MCP tools |
| **Label definitions** `app/services/requirements.py`, `app/ui/labels_dialog.py`, `app/ui/main_frame/*` | label definitions per document, labels of items, the dialog's answers, what window and editor hold | promote, rename, remove, update all, set labels | requirement store, window, editor, agent |
| **Trace index, trace matrix** `app/core/trace_index`, `trace_matrix.py` | index of links, cached by fingerprint | build, look up | requirement store |
| **Search, import, export** `app/core/{search,requirement_import,requirement_export}.py` | none | pure transformations | |
| **LLM client** `app/llm` | the accumulator of a streamed answer | request, consume the stream, parse | provider |
| **GUI widgets** `app/ui/{main_frame,editor_panel,list_panel,...}` | widget state, `current_dir`, `current_doc_prefix` | open project, select document, edit | everything |
| **CLI** `app/cli` | none | one command per process | requirement service |
| **Configuration, i18n, log, telemetry** | settings file, log files | read, write | |

What is hard here, and what makes each part correct:

* **Agent runs**: three parties interleave (user, worker thread, event loop);
  stopping is cooperative, so a stopped command keeps working while the next run
  is already active; results arrive through `wx.CallAfter` after anything else
  may have happened; a modal question lets the event loop turn between a check
  and the act it guards; the project and the document may be switched during a
  run. Correct: one run in flight; no work without an owner; a settled entry is
  final; every answer is recorded, in the right place; queued prompts are
  submitted.
* **Batch queue**: driven by the ends of runs it does not own, with one mode
  flag for three kinds of cancellation and items that fail inside the call that
  starts them. Correct: the queue and the agent agree on the item that runs;
  verdicts are final; a batch ends; its items are about what was selected.
* **Chat history**: a failed load must not become an empty save; two program
  instances must not delete each other's conversations.
* **Confirmation and MCP client**: a worker blocks on the GUI without timeout;
  a request may time out after it was executed; readiness is cached.
* **MCP server**: a thread may outlive both joins of `stop_server`.
* **Requirement store**: two services with cached documents write one
  directory; multi-file operations fail half-way; RIDs are reused.
* **Agent loop**: optional limits, cancellation between tool calls, tool calls
  left unanswered after a failure, a record whose parts are written at different
  moments.
* **LLM client**: providers deliver the same answer in different pieces; a stream
  that breaks is parsed like one that ended.
* **Labels**: one change of a definition concerns the definitions of descendants,
  the items below, two caches, the window and an editor; the answers given in
  the dialog are applied long after they were given.

`PROJECT.json` lists the hazards at their lines.

## 2. How the project is built

1. `AgentRun` with `BatchRunner` and `ChatList`: runs, batches, conversations;
   `RunLedger` is its abstract specification, shown to be implemented.
2. `RequirementStore`: items, links, revisions and RIDs on disk under two
   services with cached documents.
3. `ChatHistory`: the conversation list over its SQLite files. `ChatList` assumes
   that saves and loads succeed; this module does not.
4. `AgentLoop`: what happens inside the step that `AgentRun` calls `Execute` to
   `Return`; `LlmStream`: what happens inside its `Request`; `ToolCalls`: what
   happens inside its `RunTool`, with the user and the server on the other side.
5. `Labels`: definitions and labels from the dialog and the agent's tools to the
   files and back to the screen.

The modules meet at outcomes. `AgentRun` lets a command return or fail at any
time after any number of progress reports; `AgentLoop` shows that it does return.
`AgentLoop` lets the model answer anything and a tool succeed or fail;
`LlmStream` shows which answers there are and `ToolCalls` that a call ends. They
are not composed in one state space: what one exposes to the next is a choice
among a few outcomes, and the choice is wider than what the inner module shows.

What a continuation would add, in this order: an abstract specification of the
store (calls that are atomic) that one service alone implements; the writes of two
services inside one update of labels; the freshness of the trace index.

## 3. The models

### The model of the agent chat panel

| Module | Models |
|---|---|
| `ChatList` | operators on a history: register, select, add, settle, stream, drop, remove, prune, open a project |
| `BatchRunner` | operators on a batch queue; an operation returns the set of its outcomes |
| `AgentRun` | the variables, one action per user action, worker step and posted callback; the properties |
| `RunLedger` | the abstract specification: runs begin one at a time and are settled once |
| `MCAgentRun` | values for the constants |
| `AgentControlProofs` | what the operators of `ChatList` and `BatchRunner` return; types; run control: who runs, the ledger, the batch |
| `AgentTranscriptProofs` | theorems about the transcripts |

**State.** `runs[r]` is the `_AgentRunHandle` with `run_id` r; its `stage` is
where its future is (`queued` in the pool, `executing`, `posted`: its
`_finalize_prompt` waits in the event queue, `over`), `pending` says whether the
handle still owns a `pending_entry`, `attached` whether that object belongs to
the list of conversations on the screen. `active` and `running` are the
controller's `_active_handle` and the session's `_is_running`. `gui` is the
queue of `wx.CallAfter` callbacks. `history`, `doc`, `promptQueue`, `batch` and
`dialog` are the conversations, the selected document, the queued prompts, the
batch queue and the modal question on the screen.

**Atomicity.** The GUI thread runs one handler at a time, so a user action or a
callback is one step, with everything it calls: `ShowAnswer` is `_finalize_prompt`
with the entry it completes, the wait state, `notify_completion`, the items the
batch runner starts from there and the flush it posts. The only GUI-thread code
that lets others in is a modal dialog; the delete and the close question are
therefore two actions each, `Ask...` and `Answer...`. The worker reads the cancel
event and posts callbacks; nothing else is shared.

**Abstractions.** A conversation is a number in order of creation, a prompt is
the conversation it is for, an entry is `[run, state, steps]`, a document is a
number. Text, tokens, timings, attachments, rendering and the batch table are
left out. Saves succeed here (`ChatHistory` is about those that do not). Every
project already has a chat file, so opening one loads it; the
migration of conversations into a directory without one is not modelled.
Exceptions while rendering, or while a run is submitted, are not modelled;
building the context of a batch item may fail (`ContextMayFail`), the case the
batch runner handles.

**Bounds.** `MaxRuns` (prompts asked for), `MaxChats`, `MaxTargets` and
`MaxSteps` (streamed updates per run) appear in guards of user actions and of
`ReportProgress` only; `Uses` switches parts of the user off. Three runs are
enough for an item, the next item and a chat prompt between them, a late answer
of a stopped run during the second next one; two suffice without a batch. Two
projects and two documents show every switch, including leave and return. The
batch run switches projects under three runs; the chat run has one project, so
that answers stay where transcripts are compared, and two documents.

**Fairness.** `WF(EventLoop)`: the main loop keeps running, also under a dialog.
`WF(Execute)`: a pool with one thread takes the oldest future. `WF(Return)`: a
command that was taken returns; that rests on the time-outs of the LLM and MCP
clients and on the agent loop's limits (`ToolCalls`, `AgentLoop`). The user
is not fair.

### The model of the requirement store

| Module | Models |
|---|---|
| `RequirementStore` | the directory, two services over it, the editor windows; the properties |
| `RequirementStoreProofs` | theorems about it |
| `MCStore` | documents and requirements at the start, for TLC |

**State.** `docs` and `items` are the files (`document.json`, `items/<id>.json`).
`cache[s]` is `RequirementsService._documents` of the GUI's service and of the
MCP server's; the GUI loads it when it opens the project, the server on first
use. `editor[e]` is the RID and the content an editor window holds. A
requirement has a statement, a revision and links; a link has the revision it
recorded and its suspect mark. `uid` (which requirement this is), `seen` (what
the target of a link said when the link was made), `alive` and `changed` are
history: no guard and no other variable depends on them.

**Atomicity.** The two services run on different threads and share nothing but
the directory; there is no lock. A call reads and validates, which is one action
(`ToolCreate`, `MoveRequirement`, ...), and leaves in `call[s]` the effects it
still has to perform, in the order of the code; each effect on a file is one
step (`SaveItem`, `BumpDocument`, `DeleteFile`, ...). `save_item` validates again
when it runs; an exception drops the effects that are left, as in the code. The
sweep of a deletion lists a directory in one step (`SweepDocument`), reads an item
in one (`SweepItem`, into `swept[s]`) and writes it without the link in another
(`SweepSave`), whatever its file holds by then. What a call that has not begun rejects is no step. Calls of one
service do not overlap: the GUI has one thread and the server executes one
synchronous tool call at a time.

**What is coarser than the code.** What a call reads before its first write is
read in one step; clone, move and copy take the
requirement from the disk when the call starts, not from the list in memory;
the list of documents of `DocumentsController` is the service's cache, the same
object. Links are a function of their target (duplicates collapse).
Left out: labels, attachments, shared artifacts, a changed number or a typed
revision in the editor, links edited in it, and a crash in the middle of a
write.

**Bounds.** Two documents are enough for every relation of parent and child,
one with two and one with three numbers for reuse of the last number and of a
gap; two statements (three where an edit must not restore the text);
`MaxCalls` calls, four or five, since the longest scenario needs five (create,
open, delete, create again, save); three where both services write, where it is
the steps of three calls that interleave. `Uses` selects the operations of a run.

**No fairness**: the module has safety properties only. A restart of the program,
which empties both caches, is not modelled.

### The model of the chat history

`ChatHistory` has the files of the projects (`db`: whether a file exists, its
rows by conversation, its `active_id`) and per running program the list loaded
from the open one (`mem`), with `_dirty_conversations` (`dirty`), the structure
flag, the clean-ups posted to the event loop and the conversation of the run in
flight. `MCChatHistory` gives the values, `ChatHistoryProofs` has the theorems.

A save is one SQLite transaction, so it succeeds or changes nothing (`Save`,
`Synced`); its exception is logged and swallowed, and the marks stay. `Faults`
says which calls may fail. Every action is one handler of the GUI thread; two
programs interleave between handlers. Launch, exit and crash are covered: `Exit`
does not rely on the last save having succeeded, and a program may be launched
again on what it left. A conversation is a number, an entry is "working" or
"answered"; times, texts, titles and the lazy loading of entries (unless they are
missing) are abstracted. Left out: the repair of undecodable entries, schema
creation, compaction, and `restore_entry` of a regeneration that cannot start.

Three files are needed for the migration rule (a file of a directory without
documents, and two with), three conversations for "some, not all, not the
last one", six acts for the longest scenario (launch, ask, fail to save, switch,
come back, delete). No fairness: the properties are about safety.

### The model of the agent loop

`AgentLoop` follows `LocalAgent.run_command` for the runs of one chat: `pc` is
where the worker is, `conversation`, `messages`, `step` and `errors` are the
fields of `AgentLoopRunner`, `events` and `snapshots` those of
`_AgentRunRecorder`, `streamed` what the panel's handle was told, `past` the
messages the panel reconstructs from the stored turns for the next prompt
(`Replay`). `executed` is history.

The worker is sequential; between two of its actions the user may stop the run
(the cancellation event is read at every `_raise_if_cancelled`, and not while a
tool runs). The model may answer with text, with up to `MaxCalls` calls, with
an invalid answer or an error, and a tool may succeed or fail: the choices of
`LlmStream` and `ToolCalls`. A message is its role, its calls and its size.
Trimming is modelled on sizes. Left out: system prompt and context messages,
reasoning, token counts, the check commands, warnings.

Both limits are 2, so that each can end a run and both can fall on the same
step; two prompts are enough for a replayed turn, three answers with calls for a
replay of two and a request behind it. Fairness is `WF(Worker)`: the worker's
thread runs, requests and tool calls return (they have time-outs, and `RunsEnd`
of `tool_calls` is about the latter). `EveryRunEnds` is checked with both limits
on; with the step limit off, its default, a model that keeps calling tools with
success keeps its run going. The user who
stops is not fair.

### The model of a streamed answer

`LlmStream` is one call of `_respond_chat`: the provider sends an answer
(text, reasoning, calls, each with or without arguments) in one of its
`Deliveries`: fragments at positions, of all calls together or of one call after
the other ("in_turn"), a `function_call`, whole calls in the closing message, or
whole calls in the reasoning, with ids or without, all in one delta ("no_ids") or
one per delta ("no_ids_in_turn"). `consume_stream` files the fragments (`buffer`), and
`parse_tool_calls` decodes them. The stream may break anywhere and the user may
cancel anywhere. The arguments of a call are a sequence of numbered parts: what
matters is whose parts are put together and whether all are there, so the
decoder (`Decoded`) is modelled by what it accepts: whole objects, an object
recovered from a broken one, several objects merged, nothing. Three calls in two
parts distinguish first, middle and last. A call is filed under what the code
tells it apart by (`At`, `ById`, `ByNumber`, `Function`); a call without an id is
numbered within its delta, so such calls in successive deltas meet under one
number. `RunTogether` names the two deliveries in which calls meet; the
properties of the passing run are about the others. Left out: the Harmony protocol, answers
that are not streamed, arguments filled in by default, validation against the
tool schemas.

### The model of tool calls

| Module | Models |
|---|---|
| `ToolCalls` | the worker with its MCP client, the GUI thread with the question and the server's controller, the server threads, the window |
| `ToolCallsProofs` | theorems about it |
| `MCToolCalls` | values for the constants |

Three kinds of threads: the worker (`pc`, one action per step between two points
where others may intervene: probe, decide whether to ask, post the question,
read the answer, send, receive), the GUI thread (one action per handler; a
question or a join with a server thread occupies it, `gui`, `dialog`) and the
server threads (`thread[s]` from "starting" to "dead"; uvicorn is modelled from
how it is used: it binds the port or dies, executes one tool at a time, finishes
what it executes after it was told to leave). The port is shared, `base` is the
application's base path, which a new server replaces while an old thread may
still execute. A request may time out or lose its connection while it waits, is
executed or is answered. `executed`, `results` and `yes` are history.

Left out: the token and its 401, the tool schemas, the connection checks of the
settings dialog, a second program on the same port. A tool's effect is that it
was executed, once, in a project.

The run of the passing check has one run of two calls, one time-out and two acts
of the user (start or stop the server, change chat or preference, close the
window); a second run shows nothing the theorems do not. In it the user does
not open another directory during a run (`SwitchDuringRun = FALSE`):
`SuccessesAreShown` is about one project, and `MCToolsForeign` is about the other
case. The other theorems hold either way.

Fairness: `WF(Worker)`, `WF(Server)`: threads run. `WF(Dispatch)`: the event loop
turns, `stop_server`'s joins are bounded, and a question on the screen is
answered sooner or later: without that the worker waits, by design. `RunsEnd`
excepts the closed window (`MCToolsExit`).

### The model of labels

`Labels` has the definitions in the documents and the labels on the items
(`defs`, `labels`), the definitions in each service's cached documents, what the
window holds (`shown`, `offered`), the editor, the dialog with its
`_original_key_lookup`, `_key_changes` and `_removed_labels`, and `results`, the
queue of tool results on their way to the window. `last`, `known` and `failed` are
history: `dialog.wish` records, independently of the dialog's own bookkeeping,
what the user has asked for in place of each label, and `known` where a label had
no definition at first, or the user was told, or chose, that it stays without one.

`update_document_labels` is one step (`UpdateLabels`): definitions, the
descendants' definitions, then item after item, ended by the first that does not
validate; the files written before that stay. The order of documents is any.
The dialog is modal: while it is open only its own actions, and the agent's
thread and its results, take steps. Each successful tool call is broadcast by
itself (`_broadcast_tool_result`, `notify_tool_success`) and handed to the GUI
thread by `wx.CallAfter`, which also runs under the dialog: `results` is a queue,
and `ShowResult` takes its first, while the run goes on. `Awaited(d)` says that a
result about document d has not arrived yet.

`Uses` names the behaviours outside the plain ones, each of which breaks a
property and is therefore off in the passing run: the dialog switched to another
document, or asked about a label promoted since it was opened ("switched"), a
change of title after a rename ("retitled"), a key used again ("reused"), an
answer about a label just added ("added"), requirements of a document that takes
only its own labels opened in the editor ("strict"), a document loaded, a save, a discard
or the dialog's OK while a result about the document is still in the event queue
("pending": what is read from the files, or followed, is then changed by the
result once more), the dialog's OK after the agent has changed the document's
definitions since the dialog loaded them ("during"), an agent, or a dialog, that
works with cached definitions which are no longer those on disk ("stale").
Changes of one label that build on each other, and results that arrive under the
open dialog, are in the passing run.

What is coarser than the code: labels of an item are a set (a merge that
duplicates one is not seen), keys are distinct also without their case, titles,
colours, groups and presets are abstracted, an update and a save do not
interleave with the other service's, an item fails to validate because of its
labels only, and detached editor windows are left out.

Two documents, one below the other and taking any label, three keys and three
items, three sets of labels for the agent to give (`Given`: none, one, and one with
a label not defined above); three acts of user and agent and three updates: a rename and a rename back,
or a deletion, before the dialog's OK, or tool calls, one of which may fail, whose
results the window takes between them, after them or under the dialog. Two updates
are too few: with them `UndefinedIsKnown` held for a dialog with old definitions,
and the proof, which knows no bound, failed there. The window reads its definitions again only for
results without an error, so after an update of the agent that ends half-way the
dialog opens with the old ones, and its OK puts them back.

## 4. Runs

| Run | Question | States | Properties |
|---|---|---|---|
| `chat` | prompts, queue, stop, progress, regenerate, browse, delete, in one project | 693 000 | `TypeOK`, `AnswerOnItsWay`, `WorkingIsInFlight`, `SettledEntryIsFinal`, `AnswerRecorded` |
| `batch` | batches of up to three targets, failing contexts, skip, stop, close question, project switches; under fairness | 507 000 | `SingleFlight`, `NoLostWakeup`, `BatchCoupled`, `NoUnownedWork`, `LedgerKept`, `BatchVerdictStable`, `QueuesDrain`, `LedgerHonoured` |
| `store_agent` | the agent's tools alone | 467 000 | `TypeOK`, `TraceTruth` |
| `store_gui` | the GUI clones, derives, copies, moves, deletes, creates and deletes documents | 142 000 | `LinksResolve`, `DocRevisionCounts`, `RequirementKept` |
| `store_editor` | an editor window whose content goes stale | 113 000 | `StatementRaisesRevision` |
| `store_both` | both services write: the agent creates, edits and links, the GUI deletes and re-parents | 355 000 | `RequirementKept` |
| `chat_history` | conversations over the files of projects, any write may fail | 432 000 | `TypeOK`, `UnsavedIsMarked`, `StoredIsKept` |
| `agent_loop` | two turns of a chat with both limits on; under fairness | 47 000 | `TypeOK`, `RequestsAreOrdered`, `FailuresAreCounted`, `RecordIsTrue`, `EveryRunEnds` |
| `llm_stream` | an answer in every delivery, whole, broken or cancelled | 36 000 | `TypeOK`, `WholeAnswerArrives`, `TruncatedCallsAreWhole` |
| `tool_calls` | questions, time-outs, lost connections, servers started and stopped; under fairness | 280 000 | `TypeOK`, `ResultsAreTrue`, `SuccessesAreShown`, `SentWithConsent`, `RunsEnd` |
| `labels` | definitions changed in the dialog and by the agent, results arriving one by one | 1 274 000 | `TypeOK`, `UndefinedIsKnown`, `ScreenShowsDisk`, `DecisionsAreApplied` |
| `llm_in_turn` | violated | | `CallsStayApart` |

Further counterexamples are kept as configurations of their own, each of one
property that `tlc -config <file> <module>` finds violated:

| Configuration | Module | Property |
|---|---|---|
| `MCLostAnswer.cfg` | `MCAgentRun` | `AnswerRecorded` |
| `MCMisfiled.cfg` | `MCAgentRun` | `AnswerStaysInProject` |
| `MCDroppedPrompt.cfg` | `MCAgentRun` | `QueuedPromptSubmitted` |
| `MCBatchContext.cfg` | `MCAgentRun` | `BatchKeepsSelection` |
| `MCStoreCycle.cfg` | `MCStore` | `HierarchyAcyclic` |
| `MCStoreOverwritten.cfg` | `MCStore` | `RequirementKept` |
| `MCStoreResurrected.cfg` | `MCStore` | `DeletedDocumentStaysDeleted` |
| `MCStoreHalfDeleted.cfg` | `MCStore` | `LinksResolve` |
| `MCStoreMoveRace.cfg` | `MCStore` | `LinksResolve` |
| `MCStoreStaleSave.cfg` | `MCStore` | `StatementRaisesRevision` |
| `MCStoreRidReuse.cfg` | `MCStore` | `TraceTruth` |
| `MCStoreBoth.cfg`, "tool_delete" instead of "delete_document" | `MCStore` | `RequirementKept` |
| `MCStoreBoth.cfg` | `MCStore` | `StatementRaisesRevision` |
| `MCChatUnreadable.cfg` | `MCChatHistory` | `StoredIsKept` |
| `MCChatTwoPrograms.cfg` | `MCChatHistory` | `StoredIsKept` |
| `MCChatComesBack.cfg` | `MCChatHistory` | `DeletedStaysDeleted` |
| `MCAgentLoop.cfg`, `ProviderIds = FALSE` | `MCAgentLoop` | `EveryCallIsReported`; `TimelineKeepsCalls` |
| `MCAgentLoop.cfg`, `ContextTokens = 3`, `ResultTokens = {1, 3}` | `MCAgentLoop` | `RequestsAreOrdered` |
| `MCAgentLoop.cfg` | `MCAgentLoop` | `RequestsAreComplete`; `ReplayIsOrdered` |
| `MCLlmCutOff.cfg` | `MCLlmStream` | `NoCallLosesItsArguments` |
| `MCLlmInTurn.cfg`, `Deliveries = {"no_ids_in_turn"}` | `MCLlmStream` | `CallsStayApart` |
| `MCToolsForeign.cfg` | `MCToolCalls` | `CallsStayInProject` |
| `MCToolsDeadServer.cfg` | `MCToolCalls` | `RunningServerRuns` |
| `MCToolsPreference.cfg` | `MCToolCalls` | `PreferenceOfTheChat` |
| `MCToolsTimedOut.cfg` | `MCToolCalls` | `FailedChangesNothing` |
| `MCToolsExit.cfg` | `MCToolCalls` | `ProgramEnds` |
| `MCLabelsSwitched.cfg` | `MCLabels` | `DecisionsAreApplied` |
| `MCLabels.cfg`, `Uses` one of "retitled", "reused" | `MCLabels` | `DecisionsAreApplied` |
| `MCLabels.cfg`, `Uses` one of "switched", "reused", "added", "strict", "pending" | `MCLabels` | `ScreenShowsDisk` |
| `MCLabels.cfg`, `Uses` one of "switched", "retitled", "reused", "strict", "during", "stale" | `MCLabels` | `UndefinedIsKnown` |
| `MCLabels.cfg` | `MCLabels` | `FailedChangesNothing` |

Deadlock is checked for `labels` only: elsewhere the system stops where its
users ask for nothing more, or at a bound.

What the passing runs show. **Panel.** Whatever the order of stop, answer, flush
and batch callbacks, one run is in flight, the batch and the agent agree, no
wake-up is lost, and each run is settled exactly once (`LedgerKept`: `AgentRun`
implements `RunLedger`). Within one project every answer reaches the transcript
and settled entries never change. **Chat history.** What a failed save did not
write stays marked, and what was stored leaves the file only with the user's
deletion, through restarts, migrations and clean-ups. **Agent loop.** In a chat
without stopped runs every request has each tool message behind the call it
answers; the error budget is exact; payload and timeline tell the calls truly;
runs end. **Stream.** However it is delivered, save for calls that follow each
other in deltas or come without ids in several (`RunTogether`), an answer that arrives whole is the one the model meant, and a
truncated one never runs a call with part of its arguments. **Tool calls.** A call
is executed at most once and as reported; `delete_requirement` and the tools that
change a requirement (`_UPDATE_TOOLS`) go out only with the user's consent or by a
preference that stands for it, while creating, linking and the label tools
do not ask; and no order of question, stop, start and time-out leaves a run
hanging. **Store.** Under one service, and without stale editors, the multi-file
operations compose: links resolve or are marked, `doc_revision` counts every
change, no requirement is lost in the middle of a move, whatever steps come
between; a link shown as sound tells the truth although RIDs are reused. With two services, while one creates and edits and one deletes, the same
or the other, no other requirement is lost. **Labels.** What the user asked for of
each label is what every requirement below gets, through renames, renames back and
deletions, and window and editor follow the files, tool result by tool result,
also while the dialog is open.

What the counterexamples show.

* *What is not tied to a run.* A project or document switch is not held back by a
  run in flight. `MCMisfiled`: the answer is appended, with its prompt, to the
  active chat of the project opened since. `MCLostAnswer`: the user comes back in
  time, but the handle's entry object belongs to the list loaded before, so the
  answer is written to an object nobody shows or saves. `MCDroppedPrompt`: the
  flush does not find the queued prompt's conversation. `MCBatchContext`: the
  remaining items are looked up by number in the document selected since.
  `MCToolsForeign`: the server is restarted for the new directory and the run's
  later calls reach it. `MCToolsPreference`: the confirmation preference is read
  when the worker gets to the run.
* *Each writer puts back what it has read.* `MCStoreCycle`, `MCStoreResurrected`:
  incrementing a document's revision writes the whole cached document, so the
  other service's re-parenting and even its deletion are undone. `MCStoreStaleSave`,
  `MCStoreRidReuse`: an editor writes the revision and the links it was loaded
  with. `MCStoreOverwritten`: a new requirement's number is taken when its editor
  opens and not checked when it is saved. `MCStoreMoveRace`: the items that refer
  to a moved requirement are collected once, before the move. The sweep of a
  deletion (`MCStoreBoth.cfg` as in the table): it reads an item, the agent edits
  the item, or deletes it and creates another with its number, and the sweep
  writes back what it read. Labels with "stale" and "during": definitions written
  from the other service's cache, or put back by a dialog that was opened before
  the agent changed them. Labels with "pending": an editor saved before the
  agent's result reaches the window puts the old labels back, and a result is
  applied once more to a document loaded since.
* *A failure half-way.* `MCStoreHalfDeleted`: a deletion removes the file before it
  rewrites the referring items, and one that does not validate ends the sweep.
  `FailedChangesNothing` of `Labels`: an update of definitions that an item's
  labels end half-way has saved the definitions already. `MCToolsTimedOut`: the
  agent is told of a failure and the tool has run. `MCToolsDeadServer`: a stop
  gives up on a thread, the next server finds the port busy and dies, and the
  controller takes it for running. `MCToolsExit`: the window is closed while a
  worker waits for an answer.
* *A list that is shorter than the file.* `MCChatUnreadable`: a file that cannot be
  read loads as empty and the next save empties it. `MCChatTwoPrograms`: two
  programs each synchronise the file to their own list. `MCChatComesBack`: the
  list taken along into an empty project brings deleted conversations back.
* *Calls and ids.* `llm_in_turn` (a finding): calls whose deltas follow each other
  become one call with the arguments of both, and so do whole calls without ids in
  successive deltas of the reasoning. `MCLlmCutOff`: a call cut off after
  its head runs without arguments. Without provider ids the ids repeat over the
  answers of a run, and records overwrite each other. A failed call leaves the
  later calls of its answer unanswered in the next request; a small context may
  part a call from its answer; a stopped run is replayed with calls out of order.
* *Decisions in the labels dialog.* `MCLabelsSwitched`: `on_manage_labels` passes
  the labels the dialog was opened with as the original ones, so in a document
  selected inside the dialog a rename that should reach the requirements changes
  the definition only. A change of a title forgets the answer given for the
  rename; a key deleted and added again inherits the answer of the deletion.
  "strict": an open editor drops the labels its document only inherits, and the
  next save removes them from the requirement.

## 5. Proofs

Proved for every value of the constants that satisfies the modules' assumptions
(for `AgentRun`: `NumProjects` and `Docs` not empty, bounds natural; for
`RequirementStore`: finitely many prefixes, `NoDoc` (a null parent) none of them, and
an initial directory that is well formed, `StoreAssumption`; for `ChatHistory`: bounds natural, room for the clean-up
that opening a file posts, and `None` no project and no conversation,
`ChatHistoryAssumption`; for `Labels`: finitely many documents, `LabelsAssumption`),
and for all of `Uses` unless the table says otherwise. No theorem depends on the size of the
instances above.

| Module | Theorem | Property |
|---|---|---|
| `AgentControlProofs` | `TypeCorrect` | `TypeOK` of `AgentRun` |
| | `OneRunAtATime`, `WorkIsOwned`, `AnswerDelivered`, `WakeupNotLost` | `SingleFlight`, `NoUnownedWork`, `AnswerOnItsWay`, `NoLostWakeup` |
| | `LedgerImplemented` | `LedgerKept` |
| | `BatchInStep`, `VerdictsAreFinal` | `BatchCoupled`, `BatchVerdictStable` |
| `AgentTranscriptProofs` | `WorkingIsOwned`, `SettledEntriesAreFinal` | `WorkingIsInFlight`, `SettledEntryIsFinal` |
| | `AnswersOnScreenAreRecorded` | a run that ends with its entry on the screen has its answer recorded |
| | `AnswersAreRecorded` (one project) | `AnswerRecorded` |
| `RequirementStoreProofs` | `StoreTypeCorrect` | `TypeOK` of `RequirementStore` |
| | `NothingIsOverwritten` (`OneWriter`, `OneRemover`) | `RequirementKept` |
| | `LinksTellTheTruth` (`AgentAlone`, `StartsTrue`) | `TraceTruth` |
| | `StatementsRaiseRevisions` (`OneWriter` or `OneEditor`, `OneHand`, `StartsRevised`) | `StatementRaisesRevision` |
| | `LinksAlwaysResolve`, `RevisionsCount` (`GuiAlone`, `GuiStarts`) | `LinksResolve`, `DocRevisionCounts` |
| `ChatHistoryProofs` | `HistoryTypeCorrect` | `TypeOK` of `ChatHistory` |
| | `MarksAreComplete`, `StoredStays` (one program, readable files) | `UnsavedIsMarked`, `StoredIsKept` |
| `ToolCallsProofs` | `ToolsTypeCorrect`, `ConsentGiven`, `ToldTheTruth` | `TypeOK`, `SentWithConsent`, `ResultsAreTrue` of `ToolCalls` |
| | `WindowCatchesUp` (no project opened under a run) | `SuccessesAreShown` |
| `AgentLoopProofs` | `TypeCorrect`, `ErrorsAreCounted` | `TypeOK`, `FailuresAreCounted` of `AgentLoop` |
| | `RecordsAreTrue` (`ProviderIds`) | `RecordIsTrue` |
| | `RequestsOrdered` (`ProviderIds`, front not cut off behind a call) | `RequestsAreOrdered` |
| `LlmStreamProofs` | `TypeCorrect`, `WholeAnswersArrive`, `TruncatedCallsStayWhole` (the last two not for `RunTogether`) | `TypeOK`, `WholeAnswerArrives`, `TruncatedCallsAreWhole` of `LlmStream` |
| `LabelsProofs` | `LabelsTypeCorrect` (without "reused", "retitled") | `TypeOK` of `Labels` |
| | `DecisionsReachRequirements` (`PlainDialog`) | `DecisionsAreApplied` |
| | `UndefinedLabelsAreKnown` (`AttentiveUses`) | `UndefinedIsKnown` |
| | `ScreenFollowsDisk` (`FollowingUses`) | `ScreenShowsDisk` |

* `TypeCorrect`. `TypeOK` is inductive alone; the work is in the operators
  (the first part of `AgentControlProofs`): removing, pruning and reopening
  conversations never leaves one in the list that does not exist.
* **Control.** The conjunction `Control` of `TypeOK`, `SingleFlight`,
  `NoUnownedWork`, `AnswerOnItsWay` and `NoLostWakeup` is inductive. An answer in
  the event queue belongs to a run that is posted (`AnswerOnItsWay`); if it was
  not stopped it is the active one (`NoUnownedWork`); so the step that shows it
  leaves no owner (`Idle`), and from an idle state the batch runner begins at
  most one run (`ProceedExclusive`). A flush is posted by every such step, so
  the queue keeps its wake-up.
* **Ledger.** Under `Control` a run begins only while none is in flight
  (`BeginLedger`), and the two ways a run ends, a stop and an answer, settle the
  active run and no other (`SettleLedger`), whatever the batch runner begins in
  the same step; every other step leaves the ledger alone.
* **Batch.** `BatchCoupled` is not inductive: the runner finds the item that is
  over by the conversation of the run that ended. `Coupled` adds that the items
  have conversations of their own, numbered like no other (`Numbered`), so that
  the run in the running item's conversation is never taken for another, and that
  the queue is either over (`Done`) or the active run works for its item with no
  cancel mode set (`Working`). An answer to a chat prompt therefore finds the
  queue over, and the end of an item advances it by exactly one.
* **Transcripts.** `Tidy` says of every conversation, loaded or not, which
  entries it may hold: one entry per run at most, written by a run that was begun,
  "working" only while the run is the active one or its entry object no longer
  belongs to the list on the screen; and of a run in flight whose object is on
  the screen, that its conversation has the entry unless it was deleted. A project
  switch detaches the object (`attached`) in the step that replaces the list.
  That is why `WorkingIsInFlight` and `SettledEntryIsFinal` hold for any number of
  projects while `AnswerRecorded` needs one: with two, the run that ends may be
  detached (`MCLostAnswer.cfg`). `AnswersOnScreenAreRecorded` is what remains true
  then.
* **Labels.** The dialog keeps its own books (which definition a row comes from,
  which definitions have a rename or a deletion on record), `wish` records what the
  user asked for. `Distinct` says that rows come from different definitions and
  an answer is about a definition whose row has another key or is gone; `Faithful`
  that the books and `wish` agree (`Opinion`), that an answer "yes" is about a
  label the dialog was opened with, and that a label removed with "yes" has no
  row again. Both survive renames, renames back, additions and deletions in any
  order; so the renames and removals that `update_document_labels` computes from
  the books have the effect of `wish` on each label (`DialogWish`), and a pass over
  the requirements that meets no error gives each what was asked for
  (`UpdateGrants`). `PlainDialog` excludes the four uses of the dialog that break
  the books ("switched", "retitled", "reused", "added"), each with a counterexample
  above; an agent with old definitions, and changes the agent makes under the open
  dialog, are included (`DecisionsReachRequirements`).
* **Labels: definitions.** The labels a document allows are those of its list of
  ancestors, a recursive function, which the definition ends when the list is closed
  under parents. That the steps of a recursion can be taken is proved from a set of
  numbers closed under successor (`CountedUp`, `Iterates`) instead of an induction
  schema. `LineageClosed` shows that the list always gets to the end, since a list of
  all documents has no room for one more, and `LineageLeast` that nothing else is in
  it. A service may hold old definitions of documents that take any label, for there
  nothing can be undefined; `Agree` says that elsewhere its cache is the disk. While
  the dialog is open the window's cache agrees, and `Heard` says that every label
  the dialog was filled with that has no row any more was renamed or removed with the
  user's knowledge; so an update, also one that ends half-way, leaves undefined only
  what `known` lists (`UpdateSettles`). `AttentiveUses` leaves out the uses that
  break this: those that spoil the books, "strict" (open editors in documents that
  restrict labels), "during" (a change of the agent under the open dialog) and
  "stale" (a service with old definitions). Changes of one key that build on each
  other, and results still on their way, are included.
* **Labels: the window.** The tools rewrite the files first; their results wait in
  the event queue and are applied to the window one at a time, in order. `Abreast` is
  the invariant: the labels in the window, with the results that wait applied one
  after the other, are those on disk (`CaughtUp`; `Views` is the sequence of what the
  window will show). A tool call changes the files and appends the result that makes
  the same change (`OneMore`, `AgentAbreast`); `ShowResult` takes the first away and
  makes the window its outcome (`OneLess`); results about other documents change
  nothing (`NothingAbout`), so that without results about the document the window has
  what is on disk (`NoneAwaited`). The dialog needs the same of its answers: the
  renames it follows in memory are those the files got, because each "yes" is about a
  label it was opened with (`AnswersReach`, `UpdateRewrites`). An editor that is not
  touched holds what the window shows (`EditorFollows`). `FollowingUses` leaves out
  what breaks this: the four uses that spoil the books, "strict", where the editor
  drops labels, and "pending", where the user writes labels, or loads the document,
  before a result about it has arrived. Changes under the open dialog, and an agent
  or a dialog with old definitions, are included.
* **Store: types.** `TypeOK` needs the plans of the calls in progress: what kind of
  effect a plan holds, with which arguments, and that the documents it bumps are
  in the cache of the service that will perform it (`Types`), although the
  caches are changed by the calls of their own service only.
* **Store: nothing is overwritten.** `RequirementKept` says that every requirement
  saved and not deleted since has its file, in the middle of calls too. `Kept`
  adds what the plans still owe: each save goes to a free place or to the place of
  its own requirement (`OwnPlaces`), and a move unlinks a file only after the
  same requirement was saved in another (`CopyFirst`).
  Two hypotheses. `OneWriter`: the operations that put a requirement into a file are
  performed by one of the two services, either the GUI's copies and moves or the
  agent's creations and edits. `OneRemover`: one of the two deletes requirements and
  documents, the writer or the other one. What a sweep writes back is what it read
  a step before, with whatever the other service has done in between. `Intact` says
  that the file still holds the same requirement then, so that the write may undo an
  edit but never puts a requirement in the place of another: the other service
  removes nothing, for a service without deletions has only harmless effects in its
  plans (`Duties`), and a number in use is never given again. The runs `store_both`
  and `store_gui` satisfy both hypotheses. Neither can be dropped: a new requirement of the editor
  takes a number in use (`MCStoreOverwritten.cfg`), and with two services that store,
  both may take the same next number; with two that delete, the agent may delete the
  requirement a sweep has read and create another under its number
  (`MCStoreBoth.cfg` with "tool_delete" in place of "delete_document"). The next number of a document is
  free because it is above the maximum (`NextItemId`), and it stays free until the
  call saves because the other service stores nothing.
* **Store: links.** `TraceTruth` compares a link with its target by revision. Two things
  could make an old revision come true again: an edit that leaves the revision as
  it is, and a RID that is used a second time. `Tells` says of a link that its
  revision is at most the target's, that it has the target's statement where the
  two are equal, and that a link to a missing file has no revision, so that the next
  owner of the number starts with nothing to be mistaken for. Creations, edits and
  the link tool keep `Tells` (`StoringTells`: storing an item can only raise its
  revision, `Prepared`). A deletion breaks it for a while: until the sweep has read
  a file, that file may link to what is gone (`Late`). The sweep must therefore
  not give up: `Acceptable` says that what is left of the links of any file passes
  the validation of `save_item` again, which a link of an item to itself would
  not, and such a link exists (an item created with a link to its own number);
  it is the item's only link, so the sweep of another target never stores it.
  A sweep reads an item in one step and writes it in another. Where one service alone
  touches requirements (`OneHand`) what was read is still what the file holds
  (`AsRead`, `Undisturbed`), and the two steps have the effect of one (`SweptAtOnce`);
  `AgentAlone` and `GuiAlone` below imply this.
  Hypotheses: `AgentAlone`, no operation of the GUI, whose editor window can save
  an old link under a reused number (`MCStoreRidReuse.cfg`), and `StartsTrue`, the
  same about the links on disk at the start, which the directories of the runs
  satisfy. As in the model, a call names one link at most.
* **Store: revisions.** A save writes an item that was read earlier: by the call it
  belongs to, or, from an editor window, before any number of other calls.
  `Rising` says that each save a plan still owes is a later version of the file it
  replaces (`Follows`: a higher revision, or the same with the same statement) and
  that two saves of one file agree (`Orderly`), as those of a move's referrers
  must; and that what a window holds is no older than its file and than the saves to
  come (`UpToDate`), so that comparing revisions in `save_requirement_payload` is
  enough to tell whether the statement is new. While the window's own save is
  performed the file is newer than the window, until the window is closed;
  `Closes` says that by then nothing is left of the plan but a bump and the close,
  which cannot fail. All effects but a save leave revision and statement alone or
  remove the file (`Fades`).
  Hypotheses: `OneHand`, and either `OneWriter`, as above, or `OneEditor`: one window, and beside it
  nothing stores but clones, which start at revision 1 under a free number (a
  window on a new requirement has no file yet, and both may meet in one file). The
  run `store_editor` has the operations of `OneEditor`. `OneHand` cannot be dropped: an
  edit of the agent between a sweep's read and its write is undone with its revision
  (`MCStoreBoth.cfg` with `StatementRaisesRevision`). A tool's edit under an open
  window breaks the property (`MCStoreStaleSave.cfg`), and so may a second window, or
  a moved requirement of a high revision at the number of an open one. `StartsRevised`:
  the revisions on disk at the start are above 0.
* **Store: links resolve, revisions count.** Both properties speak of a store at rest,
  and both are broken in the middle of nearly every call. `GuiWorks` says where a
  call can be and what the files owe it there: about to save and bump, about
  to delete, sweeping, about to bump, emptying a document, or moving
  (`Works`, one predicate for each). `Anchored` is what the links keep: every target
  is another requirement of a document above, so that the validation of `save_item`
  accepts what a sweep or a move writes and the call cannot stop half done; and it
  is there, but for the one that is being deleted, which only the files not swept
  yet may still name. `Even` is what the revisions keep: each has counted the
  changes of its document, but that some are one behind (`behind`) and, in a
  move, which bumps the old document before its file is unlinked, one is ahead.
  `Moving` counts its plan from the end, whatever number of referrers there is,
  and says that all that links to the old file is among them. A bump writes the
  cached document, so the counts need `Ahead`: the disk has what the cache has,
  and at most documents that are new. The hierarchy below a document is followed by
  `Chain`, a recursive function of the length of the walk; that a document which is
  added, or removed with none below it, leaves the walks from the others as they
  were (`ChainGrows`, `ChainStays`) is again proved by counting up.
  Hypotheses: `GuiAlone`, the operations of the run `store_gui`. With a document
  given another parent (`MCStoreHalfDeleted.cfg`) or the agent linking during a move
  (`MCStoreMoveRace.cfg`) a link loses its target; what an editor window saves is
  outside these two theorems. `GuiStarts`: the links on disk at the start are such
  as `save_item` accepts, and the documents have not been revised.
* **History: types.** A list is the rows of a file put in order, then pruned,
  extended and changed in place. That the order is one (`Ordered` numbers the rows
  1, 2, ... without a gap, whatever positions they have) and that leaving
  conversations out keeps the others in order are facts about ranks in finite
  sets (`Ranking`, the first part of `ChatHistoryProofs`). `Types` is inductive
  for any number of programs on the same files and whatever call fails.
* **History: nothing stored is lost.** `Together` says what a program's list and its
  file owe each other: what is not dirty reads the same in both (`Marked`); the
  positions in the file are the places on the list unless the structure is dirty
  (`Positioned`); what the file holds is on the list in a later version, or was
  deleted by the user (`Kept`); and the positions in every file are 1, 2, ...
  (`Dense`), without which the list loaded from a file would not have the places
  the file says. `Kept` is what makes a save harmless: the rows it removes are
  empty or deleted. Most handlers are an edit of the list (`Edit`) followed by a
  save, which may fail; both keep `Coherent`, the conjunction of `Marked`,
  `Positioned` and `Kept` (`EditCoherent`, `SavedCoherent`). Opening a file and the posted clean-up prune by what a query of
  the file says: a conversation the query does not name has no entries there, so
  `Kept` loses nothing when it goes. A project switch copies the list only into a
  file without conversations (`TakesAlong`).
  Hypotheses: one program (`OneProgram`) and reads that do not fail. Neither can
  be dropped: a second program saves an older list over the file
  (`MCChatTwoPrograms.cfg`), and a list that could not be read is empty
  (`MCChatUnreadable.cfg`). Writes may fail at any time, and the program may end at
  any time.
* **Consent.** `Consent` is `Types`, `Asked` (a question on the screen or in the
  event queue is about the call at hand and the worker waits for it) and `Given`
  (a worker that read anything but "no" did so for a call the user said yes to).
  That the answer cannot belong to an earlier question is the content of `Asked`.
* **Ports.** `TypeOK` of `ToolCalls` follows from `Types`, `Consent` and `Ports`: at
  most one thread listens, and one that has not bound the port, or is dead,
  executes nothing. A new thread binds only a free port, also when a stop gave up
  on the one before.
* **Once.** `ResultsAreTrue` follows from `Once`: a call is in at most one place
  (an inbox, a thread, executed), every place knows only calls that were begun,
  a response is a receipt for an execution. A call is sent once, and every step
  moves it or drops it; a time-out only stops waiting.
* **The window.** `SuccessesAreShown` speaks of an empty event queue. `Shown` adds
  why it gets empty with nothing missed: a successful result the window does not
  show has its event in the queue, with the base path of the open project
  (`Announcements`). The run's project is the open one as long as none is opened
  under it (`RunsInOpen`), which is the theorem's hypothesis and what
  `MCToolsForeign.cfg` needs; and when a server is about to be started again
  (`Joins`) the queue need not speak for the window: it reads the project anew.
* **Error budget.** The counter and the recorder are written at different moments
  of an iteration, and an invalid answer notes its failures before it counts as
  a step. `IInv` says for every place of the worker up to which step the counter
  speaks (`Counted`), that the recorder is not ahead of it by more (`Noted`), that
  it is below the limit where the loop goes on (`Budget`) and why a run ended
  (`Verdict`).
* **Records of a run.** The payload and the stored timeline are computed when the
  run ends, from a log that every step before has added to, and that may end in
  the middle of an answer; `RInv` keeps them true in between. `Sound` says of the timeline the log would give now: every call
  belongs to the answer before it and to no other (`OwnCalls`, `MadeBefore`), the calls
  of an answer were begun from the first on (`RunInOrder`), and they stand right
  behind it, all that were begun for it and in their order (`CallsBehind`).
  `Recorded` adds that the snapshots report the calls that were executed with
  success, and `Progress` that, while an answer is worked off, its calls are the
  answered ones (`messages`) followed by those left (`turn`), and which of them were
  begun (`Up`). The timeline drops an entry that repeats the id of an earlier one;
  that an answer or a call goes to its end instead needs that the ids of a new
  answer are not in use. Hence the hypothesis `ProviderIds`: where the parser
  numbers the calls of an answer itself, the ids repeat from answer to answer and
  `TimelineKeepsCalls` has the counterexample of section 4.
* **Requests of a run.** `Story`, the part of `RInv` about the conversation, says that
  in a chat without stopped runs the stored turns and the conversation have
  every tool message behind its call: `AnswerTo` says which calls the tool
  messages of the answer at hand are about, and `FollowsAnswer` that they may be
  put behind it; the next prompt replays the timeline of a sound record. A request
  is what the trimming leaves of that conversation, and a suffix that does not
  begin with a tool message follows its calls (`FollowsSuffix`). `RequestsOrdered`
  says no more than that: where the cut falls behind a call (`Parted`), the
  request begins with an answer to nothing, which is the counterexample with
  `ContextTokens = 3`.
  Timelines, results and replayed messages are picked from the log by `Picked`, a
  recursive function; what it returns for a longer log (`PickedAppend`,
  `PickedPrefix`) and for equal choices (`PickedSame`) is proved with a least
  counterexample, by the well-foundedness of the numbers.

* **The accumulator.** `Filing` says what it holds: the first m calls of the answer, each
  with the first fragments of its arguments (`Entries`), where m and the number of
  fragments follow from what the provider has sent (`Delivered`). A delta is merged
  item by item, a recursion over the delta: `ReceivedIs` shows that a closed form
  of what is held after each item is what remains after the last, again by
  counting up, and `Opening` and `Continuing` give the closed forms for a delta
  that names every call and for one that adds to every call. `Ready` says that a
  stream that did not break ended with the last of the answer. What the client
  reads is then a question of arithmetic on the numbers of the fragments
  (`DecodedIs`): nothing, a part, the whole, or the whole twice. Whole
  calls without ids that come in one delta are told apart by their number in it
  (`ByNumber`). Calls in turn, and whole calls without ids in several deltas, share
  one entry and are excluded (`Plain`); that is the finding `llm_in_turn`.

Only model-checked: liveness (`QueuesDrain`, `LedgerHonoured`, `EveryRunEnds`,
`RunsEnd`), which is outside what the prover handles. The runs that check
`LinksResolve` and `DocRevisionCounts` have the hypotheses of their theorems.

## 6. Not modelled, and why

* **Transformations without a protocol**: search, import, export, the trace
  matrix, the rendering of documents and transcripts, prompts, localisation. They
  map data to data or to text; a model would repeat them.
* **Widgets and layout** (`editor_panel.py`, `list_panel.py`, `settings_dialog.py`,
  the frame): event wiring, sizes, columns, dialogs. What of them takes part in
  a protocol is in the models: the switches of project and document, the item an
  editor window holds, the labels it offers, the labels dialog, the modal
  questions. These parts, the transformations and their dialogs make up most of
  the implementation, which is why the models cover a modest share of its lines.
* **CLI**: one sequential command per process on top of the same service.
* **Configuration, logging, telemetry**: key/value settings and output.
* **Trace index**: a cache with a fingerprint of the files as its key; its builder
  is a transformation.
* **User documents**: plain file operations with a path check.
* Of modelled components: in the panel token metrics, attachments, log export and
  exceptions while rendering; in the history `restore_entry`, the repair of
  undecodable entries, schema creation and compaction; in the loop the
  preparation of the context and the check commands; in the client the token,
  the tool schemas and the checks of the settings dialog; in the parser the
  Harmony protocol, answers that are not streamed, default arguments and
  validation; in the store attachments, shared artifacts, typed revisions, links
  edited in the editor, two creators in one document at the same time, and a
  crash in the middle of writing one file; in the labels titles, colours, groups,
  presets and writes of two services inside one update.
