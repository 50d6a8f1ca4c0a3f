------------------------------ MODULE AgentLoop ------------------------------
(* What one chat makes of the agent: LocalAgent.run_command drives the model   *)
(* and the MCP tools in a worker thread (local_agent.py), records what it did  *)
(* (run_contract.py), streams it to the panel, and the panel turns the stored  *)
(* turn back into messages for the next prompt (panel.py).  Requests keep the  *)
(* newest messages that fit the context (request_builder.py).                  *)
EXTENDS Integers, Sequences, FiniteSets, Functions

CONSTANTS MaxThoughtSteps,  \* answers of the model per run; 0: no limit
          MaxToolErrors,    \* failed iterations in a row; 0: no limit
          ContextTokens,    \* what the system prompt leaves of the context
          ResultTokens,     \* the sizes a tool message may have
          MaxCalls,         \* most tool calls in one answer
          ProviderIds,      \* whether the provider gives every call an id of its own
          MaxPrompts,       \* bound: prompts of the chat
          MaxTurns,         \* bound: answers with calls in the chat
          MaxStops,         \* bound: runs the user stops
          None              \* no payload

ASSUME AgentLoopAssumption ==
    /\ MaxThoughtSteps \in Nat /\ MaxToolErrors \in Nat /\ MaxCalls \in Nat \ {0}
    /\ ContextTokens \in Int /\ ResultTokens \subseteq Nat
    /\ ProviderIds \in BOOLEAN

VARIABLES pc,            \* where the worker is
          past,          \* the messages the panel replays before a new prompt
          conversation,  \* AgentLoopRunner._conversation
          turn,          \* ids of the calls of the answer still to be run
          messages,      \* tool messages of the answer, not yet in conversation
          step, errors,  \* _step, _consecutive_tool_errors
          cancelled,     \* the cancellation event of the run
          events,        \* _AgentRunRecorder._events
          snapshots,     \* _AgentRunRecorder._snapshots, by call id
          streamed,      \* what the panel's handle has been told
          executed,      \* history: the calls that reached MCP, and their outcome
          payload,       \* the run's result
          prompts, stops \* how often the user prompted and stopped

run == <<turn, messages, step, errors, events, snapshots, streamed, executed>>
vars == <<pc, past, conversation, run, cancelled, payload, prompts, stops>>

Limited(n) == n > 0

-------------------------------------------------------------------------------
(* Messages and requests                                                       *)

User == [role |-> "user", calls |-> <<>>, call |-> 0, tokens |-> 1]
Assistant(calls) == [role |-> "assistant", calls |-> calls, call |-> 0, tokens |-> 1]
Tool(call, tokens) == [role |-> "tool", calls |-> <<>>, call |-> call, tokens |-> tokens]

\* _trim_history: from the newest back, up to the first that does not fit; the
\* newest is kept whatever its size.
Room(m, budget) ==
    LET room[k \in 0..Len(m)] ==  \* tokens left once the k newest are in
          IF k = 0 THEN budget
          ELSE LET left == room[k - 1] - m[Len(m) - k + 1].tokens
               IN  IF left < 0 THEN 0 ELSE left
    IN  room
Trimmed(m, budget) ==
    LET n == Len(m)
        room == Room(m, budget)
        fits(k) == k = 1 \/ m[n - k + 1].tokens <= room[k - 1]
        kept == {k \in 1..n : \A j \in 1..k : fits(j)}
    IN  IF budget <= 0 THEN <<>> ELSE SubSeq(m, n - Cardinality(kept) + 1, n)

-------------------------------------------------------------------------------
(* The turn as the panel stores it                                             *)

\* The entries of a sequence that are kept, in its order.
Picked(seq, kept) ==
    LET upto[n \in 0..Len(seq)] ==
          IF n = 0 THEN <<>>
          ELSE IF kept[n] THEN Append(upto[n - 1], seq[n]) ELSE upto[n - 1]
    IN  upto[Len(seq)]

\* Mutant: the entries are grouped by kind.
Timeline_Grouped(log) ==
    LET first(k) == ~\E j \in 1..(k - 1) : log[j].kind = log[k].kind /\ log[j].of = log[k].of
        some(kind) == Picked(log, [k \in DOMAIN log |-> log[k].kind = kind /\ first(k)])
    IN  some("llm_step") \o some("tool_started") \o some("agent_finished")

\* build_agent_timeline: the log in order, each step and each call id once.
SameEntry(a, b) == a.kind = b.kind /\ a.of = b.of
Timeline(log) ==
    Picked(log, [k \in DOMAIN log |->
                    /\ log[k].kind # "tool_completed"
                    /\ ~\E j \in 1..(k - 1) : SameEntry(log[j], log[k])])

\* _entry_messages_from_timeline: each step's answer, followed by the stored
\* result of each of its calls that has one and was not used before (used_tools).
Mentions(e, id) == (e.kind = "tool_started" /\ e.of = id) \/ id \in Range(e.calls)
Replay(timeline, known, closing) ==
    LET unused(calls, k) ==
          [c \in DOMAIN calls |-> /\ calls[c] \in known
                                  /\ ~\E j \in 1..(k - 1) : Mentions(timeline[j], calls[c])
                                  /\ ~\E d \in 1..(c - 1) : calls[d] = calls[c]]
        results(calls, k) == LET ids == Picked(calls, unused(calls, k))
                             IN  [c \in DOMAIN ids |-> Tool(ids[c], 1)]
        shown(e, k) ==
          CASE e.kind = "llm_step" -> <<Assistant(e.calls)>> \o results(e.calls, k)
            [] e.kind = "tool_started" -> results(<<e.of>>, k)
            [] e.kind = "agent_finished" -> closing
        replayed[k \in 0..Len(timeline)] ==
          IF k = 0 THEN <<>> ELSE replayed[k - 1] \o shown(timeline[k], k)
    IN  replayed[Len(timeline)]

\* What the recorder notes (AgentEvent), with the step it belongs to.
Event(kind, of, calls, s, ok) == [kind |-> kind, of |-> of, calls |-> calls, step |-> s, ok |-> ok]
Answered(s, ids) == Event("llm_step", s, ids, s, TRUE)
Begun(s, id) == Event("tool_started", id, <<>>, s, FALSE)
Ended(s, id, ok) == Event("tool_completed", id, <<>>, s, ok)
Finished(ok) == Event("agent_finished", 0, <<>>, step, ok)

-------------------------------------------------------------------------------
(* The recorder                                                                *)

Snapshot(status, excluded, nth) == [status |-> status, excluded |-> excluded, run |-> nth]
Record(id, snapshot) ==
    [k \in DOMAIN snapshots \cup {id} |-> IF k = id THEN snapshot ELSE snapshots[k]]

\* iter_tool_snapshots: by first event, without the excluded; to_payload keeps
\* only the successful ones of a successful run.
Results(log, ok) ==
    LET timeline == Timeline(log)
        calls == Picked(timeline, [k \in DOMAIN timeline |->
                    /\ timeline[k].kind = "tool_started"
                    /\ ~snapshots[timeline[k].of].excluded
                    /\ ok => snapshots[timeline[k].of].status = "succeeded"])
    IN  [k \in DOMAIN calls |-> snapshots[calls[k].of].run]

\* The panel completes the entry of the prompt with what it stores of the run.
\* Closing is the final text, unless a step has said it already.
Store(log, closing) ==
    past' = past \o <<User>> \o Replay(Timeline(log), DOMAIN snapshots, closing)

\* finalise_success or finalise_failure, to_payload, and _finalize_prompt in the
\* panel, which ignores the result of a run the user stopped.
Finish(ok, stop, log) ==
    /\ events' = Append(log, Finished(ok))
    /\ payload' = [ok |-> ok, stop |-> stop,
                   results |-> Results(events', ok)]
    /\ pc' = "done"
    /\ IF cancelled THEN past' = past
       ELSE \E closing \in IF ok THEN {<<>>} ELSE {<<>>, <<Assistant(<<>>)>>} :
              Store(events', closing)

-------------------------------------------------------------------------------
Init ==
    /\ pc = "idle" /\ past = <<>> /\ conversation = <<>>
    /\ turn = <<>> /\ messages = <<>> /\ step = 0 /\ errors = 0
    /\ events = <<>> /\ snapshots = <<>> /\ streamed = <<>> /\ executed = <<>>
    /\ cancelled = FALSE /\ payload = None /\ prompts = 0 /\ stops = 0

\* run_command: the history of the chat, then the prompt.
Prompt ==
    /\ pc \in {"idle", "done"} /\ prompts < MaxPrompts
    /\ prompts' = prompts + 1
    /\ conversation' = Append(past, User)
    /\ turn' = <<>> /\ messages' = <<>> /\ step' = 0 /\ errors' = 0
    /\ events' = <<>> /\ snapshots' = <<>> /\ streamed' = <<>> /\ executed' = <<>>
    /\ cancelled' = FALSE /\ payload' = None
    /\ pc' = "head"
    /\ UNCHANGED <<past, stops>>

\* The user stops the run: the panel completes the entry at once with what it
\* has been told; the worker notices later.
Stop ==
    /\ pc \notin {"idle", "done"} /\ ~cancelled /\ stops < MaxStops
    /\ cancelled' = TRUE /\ stops' = stops + 1
    /\ Store(streamed, <<>>)
    /\ UNCHANGED <<pc, conversation, run, payload, prompts>>

-------------------------------------------------------------------------------
(* AgentLoopRunner.run                                                         *)

OutOfSteps == Limited(MaxThoughtSteps) /\ step >= MaxThoughtSteps
OutOfErrors == Limited(MaxToolErrors) /\ errors >= MaxToolErrors

\* Mutant: the event is not looked at between the calls of an answer.
Cancelled_NotBetweenCalls ==
    /\ cancelled
    /\ pc \in {"head", "waiting", "between"}
    /\ pc = "head" => ~OutOfSteps
    /\ pc = "between" => ~OutOfErrors
    /\ pc' = "done"
    /\ UNCHANGED <<past, conversation, run, cancelled, payload, prompts, stops>>

\* _raise_if_cancelled, wherever the loop calls it.
Cancelled ==
    /\ cancelled
    /\ pc \in {"head", "waiting", "call", "between"}
    /\ pc = "head" => ~OutOfSteps
    /\ pc = "between" => ~OutOfErrors
    /\ pc' = "done"
    /\ UNCHANGED <<past, conversation, run, cancelled, payload, prompts, stops>>

AbortDueToStepLimit ==
    /\ pc = "head" /\ OutOfSteps
    /\ Finish(FALSE, "steps", events)
    /\ UNCHANGED <<conversation, turn, messages, step, errors, snapshots, streamed,
                   executed, cancelled, prompts, stops>>

\* respond_async: the request leaves with Trimmed(conversation, ContextTokens).
Request ==
    /\ pc = "head" /\ ~OutOfSteps /\ ~cancelled
    /\ pc' = "waiting"
    /\ UNCHANGED <<past, conversation, run, cancelled, payload, prompts, stops>>

AbortDueToToolErrors ==
    /\ pc = "between" /\ OutOfErrors
    /\ Finish(FALSE, "errors", events)
    /\ UNCHANGED <<conversation, turn, messages, step, errors, snapshots, streamed,
                   executed, cancelled, prompts, stops>>

NextIteration ==
    /\ pc = "between" /\ ~OutOfErrors /\ ~cancelled
    /\ pc' = "head"
    /\ UNCHANGED <<past, conversation, run, cancelled, payload, prompts, stops>>

-------------------------------------------------------------------------------
(* _step_once: the model's answer                                              *)

\* The provider's ids, or the parser's "tool_call_<n>", the same in each answer.
Named == Cardinality(UNION {Range(events[k].calls) : k \in DOMAIN events})
CallIds(n) == [k \in 1..n |-> IF ProviderIds THEN Named + k ELSE k]
Placeholder == -(step + 1)

Turns == Cardinality({k \in DOMAIN conversation : conversation[k].calls # <<>>})

Tells(items) == streamed' = IF cancelled THEN streamed ELSE streamed \o items

\* An answer without calls ends the run.
AnswerText ==
    /\ pc = "waiting"
    /\ step' = step + 1
    /\ conversation' = Append(conversation, Assistant(<<>>))
    /\ Tells(<<Answered(step + 1, <<>>)>>)
    /\ Finish(TRUE, "text", Append(events, Answered(step + 1, <<>>)))
    /\ UNCHANGED <<turn, messages, errors, snapshots, executed, cancelled, prompts, stops>>

AnswerCalls ==
    /\ pc = "waiting" /\ Turns < MaxTurns
    /\ \E n \in 1..MaxCalls :
         LET ids == CallIds(n)
         IN  /\ turn' = ids
             /\ conversation' = Append(conversation, Assistant(ids))
             /\ events' = Append(events, Answered(step + 1, ids))
             /\ Tells(<<Answered(step + 1, ids)>>)
    /\ messages' = <<>> /\ step' = step + 1
    /\ pc' = "call"
    /\ UNCHANGED <<past, errors, snapshots, executed, cancelled, payload, prompts, stops>>

\* _handle_validation_error: every call of the answer, or a placeholder when it
\* has none, is recorded as failed and answered with the error.  The panel hears
\* of the calls before it hears of the answer (_advance_step comes last).
AnswerInvalid ==
    /\ pc = "waiting" /\ Turns < MaxTurns
    /\ \E n \in 0..MaxCalls :
         LET ids == IF n = 0 THEN <<Placeholder>> ELSE CallIds(n)
             s == step + 1
             calls == [k \in 1..(2 * Len(ids)) |->
                         IF k % 2 = 1 THEN Begun(s, ids[(k + 1) \div 2])
                         ELSE Ended(s, ids[k \div 2], FALSE)]
             failed == Snapshot("failed", FALSE, 0)
         IN  /\ events' = events \o <<Answered(s, ids)>> \o calls
             /\ snapshots' = [k \in DOMAIN snapshots \cup Range(ids) |->
                                IF k \in Range(ids) THEN failed ELSE snapshots[k]]
             /\ conversation' = conversation \o <<Assistant(ids)>>
                                  \o [k \in DOMAIN ids |-> Tool(ids[k], 1)]
             /\ Tells(calls)
             /\ turn' = ids
    /\ pc' = "invalid"
    /\ UNCHANGED <<past, messages, step, errors, executed, cancelled, payload, prompts, stops>>

\* Mutant: the invalid answer is counted as an error but not as a step.
AdvanceInvalid_NoStep ==
    /\ pc = "invalid"
    /\ Tells(<<Answered(step + 1, turn)>>)
    /\ step' = step /\ errors' = errors + 1 /\ turn' = <<>>
    /\ pc' = "between"
    /\ UNCHANGED <<past, conversation, messages, events, snapshots, executed,
                   cancelled, payload, prompts, stops>>

AdvanceInvalid ==
    /\ pc = "invalid"
    /\ Tells(<<Answered(step + 1, turn)>>)
    /\ step' = step + 1 /\ errors' = errors + 1 /\ turn' = <<>>
    /\ pc' = "between"
    /\ UNCHANGED <<past, conversation, messages, events, snapshots, executed,
                   cancelled, payload, prompts, stops>>

\* Any other exception: run_command_async turns it into a failed payload.
ModelFails ==
    /\ pc = "waiting"
    /\ Finish(FALSE, "exception", events)
    /\ UNCHANGED <<conversation, turn, messages, step, errors, snapshots, streamed,
                   executed, cancelled, prompts, stops>>

-------------------------------------------------------------------------------
(* _handle_response: the calls of the answer, one after the other              *)

RunTool ==
    /\ pc = "call" /\ turn # <<>> /\ ~cancelled
    /\ events' = Append(events, Begun(step, Head(turn)))
    /\ snapshots' = Record(Head(turn), Snapshot("running", FALSE, 0))
    /\ Tells(<<Begun(step, Head(turn))>>)
    /\ pc' = "running"
    /\ UNCHANGED <<past, conversation, turn, messages, step, errors, executed,
                   cancelled, payload, prompts, stops>>

ToolSucceeds ==
    /\ pc = "running"
    /\ executed' = Append(executed, [id |-> Head(turn), ok |-> TRUE])
    /\ snapshots' = Record(Head(turn), Snapshot("succeeded", FALSE, Len(executed) + 1))
    /\ events' = Append(events, Ended(step, Head(turn), TRUE))
    /\ Tells(<<Ended(step, Head(turn), TRUE)>>)
    /\ \E t \in ResultTokens : messages' = Append(messages, Tool(Head(turn), t))
    /\ turn' = Tail(turn)
    /\ pc' = "call"
    /\ UNCHANGED <<past, conversation, step, errors, cancelled, payload, prompts, stops>>

\* Mutant: the results of the calls before the failed one are lost.
ToolFails_DropsMessages ==
    /\ pc = "running"
    /\ \E reached \in BOOLEAN :
         /\ executed' = IF reached THEN Append(executed, [id |-> Head(turn), ok |-> FALSE])
                        ELSE executed
         /\ snapshots' = Record(Head(turn), Snapshot("failed", ~reached, Len(executed')))
    /\ events' = Append(events, Ended(step, Head(turn), FALSE))
    /\ Tells(<<Ended(step, Head(turn), FALSE)>>)
    /\ conversation' = Append(conversation, Tool(Head(turn), 1))
    /\ turn' = <<>> /\ messages' = <<>>
    /\ errors' = errors + 1
    /\ pc' = "between"
    /\ UNCHANGED <<past, step, cancelled, payload, prompts, stops>>

\* The server is not ready (the call is not among the results), the request
\* raises, or the tool reports an error: the answer's other calls are not run.
ToolFails ==
    /\ pc = "running"
    /\ \E reached \in BOOLEAN :
         /\ executed' = IF reached THEN Append(executed, [id |-> Head(turn), ok |-> FALSE])
                        ELSE executed
         /\ snapshots' = Record(Head(turn), Snapshot("failed", ~reached, Len(executed')))
    /\ events' = Append(events, Ended(step, Head(turn), FALSE))
    /\ Tells(<<Ended(step, Head(turn), FALSE)>>)
    /\ conversation' = Append(conversation \o messages, Tool(Head(turn), 1))
    /\ turn' = <<>> /\ messages' = <<>>
    /\ errors' = errors + 1
    /\ pc' = "between"
    /\ UNCHANGED <<past, step, cancelled, payload, prompts, stops>>

\* Mutant: a turn without errors does not reset the counter.
EndTurn_KeepsErrors ==
    /\ pc = "call" /\ turn = <<>> /\ ~cancelled
    /\ conversation' = conversation \o messages
    /\ messages' = <<>> /\ errors' = errors
    /\ pc' = "between"
    /\ UNCHANGED <<past, turn, step, events, snapshots, streamed, executed,
                   cancelled, payload, prompts, stops>>

EndTurn ==
    /\ pc = "call" /\ turn = <<>> /\ ~cancelled
    /\ conversation' = conversation \o messages
    /\ messages' = <<>> /\ errors' = 0
    /\ pc' = "between"
    /\ UNCHANGED <<past, turn, step, events, snapshots, streamed, executed,
                   cancelled, payload, prompts, stops>>

-------------------------------------------------------------------------------
\* The loop, the model and the tools; only the user may do nothing.
Worker ==
    \/ Cancelled \/ AbortDueToStepLimit \/ AbortDueToToolErrors
    \/ Request \/ NextIteration \/ EndTurn
    \/ AnswerText \/ AnswerCalls \/ AnswerInvalid \/ AdvanceInvalid \/ ModelFails
    \/ RunTool \/ ToolSucceeds \/ ToolFails

Next == Prompt \/ Stop \/ Worker

Spec == Init /\ [][Next]_vars
FairSpec == Spec /\ WF_vars(Worker)

-------------------------------------------------------------------------------
(* Properties                                                                  *)

Message == [role : {"user", "assistant", "tool"}, calls : Seq(Int), call : Int, tokens : Nat]

\* The state the source's types allow; in particular the errors in a row never
\* exceed the answers, and a tool runs only while its answer has calls left.
TypeOK ==
    /\ pc \in {"idle", "head", "waiting", "invalid", "call", "running", "between", "done"}
    /\ past \in Seq(Message) /\ conversation \in Seq(Message) /\ messages \in Seq(Message)
    /\ turn \in Seq(Int) /\ step \in Nat /\ errors \in 0..step
    /\ DOMAIN snapshots \subseteq Int
    /\ pc \in {"running", "invalid"} => turn # <<>>
    /\ Limited(MaxThoughtSteps) => step <= MaxThoughtSteps
    /\ cancelled \in BOOLEAN

\* Tool messages that stand in a block right after the answer that made the
\* calls, in the order of its calls, the first call first.
FollowCalls(m) ==
    \A j \in DOMAIN m : m[j].role = "tool" =>
        \E i \in 1..(j - 1) :
            /\ m[i].role = "assistant" /\ j - i <= Len(m[i].calls)
            /\ \A k \in (i + 1)..j : m[k].role = "tool"
            /\ m[j].call = m[i].calls[j - i]

\* Every request the model gets, the replayed runs before it included, has each
\* tool message behind the call it answers, in the chats where no run was
\* stopped (_handle_response, _handle_validation_error, _trim_history and the
\* panel's reconstruction of earlier turns).
RequestsAreOrdered ==
    pc = "waiting" /\ stops = 0 => FollowCalls(Trimmed(conversation, ContextTokens))

\* The consecutive-error budget: before a request the counter is the number of
\* latest answers that ended in a failed call, as the recorded events tell it,
\* and it is below the limit; a run aborted for it has had exactly that many.
FailedStep(s) == \E k \in DOMAIN events :
    events[k].kind = "tool_completed" /\ events[k].step = s /\ ~events[k].ok
FailuresInARow == Cardinality({s \in 1..step : \A t \in s..step : FailedStep(t)})
FailuresAreCounted ==
    /\ pc = "head" => /\ errors = FailuresInARow
                      /\ Limited(MaxToolErrors) => errors < MaxToolErrors
    /\ pc = "done" /\ payload # None /\ payload.stop \in {"errors", "steps"} =>
         (payload.stop = "errors" <=> Limited(MaxToolErrors) /\ FailuresInARow = MaxToolErrors)

\* A successful run reports every call that succeeded, in the order they were
\* made, and no other (to_payload, iter_tool_snapshots).
Successes ==
    Picked([k \in DOMAIN executed |-> k], [k \in DOMAIN executed |-> executed[k].ok])
SuccessesAreReported == payload # None /\ payload.ok => payload.results = Successes

\* "tool_call never moves relative to the llm_step that made it"
\* (AGENT_TIMELINE_STABILIZATION_PLAN.md:94): in the stored timeline every step is
\* followed by the calls that were begun for it, all of them and in their order.
CallsOf(s) == Picked(events, [k \in DOMAIN events |->
                                 events[k].kind = "tool_started" /\ events[k].step = s])
FollowedBy(timeline, k, calls) ==
    /\ k + Len(calls) <= Len(timeline)
    /\ \A n \in DOMAIN calls : timeline[k + n] = calls[n]
    /\ k + Len(calls) < Len(timeline) => timeline[k + Len(calls) + 1].kind # "tool_started"
TimelineKeepsCalls ==
    pc = "done" /\ payload # None =>
      LET timeline == Timeline(events)
      IN  \A k \in DOMAIN timeline : timeline[k].kind = "llm_step" =>
            FollowedBy(timeline, k, CallsOf(timeline[k].of))

\* What a finished run leaves behind tells its calls truly: the payload by their
\* results, the stored timeline by their place.
RecordIsTrue == SuccessesAreReported /\ TimelineKeepsCalls

\* "tool_results ... describe every call to MCP" (ARCHITECTURE.md:578).
EveryCallIsReported ==
    payload # None => \A k \in DOMAIN executed :
        \E r \in DOMAIN payload.results : payload.results[r] = k

\* The answer to every call: what the chat API requires of a request.
Complete(m) ==
    FollowCalls(m) /\ \A i \in DOMAIN m : m[i].role = "assistant" =>
        \A c \in DOMAIN m[i].calls : i + c \in DOMAIN m /\ m[i + c].role = "tool"
RequestsAreComplete == pc = "waiting" => Complete(Trimmed(conversation, ContextTokens))
ReplayIsOrdered == pc = "waiting" => FollowCalls(Trimmed(conversation, ContextTokens))

\* Every run ends: by the limits, or because the user stopped it.
EveryRunEnds == (pc \notin {"idle", "done"}) ~> (pc = "done")
===============================================================================
