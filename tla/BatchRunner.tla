---------------------------- MODULE BatchRunner ----------------------------
(***************************************************************************)
(* The batch queue of the agent chat panel: AgentBatchRunner in            *)
(* ui/agent_chat_panel/batch_runner.py.  The queue runs one prompt over a  *)
(* list of requirements, each item in a conversation of its own.           *)
(*                                                                         *)
(* The runner holds no thread: every operation is called by the panel on   *)
(* the GUI thread and returns when the next item, if any, was submitted.   *)
(* The operations are therefore operators on a record b with               *)
(*    items    sequence of [chat, status, ctx]                             *)
(*    running  the runner's _running                                       *)
(*    mode     the runner's _cancel_mode                                   *)
(*    origin   the place (project, document) its targets were picked in    *)
(* and an operation that may start an item returns the set of its possible *)
(* outcomes: [batch, made, chat], the new record, how many conversations   *)
(* it created and the conversation it submitted the prompt to (0: none).   *)
(* Conversations are numbered in the order they are created; base is the   *)
(* number of the last one that existed before the call.                    *)
(***************************************************************************)
EXTENDS Integers, Sequences

CONSTANT ContextMayFail  \* may building an item's context raise an exception?

ASSUME ContextMayFailAssumption == ContextMayFail \in BOOLEAN

BatchItemStatus == {"pending", "running", "completed", "failed", "cancelled"}
CancelMode == {"none", "skip_current", "stop_all"}

\* A place is <<project, document>>; an item that built no context has none.
Places == Nat \X Nat
Nowhere == <<0, 0>>

BatchItem == [chat : Nat, status : BatchItemStatus, ctx : Places]
Batches == [items : Seq(BatchItem), running : BOOLEAN, mode : CancelMode,
            origin : Places]
Outcomes == [batch : Batches, made : Nat, chat : Nat]

\* The statuses of an item the queue is done with.
Settled == {"completed", "failed", "cancelled"}

\* reset(): the empty queue, also the initial one.
Reset == [items |-> <<>>, running |-> FALSE, mode |-> "none", origin |-> Nowhere]

Pending(b) == {i \in DOMAIN b.items : b.items[i].status = "pending"}

ItemsOf(b, chat) == {i \in DOMAIN b.items : b.items[i].chat = chat}

Mark(b, i, status) == [b EXCEPT !.items[i].status = status]

NothingStarted(b) == [batch |-> b, made |-> 0, chat |-> 0]

-----------------------------------------------------------------------------
(***************************************************************************)
(* _advance and _start_item.  The items f .. n-1 are started and fail      *)
(* while their context is built, and item n starts; n = Len + 1 when every *)
(* pending item failed.  A failed item keeps the conversation it was given.*)
(***************************************************************************)
StartItem(b, base, here, f, n) ==
    LET last == Len(b.items)
        chatOf(i) == base + 1 + (i - f)
        started == n <= last
    IN  [batch |->
            [b EXCEPT
               !.items = [i \in DOMAIN b.items |->
                   IF i < f \/ i > n \/ b.items[i].status # "pending"
                   THEN b.items[i]
                   ELSE [chat |-> chatOf(i),
                         status |-> IF i = n THEN "running" ELSE "failed",
                         ctx |-> IF i = n THEN here ELSE Nowhere]],
               !.running = started],
         made |-> IF started THEN n + 1 - f ELSE n - f,
         chat |-> IF started THEN chatOf(n) ELSE 0]

\* The items that may be the one to start when f is the first pending item.
Candidates(b, f) == IF ContextMayFail THEN f .. (Len(b.items) + 1) ELSE {f}

FirstPending(b) == {f \in Pending(b) : \A i \in Pending(b) : f <= i}

Advance(b, base, here) ==
    IF ~b.running \/ Pending(b) = {}
    THEN {NothingStarted([b EXCEPT !.running = FALSE])}
    ELSE UNION {{StartItem(b, base, here, f, n) : n \in Candidates(b, f)} :
                  f \in FirstPending(b)}

\* start(): a new queue of n targets picked at `here`.
Start(n, base, here) ==
    Advance([items |-> [i \in 1 .. n |->
                          [chat |-> 0, status |-> "pending", ctx |-> Nowhere]],
             running |-> TRUE, mode |-> "none", origin |-> here],
            base, here)

-----------------------------------------------------------------------------
\* Mutant: cancel_all does not look at the status of an item.
CancelAll_EveryItem(b) ==
    IF b.items = <<>> THEN b
    ELSE [b EXCEPT
            !.mode = "stop_all",
            !.items = [i \in DOMAIN b.items |->
                         [b.items[i] EXCEPT !.status = "cancelled"]]]

\* cancel_all(): every pending item is cancelled, the running one is left to
\* the cancellation of its run, which will find the mode set here.
CancelAll(b) ==
    IF b.items = <<>> THEN b
    ELSE [b EXCEPT
            !.mode = "stop_all",
            !.items = [i \in DOMAIN b.items |->
                         IF b.items[i].status = "pending"
                         THEN [b.items[i] EXCEPT !.status = "cancelled"]
                         ELSE b.items[i]]]

\* request_skip_current()
RequestSkipCurrent(b) == IF b.running THEN [b EXCEPT !.mode = "skip_current"] ELSE b

\* Mutant: a failed item stops the queue from advancing.
HandleCompletion_StopsOnFailure(b, chat, success, base, here) ==
    IF ItemsOf(b, chat) = {} THEN {NothingStarted(b)}
    ELSE UNION {IF success THEN Advance(Mark(b, i, "completed"), base, here)
                ELSE {NothingStarted(Mark(b, i, "failed"))} :
                  i \in ItemsOf(b, chat)}

\* handle_completion(): the outcome of the run in conversation `chat`.  A
\* conversation that belongs to no item is none of the queue's business.
HandleCompletion(b, chat, success, base, here) ==
    IF ItemsOf(b, chat) = {} THEN {NothingStarted(b)}
    ELSE UNION {Advance(Mark(b, i, IF success THEN "completed" ELSE "failed"),
                        base, here) : i \in ItemsOf(b, chat)}

\* Mutant: handle_cancellation does not clear the cancel mode.
HandleCancellation_KeepsMode(b, chat, base, here) ==
    LET cancelled(i) == Mark(b, i, "cancelled")
    IN  IF ItemsOf(b, chat) = {} THEN {NothingStarted(b)}
        ELSE UNION {IF b.mode = "stop_all"
                    THEN {NothingStarted([cancelled(i) EXCEPT !.running = FALSE])}
                    ELSE Advance(cancelled(i), base, here) :
                      i \in ItemsOf(b, chat)}

\* handle_cancellation(): the run in conversation `chat` was stopped; the
\* queue goes on with the next item unless all of it was cancelled.
HandleCancellation(b, chat, base, here) ==
    LET cancelled(i) == [Mark(b, i, "cancelled") EXCEPT !.mode = "none"]
    IN  IF ItemsOf(b, chat) = {} THEN {NothingStarted(b)}
        ELSE UNION {IF b.mode = "stop_all"
                    THEN {NothingStarted([cancelled(i) EXCEPT !.running = FALSE])}
                    ELSE Advance(cancelled(i), base, here) :
                      i \in ItemsOf(b, chat)}
=============================================================================
