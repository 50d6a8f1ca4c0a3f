------------------------------ MODULE ToolCalls ------------------------------
(* How a tool call of the agent reaches a project: the worker thread of the    *)
(* run and its MCP client (client.py), the question it may put to the user     *)
(* through the GUI thread (confirm.py, confirm_preferences.py), the MCP server *)
(* that the GUI starts and stops in threads of its own (server.py,             *)
(* controller.py), and the project the window shows (main_frame/documents.py,  *)
(* main_frame/agent.py).                                                       *)
EXTENDS Integers, Sequences, FiniteSets

CONSTANTS Project,           \* directories
          NoProject,         \* the base path of a stopped server
          Chat,
          AutoStart,         \* mcp_settings.auto_start
          SwitchDuringRun,   \* whether the user opens a directory while a run is on
          MaxRuns, MaxCalls, MaxTimeouts,  \* bounds: runs, calls, requests timed out
          MaxActs            \* bound: what the user does besides prompting and stopping

ASSUME ToolCallsAssumption ==
    /\ Project # {} /\ NoProject \notin Project
    /\ {AutoStart, SwitchDuringRun} \subseteq BOOLEAN
    /\ {MaxRuns, MaxCalls, MaxTimeouts, MaxActs} \subseteq Nat

VARIABLES
  \* the GUI thread
  gui,          \* "free", "joining" a server thread, "closed"
  after,        \* what follows the join: "nothing", "start", "close"
  open,         \* current_dir, and mcp_settings.base_path
  chat, preference, persistent,  \* the active chat, _confirm_preference and its lasting value
  always,       \* _requirement_update_always
  events,       \* wx.CallAfter
  dialog,       \* the call the user is asked about, or 0
  unseen,       \* writes to the open project the window does not show
  \* the worker thread
  jobs,         \* runs that wait for the worker
  pc, run, stopped, ready,  \* the run at the worker; its client's readiness verdict
  call,         \* the call at hand: [nth, tool]
  answer,       \* what the user said: "none", "no", "yes", "always"
  \* the MCP server
  server,       \* _uvicorn_server, 0 when there is none
  thread,       \* the server threads ever started
  base,         \* app.state.base_path
  inbox, busy,  \* requests a thread has received, and the one it executes
  reply,        \* responses on their way
  \* history and bounds
  executed, results, yes, runs, timeouts, acts

guiVars == <<gui, after, open, events, dialog, unseen>>
choiceVars == <<chat, preference, persistent, always>>
workerVars == <<jobs, pc, run, stopped, ready, call, answer, runs>>
serverVars == <<server, thread, base, inbox, busy, reply>>
history == <<executed, results, yes, timeouts>>
vars == <<guiVars, choiceVars, workerVars, serverVars, history, acts>>

Tool == {"update", "delete", "create"}
NoCall == [nth |-> 0, tool |-> "none"]
NoRun == [chat |-> "none", base |-> NoProject, auto |-> FALSE, chosen |-> "none"]
NotBusy == [nth |-> 0, project |-> NoProject]

-------------------------------------------------------------------------------
\* Any project and any chat will do, they are all alike.
Init ==
    /\ gui = "free" /\ after = "nothing" /\ open = CHOOSE p \in Project : TRUE
    /\ chat = CHOOSE c \in Chat : TRUE
    /\ preference = "prompt" /\ persistent = "prompt" /\ always = FALSE
    /\ events = <<>> /\ dialog = 0 /\ unseen = {}
    /\ jobs = <<>> /\ pc = "idle" /\ run = NoRun /\ stopped = FALSE /\ ready = FALSE
    /\ call = NoCall /\ answer = "none"
    /\ reply = {}
    /\ \/ /\ server = 1 /\ thread = <<"listening">> /\ base = open
          /\ inbox = <<{}>> /\ busy = <<NotBusy>>
       \/ /\ server = 0 /\ base = NoProject
          /\ thread = <<>> /\ inbox = <<>> /\ busy = <<>>
    /\ executed = <<>> /\ results = <<>> /\ yes = {}
    /\ runs = 0 /\ timeouts = 0 /\ acts = 0

-------------------------------------------------------------------------------
(* The server                                                                  *)

Listeners == {s \in DOMAIN thread : thread[s] \in {"listening", "closing"}}

\* start_server, called only when there is no server: a thread that is to listen.
Started(project) ==
    /\ server' = Len(thread) + 1
    /\ thread' = Append(thread, "starting")
    /\ base' = project
    /\ inbox' = Append(inbox, {}) /\ busy' = Append(busy, NotBusy)

\* Mutant: the socket is shared with the thread that is still closing.
Bind_Shared(s) ==
    /\ thread[s] = "starting"
    /\ thread' = [thread EXCEPT ![s] = "listening"]
    /\ UNCHANGED <<guiVars, choiceVars, workerVars, server, base, inbox, busy, reply,
                   history, acts>>

\* uvicorn binds the port; while another thread holds it the new one dies, and
\* _uvicorn_server stays set.
Bind(s) ==
    /\ thread[s] = "starting"
    /\ thread' = [thread EXCEPT ![s] = IF Listeners = {} THEN "listening" ELSE "dead"]
    /\ UNCHANGED <<guiVars, choiceVars, workerVars, server, base, inbox, busy, reply,
                   history, acts>>

\* call_tool takes the base path when it begins; requests that the client has
\* given up may be executed all the same, and so may one that a thread received
\* before it was told to stop.
Begin(s) ==
    /\ thread[s] \in {"listening", "closing"} /\ busy[s] = NotBusy
    /\ \E c \in inbox[s] :
         /\ inbox' = [inbox EXCEPT ![s] = @ \ {c}]
         /\ \/ busy' = [busy EXCEPT ![s] = [nth |-> c, project |-> base]]
            \/ busy' = busy /\ results[c] # "open"   \* the connection is gone
    /\ UNCHANGED <<guiVars, choiceVars, workerVars, server, thread, base, reply,
                   history, acts>>

\* The tool has run: it has written or it reports an error.
Complete(s) ==
    /\ busy[s] # NotBusy
    /\ \E ok \in BOOLEAN :
         /\ busy[s].project = NoProject => ~ok
         /\ executed' = IF ok THEN Append(executed, busy[s]) ELSE executed
         /\ unseen' = IF ok /\ busy[s].project = open THEN unseen \cup {busy[s].nth} ELSE unseen
         /\ reply' = IF results[busy[s].nth] = "open"
                     THEN reply \cup {[nth |-> busy[s].nth, ok |-> ok]} ELSE reply
    /\ busy' = [busy EXCEPT ![s] = NotBusy]
    /\ UNCHANGED <<gui, after, open, events, dialog, choiceVars, workerVars, server, thread,
                   base, inbox, results, yes, timeouts, acts>>

\* A thread that was told to stop closes its socket as soon as no tool runs.
Leave(s) ==
    /\ thread[s] = "closing" /\ busy[s] = NotBusy
    /\ thread' = [thread EXCEPT ![s] = "dead"]
    /\ inbox' = [inbox EXCEPT ![s] = {}]
    /\ UNCHANGED <<guiVars, choiceVars, workerVars, server, base, busy, reply,
                   history, acts>>

-------------------------------------------------------------------------------
(* The GUI thread: server and project                                          *)

GuiFree == gui = "free" /\ dialog = 0
Act == acts < MaxActs /\ acts' = acts + 1
Idle == pc = "idle" /\ jobs = <<>>

\* stop_server sets should_exit and joins the thread.
StopBegins(next) ==
    /\ gui' = "joining" /\ after' = next
    /\ thread' = [thread EXCEPT ![server] =
                    CASE @ = "listening" -> "closing" [] @ = "starting" -> "dead" [] OTHER -> @]
    /\ UNCHANGED <<server, base, inbox, busy>>

\* _cleanup_executor stops the run and empties the pool.
PanelDestroyed == jobs' = <<>> /\ stopped' = (pc # "idle")

\* The joins are bounded: a thread that executes a tool may outlive them and is
\* forgotten.  _sync_mcp_base_path then starts a server for the new project, and
\* _load_directory reads the project.
StopEnds ==
    /\ gui = "joining"
    /\ thread[server] = "dead" \/ busy[server] # NotBusy
    /\ IF after = "start" THEN Started(open)
       ELSE server' = 0 /\ base' = NoProject /\ UNCHANGED <<thread, inbox, busy>>
    /\ IF after = "close" THEN gui' = "closed" /\ PanelDestroyed
                          ELSE gui' = "free" /\ UNCHANGED <<jobs, stopped>>
    /\ unseen' = IF after = "start" THEN {} ELSE unseen
    /\ after' = "nothing"
    /\ UNCHANGED <<open, events, dialog, choiceVars, pc, run, ready, call, answer, runs,
                   reply, history, acts>>

\* _load_directory, _sync_mcp_base_path.
OpenDirectory ==
    /\ GuiFree /\ Act
    /\ SwitchDuringRun \/ Idle
    /\ open' \in Project \ {open}
    /\ IF server # 0 THEN StopBegins("start") /\ unseen' = unseen
       ELSE /\ IF AutoStart THEN Started(open') ELSE UNCHANGED <<server, thread, base, inbox, busy>>
            /\ unseen' = {} /\ UNCHANGED <<gui, after>>
    /\ UNCHANGED <<events, dialog, choiceVars, workerVars, reply, history>>

\* The settings dialog.
StopServer ==
    /\ GuiFree /\ Act /\ server # 0
    /\ StopBegins("nothing")
    /\ UNCHANGED <<open, events, dialog, unseen, choiceVars, workerVars, reply, history>>

StartServer ==
    /\ GuiFree /\ Act /\ server = 0
    /\ Started(open)
    /\ UNCHANGED <<guiVars, choiceVars, workerVars, reply, history>>

\* _on_close: the server is stopped, then the panel is destroyed; the main loop
\* ends and nobody handles events any more.
CloseWindow ==
    /\ GuiFree /\ Act
    /\ IF server # 0 THEN StopBegins("close") /\ UNCHANGED <<jobs, stopped>>
       ELSE /\ gui' = "closed" /\ PanelDestroyed
            /\ UNCHANGED <<after, server, thread, base, inbox, busy>>
    /\ UNCHANGED <<open, events, dialog, unseen, choiceVars, pc, run, ready, call, answer,
                   runs, reply, history>>

-------------------------------------------------------------------------------
(* The GUI thread: chats and the confirmation preference                       *)

Submit ==
    /\ GuiFree /\ runs < MaxRuns /\ jobs = <<>>
    /\ pc = "idle" \/ stopped
    /\ runs' = runs + 1
    /\ jobs' = <<[chat |-> chat, chosen |-> preference]>>
    /\ UNCHANGED <<guiVars, choiceVars, pc, run, stopped, ready, call, answer, serverVars,
                   history, acts>>

Stop ==
    /\ GuiFree /\ pc # "idle" /\ ~stopped
    /\ stopped' = TRUE
    /\ UNCHANGED <<guiVars, choiceVars, jobs, pc, run, ready, call, answer, runs, serverVars,
                   history, acts>>

\* _set_confirm_preference.
Choose ==
    /\ GuiFree /\ Act
    /\ preference' \in {"prompt", "chat_only", "never"} \ {preference}
    /\ persistent' = IF preference' = "chat_only" THEN persistent ELSE preference'
    /\ always' = IF preference' = "prompt" THEN FALSE ELSE always
    /\ UNCHANGED <<chat, guiVars, workerVars, serverVars, history>>

\* _on_active_conversation_changed.
SelectChat ==
    /\ GuiFree /\ Act
    /\ chat' \in Chat \ {chat}
    /\ preference' = IF preference = "chat_only" THEN persistent ELSE preference
    /\ always' = IF preference = "chat_only" /\ persistent = "prompt" THEN FALSE ELSE always
    /\ UNCHANGED <<persistent, guiVars, workerVars, serverVars, history>>

\* wx.CallAfter: the question is shown, or the window shows what a tool changed
\* if the client's base path is the open directory (_handle_mcp_tool_event).  A
\* modal dialog dispatches events too.
HandleEvent ==
    /\ gui = "free" /\ events # <<>>
    /\ LET e == Head(events)
       IN  /\ dialog' = IF e.kind = "ask" THEN e.nth ELSE dialog
           /\ unseen' = IF e.kind = "result" /\ e.base = open THEN unseen \ {e.nth} ELSE unseen
    /\ events' = Tail(events)
    /\ UNCHANGED <<gui, after, open, choiceVars, workerVars, serverVars, history, acts>>

\* Mutant: only a yes wakes the worker.
Answer_NoIsSilent ==
    /\ gui = "free" /\ dialog # 0
    /\ answer' \in IF call.tool = "delete" THEN {"no", "yes"} ELSE {"no", "yes", "always"}
    /\ dialog' = 0
    /\ always' = (always \/ answer' = "always")
    /\ yes' = IF answer' = "no" THEN yes ELSE yes \cup {dialog}
    /\ pc' = IF answer' = "no" THEN pc ELSE "answered"
    /\ UNCHANGED <<gui, after, open, events, unseen, chat, preference, persistent,
                   jobs, run, stopped, ready, call, runs, serverVars, executed, results,
                   timeouts, acts>>

\* The dialog is answered; done.set() lets the worker go on.
Answer ==
    /\ gui = "free" /\ dialog # 0
    /\ answer' \in IF call.tool = "delete" THEN {"no", "yes"} ELSE {"no", "yes", "always"}
    /\ dialog' = 0
    /\ always' = (always \/ answer' = "always")
    /\ yes' = IF answer' = "no" THEN yes ELSE yes \cup {dialog}
    /\ pc' = "answered"
    /\ UNCHANGED <<gui, after, open, events, unseen, chat, preference, persistent,
                   jobs, run, stopped, ready, call, runs, serverVars, executed, results,
                   timeouts, acts>>

-------------------------------------------------------------------------------
(* The worker: one run after the other                                         *)

Calls == Len(results)

\* worker(): the preference and the settings are read when the run starts.
StartRun ==
    /\ pc = "idle" /\ jobs # <<>>
    /\ run' = [chat |-> Head(jobs).chat, base |-> open, auto |-> preference # "prompt",
               chosen |-> Head(jobs).chosen]
    /\ jobs' = Tail(jobs)
    /\ pc' = "next" /\ stopped' = FALSE /\ ready' = FALSE
    /\ UNCHANGED <<guiVars, choiceVars, call, answer, runs, serverVars, history, acts>>

EndRun ==
    /\ pc = "next"
    /\ pc' = "idle" /\ run' = NoRun /\ stopped' = FALSE /\ call' = NoCall
    /\ UNCHANGED <<guiVars, choiceVars, jobs, ready, answer, runs, serverVars, history, acts>>

NextCall ==
    /\ pc = "next" /\ ~stopped /\ Calls < MaxCalls
    /\ \E t \in Tool : call' = [nth |-> Calls + 1, tool |-> t]
    /\ results' = Append(results, "open")
    /\ answer' = "none"
    /\ pc' = IF ready THEN "confirm" ELSE "probe"
    /\ UNCHANGED <<guiVars, choiceVars, jobs, run, stopped, ready, runs, serverVars, executed,
                   yes, timeouts, acts>>

\* The call ends with a result the run is told.
EndCall(result, verdict) ==
    /\ results' = [results EXCEPT ![call.nth] = result]
    /\ ready' = verdict
    /\ pc' = "next"
    /\ UNCHANGED <<jobs, run, stopped, call, answer, runs>>

\* ensure_ready asks the server only when its last verdict was not good.
Probe ==
    /\ pc = "probe"
    /\ \/ /\ Listeners # {} /\ \E s \in Listeners : busy[s] = NotBusy
          /\ pc' = "confirm" /\ ready' = TRUE
          /\ UNCHANGED <<jobs, run, stopped, call, answer, runs, results>>
       \/ /\ \A s \in Listeners : busy[s] # NotBusy
          /\ EndCall("not_ready", FALSE)
    /\ UNCHANGED <<guiVars, choiceVars, serverVars, executed, yes, timeouts, acts>>

\* Mutant: an answer given once stands for the rest of the run.
Confirm_Remembers ==
    /\ pc = "confirm"
    /\ IF \/ call.tool = "create" \/ run.auto
          \/ call.tool = "update" /\ always
          \/ yes # {}
       THEN pc' = "send" /\ events' = events
       ELSE /\ pc' = "asking"
            /\ events' = Append(events, [kind |-> "ask", nth |-> call.nth, base |-> run.base])
    /\ UNCHANGED <<gui, after, open, dialog, unseen, choiceVars, jobs, run, stopped, ready,
                   call, answer, runs, serverVars, history, acts>>

\* _confirm_sensitive_tool: deletions are always asked about, updates unless the
\* user has said "always"; not in a run that was started without questions.
Confirm ==
    /\ pc = "confirm"
    /\ IF \/ call.tool = "create" \/ run.auto
          \/ call.tool = "update" /\ always
       THEN pc' = "send" /\ events' = events
       ELSE /\ pc' = "asking"
            /\ events' = Append(events, [kind |-> "ask", nth |-> call.nth, base |-> run.base])
    /\ UNCHANGED <<gui, after, open, dialog, unseen, choiceVars, jobs, run, stopped, ready,
                   call, answer, runs, serverVars, history, acts>>

Answered ==
    /\ pc = "answered"
    /\ IF answer = "no" THEN EndCall("refused", ready)
       ELSE pc' = "send" /\ UNCHANGED <<jobs, run, stopped, ready, call, answer, runs, results>>
    /\ UNCHANGED <<guiVars, choiceVars, serverVars, executed, yes, timeouts, acts>>

\* Whoever listens on the port gets the request.
Send ==
    /\ pc = "send"
    /\ IF Listeners = {}
       THEN EndCall("failed", FALSE) /\ inbox' = inbox
       ELSE /\ \E s \in Listeners : inbox' = [inbox EXCEPT ![s] = @ \cup {call.nth}]
            /\ pc' = "wait"
            /\ UNCHANGED <<jobs, run, stopped, ready, call, answer, runs, results>>
    /\ UNCHANGED <<guiVars, choiceVars, server, thread, base, busy, reply, executed,
                   yes, timeouts, acts>>

\* Mutant: a deletion is not broadcast.
Receive_Silent ==
    /\ pc = "wait"
    /\ \E r \in reply :
         /\ r.nth = call.nth
         /\ reply' = reply \ {r}
         /\ \E verdict \in IF r.ok THEN {TRUE} ELSE BOOLEAN :
              EndCall(IF r.ok THEN "ok" ELSE "failed", verdict)
         /\ events' = IF r.ok /\ call.tool # "delete"
                      THEN Append(events, [kind |-> "result", nth |-> r.nth, base |-> run.base])
                      ELSE events
    /\ UNCHANGED <<gui, after, open, dialog, unseen, choiceVars, server, thread, base, inbox,
                   busy, executed, yes, timeouts, acts>>

\* A success is broadcast (_broadcast_tool_result) with the client's base path;
\* an error in a good response leaves the verdict good.
Receive ==
    /\ pc = "wait"
    /\ \E r \in reply :
         /\ r.nth = call.nth
         /\ reply' = reply \ {r}
         /\ \E verdict \in IF r.ok THEN {TRUE} ELSE BOOLEAN :
              EndCall(IF r.ok THEN "ok" ELSE "failed", verdict)
         /\ events' = IF r.ok
                      THEN Append(events, [kind |-> "result", nth |-> r.nth, base |-> run.base])
                      ELSE events
    /\ UNCHANGED <<gui, after, open, dialog, unseen, choiceVars, server, thread, base, inbox,
                   busy, executed, yes, timeouts, acts>>

\* The connection is closed, or no answer comes within _REQUEST_TIMEOUT; the
\* request is not sent again.
Received == {c \in 1..Calls : \E s \in DOMAIN inbox : c \in inbox[s] \/ busy[s].nth = c}
Replied == \E r \in reply : r.nth = call.nth
Disconnected ==
    /\ pc = "wait" /\ call.nth \notin Received /\ ~Replied
    /\ EndCall("failed", FALSE)
    /\ UNCHANGED <<guiVars, choiceVars, serverVars, executed, yes, timeouts, acts>>

\* Mutant: the request is sent again when no answer has come.
TimeOut_SendsAgain ==
    /\ pc = "wait" /\ call.nth \in Received /\ timeouts < MaxTimeouts
    /\ timeouts' = timeouts + 1
    /\ pc' = "send"
    /\ UNCHANGED <<jobs, run, stopped, ready, call, answer, runs, results>>
    /\ UNCHANGED <<guiVars, choiceVars, serverVars, executed, yes, acts>>

TimeOut ==
    /\ pc = "wait" /\ call.nth \in Received /\ timeouts < MaxTimeouts
    /\ timeouts' = timeouts + 1
    /\ EndCall("failed", FALSE)
    /\ UNCHANGED <<guiVars, choiceVars, serverVars, executed, yes, acts>>

-------------------------------------------------------------------------------
Worker == StartRun \/ EndRun \/ NextCall \/ Probe \/ Confirm \/ Answered \/ Send \/ Receive
          \/ Disconnected \/ TimeOut
Server == \E s \in DOMAIN thread : Bind(s) \/ Begin(s) \/ Complete(s) \/ Leave(s)
Dispatch == HandleEvent \/ Answer \/ StopEnds
User == OpenDirectory \/ StopServer \/ StartServer \/ CloseWindow \/ Submit \/ Stop
        \/ Choose \/ SelectChat

Next == Worker \/ Server \/ Dispatch \/ User

Spec == Init /\ [][Next]_vars

\* The threads run, the event loop turns, and a question on the screen is
\* answered sooner or later; nothing else is asked of the user.
FairSpec == Spec /\ WF_vars(Worker) /\ WF_vars(Dispatch)
                 /\ WF_vars(Server)

-------------------------------------------------------------------------------
(* Properties                                                                  *)

Results == {"open", "ok", "failed", "refused", "not_ready"}

\* Types; the user is asked only about the call at hand.
TypeOK ==
    /\ gui \in {"free", "joining", "closed"} /\ after \in {"nothing", "start", "close"}
    /\ open \in Project /\ base \in Project \cup {NoProject}
    /\ pc \in {"idle", "next", "probe", "confirm", "asking", "answered", "send", "wait"}
    /\ dialog # 0 => pc = "asking" /\ dialog = call.nth
    /\ server \in 0..Len(thread) /\ gui = "joining" => server # 0
    /\ \A c \in DOMAIN results : results[c] \in Results
    /\ Cardinality(Listeners) <= 1
    /\ \A s \in DOMAIN thread : thread[s] \in {"starting", "dead"} => busy[s] = NotBusy

\* What the agent is told of a call is true: success means it was executed, and
\* exactly once; a refused call, and one for which the server was not ready,
\* never; no call twice, whatever was lost, timed out or restarted in between.
Times(c) == Cardinality({k \in DOMAIN executed : executed[k].nth = c})
ResultsAreTrue ==
    \A c \in DOMAIN results :
        /\ Times(c) <= 1
        /\ results[c] = "ok" => Times(c) = 1
        /\ results[c] \in {"refused", "not_ready"} => Times(c) = 0

\* The window shows every change the agent has been told of as soon as the events
\* are handled (_broadcast_tool_result, _handle_mcp_tool_event).
SuccessesAreShown ==
    gui = "free" /\ events = <<>> => \A c \in unseen : results[c] # "ok"

\* Consent: a deletion, or an update before the first "always", is sent only after
\* the user's yes to this very call, unless the run began without questions.
Consented(c, tool) == c \in yes \/ run.auto \/ (tool = "update" /\ always)
SentWithConsent ==
    [][pc # "send" /\ pc' = "send" /\ call.tool # "create" => Consented(call.nth, call.tool)]_vars

\* Every call ends and so does every run, unless the window is closed.
RunsEnd == pc # "idle" ~> (pc = "idle" \/ gui = "closed")

\* "keeps its requirement base path in sync with the directory opened in the main
\* window" (ARCHITECTURE.md:652): a call is executed in the project its run was
\* started in.
CallsStayInProject ==
    [][\A s \in DOMAIN busy : s \in DOMAIN busy' /\ busy'[s].nth = call.nth /\ pc = "wait"
         /\ busy'[s] # busy[s] => busy'[s].project = run.base]_vars

\* "Return True if the MCP server is currently running" (server.py:241).
RunningServerRuns == server # 0 /\ gui = "free" => thread[server] # "dead"

\* "Skip for this chat" (layout.py:365): a run asks if its chat was to ask.
PreferenceOfTheChat == pc # "idle" /\ run.chosen = "prompt" => ~run.auto

\* A call the agent was told has failed has changed nothing.
FailedChangesNothing == \A c \in DOMAIN results : results[c] = "failed" => Times(c) = 0

\* The worker does not keep the closed program alive: concurrent.futures joins it.
ProgramEnds == gui = "closed" ~> pc = "idle"
===============================================================================
