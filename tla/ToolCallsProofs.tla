---------------------------- MODULE ToolCallsProofs ----------------------------
(* Consent, execution at most once, and a window that shows what was executed, *)
(* for every number of runs, calls, chats and projects, whatever the user does *)
(* with the server and the window.                                             *)
EXTENDS ToolCalls, SequenceTheorems, FiniteSetTheorems, TLAPS

-------------------------------------------------------------------------------
(* Types                                                                       *)

Place == Project \cup {NoProject}
Event == [kind : {"ask", "result"}, nth : Nat, base : Place]
Execution == [nth : Nat, project : Place]
State == {"starting", "listening", "closing", "dead"}

GuiTypes ==
    /\ gui \in {"free", "joining", "closed"} /\ after \in {"nothing", "start", "close"}
    /\ open \in Project
    /\ events \in Seq(Event)
    /\ dialog \in Nat
WorkerTypes ==
    /\ pc \in {"idle", "next", "probe", "confirm", "asking", "answered", "send", "wait"}
    /\ run.base \in Place
    /\ answer \in {"none", "no", "yes", "always"}
    /\ call.nth \in Nat
    /\ pc \notin {"idle", "next"} => call.nth = Len(results) /\ call.nth # 0
    /\ results \in Seq(Results)
    /\ executed \in Seq(Execution)
ServerTypes ==
    /\ base \in Place
    /\ thread \in Seq(State)
    /\ inbox \in Seq(SUBSET Nat) /\ Len(inbox) = Len(thread)
    /\ busy \in Seq(Execution) /\ Len(busy) = Len(thread)
    /\ server \in 0..Len(thread) /\ (gui = "joining" => server # 0)
    /\ reply \subseteq [nth : Nat, ok : BOOLEAN]
Types == GuiTypes /\ WorkerTypes /\ ServerTypes

\* A question, queued or on the screen, is the only one and is about the call at
\* which the worker waits.
IsAsk(k) == events[k].kind = "ask"
Asked ==
    /\ \A k \in DOMAIN events : IsAsk(k) =>
          pc = "asking" /\ events[k].nth = call.nth /\ dialog = 0
    /\ \A j, k \in DOMAIN events : IsAsk(j) /\ IsAsk(k) => j = k
    /\ dialog # 0 => pc = "asking" /\ dialog = call.nth

LEMMA NotBusyTyped == NotBusy \in Execution
BY DEF NotBusy, Execution, Place

LEMMA TypesInit == Init => Types
<1> SUFFICES ASSUME Init PROVE Types
  OBVIOUS
<1> USE ToolCallsAssumption
<1>1. open \in Project
  <2>1. \E p \in Project : TRUE
    BY DEF ToolCallsAssumption
  <2> QED BY <2>1 DEF Init
<1>2. GuiTypes
  BY <1>1 DEF Init, GuiTypes
<1>3. WorkerTypes
  BY DEF Init, WorkerTypes, NoRun, NoCall, Place
<1>4. ServerTypes
  <2>1. server = 0 \/ (server = 1 /\ base \in Place)
    BY <1>1 DEF Init, Place
  <2>2. base \in Place /\ reply \subseteq [nth : Nat, ok : BOOLEAN] /\ gui # "joining"
    BY <1>1 DEF Init, Place
  <2>3. CASE thread = <<>> /\ inbox = <<>> /\ busy = <<>> /\ server = 0
    BY <2>2, <2>3 DEF ServerTypes
  <2>4. CASE thread = <<"listening">> /\ inbox = <<{}>> /\ busy = <<NotBusy>> /\ server = 1
    <3>1. <<"listening">> \in Seq(State)
      BY DEF State
    <3>2. <<{}>> \in Seq(SUBSET Nat)
      OBVIOUS
    <3>3. <<NotBusy>> \in Seq(Execution)
      BY NotBusyTyped
    <3> QED BY <2>2, <2>4, <3>1, <3>2, <3>3 DEF ServerTypes
  <2>5. \/ thread = <<>> /\ inbox = <<>> /\ busy = <<>> /\ server = 0
        \/ thread = <<"listening">> /\ inbox = <<{}>> /\ busy = <<NotBusy>> /\ server = 1
    BY DEF Init
  <2> QED BY <2>3, <2>4, <2>5
<1> QED BY <1>2, <1>3, <1>4 DEF Types

\* The parts of a step, by the thread that takes it.
GuiActs == OpenDirectory \/ StopServer \/ StartServer \/ CloseWindow \/ StopEnds
ChatActs == Submit \/ Stop \/ Choose \/ SelectChat

LEMMA GuiTypesStep == Types /\ [Next]_vars => GuiTypes'
<1> SUFFICES ASSUME Types, [Next]_vars PROVE GuiTypes'
  OBVIOUS
<1> DEFINE same == UNCHANGED <<gui, after, open, events, dialog>>
<1>0. GuiTypes /\ WorkerTypes
  BY DEF Types
<1>1. CASE same
  BY <1>0, <1>1 DEF GuiTypes
<1>2. CASE UNCHANGED vars
  BY <1>1, <1>2 DEF vars, guiVars
<1>3. ASSUME NEW s \in DOMAIN thread, Bind(s) \/ Begin(s) \/ Complete(s) \/ Leave(s)
      PROVE  same
  BY <1>3 DEF Bind, Begin, Complete, Leave, guiVars
<1>4. CASE ChatActs
  BY <1>1, <1>4 DEF ChatActs, Submit, Stop, Choose, SelectChat, guiVars
<1>5. CASE GuiActs
  <2>1. events' = events /\ dialog' = dialog
    BY <1>5 DEF GuiActs, OpenDirectory, StopServer, StartServer, CloseWindow, StopEnds, guiVars
  <2>2. open' \in Project
    BY <1>0, <1>5 DEF GuiActs, OpenDirectory, StopServer, StartServer, CloseWindow, StopEnds, guiVars, GuiTypes
  <2>3. gui' \in {"free", "joining", "closed"} /\ after' \in {"nothing", "start", "close"}
    BY <1>0, <1>5 DEF GuiActs, OpenDirectory, StopServer, StartServer, CloseWindow, StopEnds, guiVars, GuiTypes, StopBegins
  <2> QED BY <1>0, <2>1, <2>2, <2>3 DEF GuiTypes
<1>6. CASE HandleEvent
  <2>1. Head(events) \in Event /\ Tail(events) \in Seq(Event)
    BY <1>0, <1>6 DEF HandleEvent, GuiTypes
  <2> QED BY <1>0, <1>6, <2>1 DEF HandleEvent, GuiTypes, Event
<1>7. CASE Answer
  BY <1>0, <1>7 DEF Answer, GuiTypes
<1>8. CASE StartRun \/ EndRun \/ NextCall \/ Probe \/ Answered \/ Send \/ Disconnected \/ TimeOut
  BY <1>1, <1>8 DEF StartRun, EndRun, NextCall, Probe, Answered, Send, Disconnected, TimeOut, guiVars
<1>9. ASSUME Confirm \/ Receive
      PROVE  GuiTypes'
  <2>1. gui' = gui /\ after' = after /\ open' = open /\ dialog' = dialog
    BY <1>9 DEF Confirm, Receive
  <2>2. events' = events \/ \E e \in Event : events' = Append(events, e)
    <3>1. CASE Confirm
      BY <1>0, <3>1 DEF Confirm, Event, WorkerTypes
    <3>2. CASE Receive
      <4>1. PICK r \in reply : r.nth = call.nth /\ (events' = events \/
                events' = Append(events, [kind |-> "result", nth |-> r.nth, base |-> run.base]))
        BY <3>2 DEF Receive
      <4>2. [kind |-> "result", nth |-> r.nth, base |-> run.base] \in Event
        BY <1>0, <4>1 DEF Event, WorkerTypes
      <4> QED BY <4>1, <4>2
    <3> QED BY <1>9, <3>1, <3>2
  <2>3. events' \in Seq(Event)
    BY <1>0, <2>2 DEF GuiTypes
  <2> QED BY <1>0, <2>1, <2>3 DEF GuiTypes
<1> QED BY <1>1, <1>2, <1>3, <1>4, <1>5, <1>6, <1>7, <1>8, <1>9
    DEF Next, Worker, Server, Dispatch, User, GuiActs, ChatActs

LEMMA WorkerTypesStep == Types /\ Asked /\ [Next]_vars => WorkerTypes'
<1> SUFFICES ASSUME Types, Asked, [Next]_vars PROVE WorkerTypes'
  OBVIOUS
<1> DEFINE same == UNCHANGED <<pc, run, answer, call, results, executed>>
<1>0. GuiTypes /\ WorkerTypes /\ ServerTypes
  BY DEF Types
<1>1. CASE same
  BY <1>0, <1>1 DEF WorkerTypes
<1>2. CASE UNCHANGED vars
  BY <1>1, <1>2 DEF vars, workerVars, history
<1>3. ASSUME NEW s \in DOMAIN thread, Bind(s) \/ Begin(s) \/ Leave(s)
      PROVE  same
  BY <1>3 DEF Bind, Begin, Leave, workerVars, history
<1>4. CASE ChatActs \/ GuiActs
  BY <1>1, <1>4 DEF ChatActs, Submit, Stop, Choose, SelectChat, GuiActs, OpenDirectory,
     StopServer, StartServer, CloseWindow, StopEnds, PanelDestroyed, workerVars, history
<1>5. CASE HandleEvent
  BY <1>1, <1>5 DEF HandleEvent, workerVars, history
<1>6. ASSUME NEW s \in DOMAIN thread, Complete(s)
      PROVE  WorkerTypes'
  <2>1. UNCHANGED <<pc, run, answer, call, results>>
    BY <1>6 DEF Complete, workerVars
  <2>2. busy[s] \in Execution
    BY <1>0, <1>6 DEF ServerTypes
  <2>3. executed' = executed \/ executed' = Append(executed, busy[s])
    BY <1>6 DEF Complete
  <2>4. executed' \in Seq(Execution)
    BY <1>0, <2>2, <2>3 DEF WorkerTypes
  <2> QED BY <1>0, <2>1, <2>4 DEF WorkerTypes
<1>7. CASE Answer
  <2>1. UNCHANGED <<run, call, results, executed>> /\ pc' = "answered"
        /\ answer' \in {"no", "yes", "always"} /\ pc = "asking"
    BY <1>7 DEF Answer, Asked
  <2> QED BY <1>0, <2>1 DEF WorkerTypes
<1>8. CASE StartRun \/ EndRun
  BY <1>0, <1>8 DEF StartRun, EndRun, WorkerTypes, GuiTypes, NoRun, NoCall, Place, history
<1>9. CASE NextCall
  <2>1. /\ results' = Append(results, "open") /\ call'.nth = Len(results) + 1
        /\ UNCHANGED <<run, executed>> /\ answer' = "none" /\ pc' \in {"confirm", "probe"}
    BY <1>9 DEF NextCall, Calls
  <2>2. results' \in Seq(Results) /\ Len(results') = Len(results) + 1 /\ Len(results) \in Nat
    BY <1>0, <2>1 DEF WorkerTypes, Results
  <2> QED BY <1>0, <2>1, <2>2 DEF WorkerTypes
\* the call moves on, or it ends
<1>10. CASE /\ UNCHANGED <<run, answer, call, results, executed>>
            /\ pc \notin {"idle", "next"}
            /\ pc' \in {"confirm", "asking", "send", "wait"}
  BY <1>0, <1>10 DEF WorkerTypes
<1>11. ASSUME pc \notin {"idle", "next"}, NEW r \in Results, NEW v, EndCall(r, v), executed' = executed
       PROVE  WorkerTypes'
  <2>1. call.nth \in 1..Len(results)
    BY <1>0, <1>11 DEF WorkerTypes
  <2>2. results' \in Seq(Results)
    BY <1>0, <1>11, <2>1, ExceptSeq DEF WorkerTypes, EndCall
  <2>3. pc' = "next" /\ UNCHANGED <<run, answer, call>>
    BY <1>11 DEF EndCall
  <2> QED BY <1>0, <1>11, <2>2, <2>3 DEF WorkerTypes
<1>12. CASE Probe
  <2>1. pc \notin {"idle", "next"} /\ executed' = executed /\ "not_ready" \in Results
    BY <1>12 DEF Probe, Results
  <2> QED BY <1>10, <1>11, <1>12, <2>1 DEF Probe
<1>13. CASE Confirm
  BY <1>10, <1>13 DEF Confirm, history
<1>14. CASE Answered
  <2>1. pc \notin {"idle", "next"} /\ executed' = executed /\ "refused" \in Results
    BY <1>14 DEF Answered, Results
  <2> QED BY <1>10, <1>11, <1>14, <2>1 DEF Answered
<1>15. CASE Send
  <2>1. pc \notin {"idle", "next"} /\ executed' = executed /\ "failed" \in Results
    BY <1>15 DEF Send, Results
  <2> QED BY <1>10, <1>11, <1>15, <2>1 DEF Send
<1>16. CASE Receive
  <2>1. pc \notin {"idle", "next"} /\ executed' = executed /\ {"ok", "failed"} \subseteq Results
    BY <1>16 DEF Receive, Results
  <2>2. \E r \in Results : \E v \in BOOLEAN : EndCall(r, v)
    BY <1>16, <2>1 DEF Receive
  <2> QED BY <1>11, <2>1, <2>2
<1>17. CASE Disconnected \/ TimeOut
  <2>1. pc \notin {"idle", "next"} /\ executed' = executed /\ "failed" \in Results
    BY <1>17 DEF Disconnected, TimeOut, Results
  <2>2. EndCall("failed", FALSE)
    BY <1>17 DEF Disconnected, TimeOut
  <2> QED BY <1>11, <2>1, <2>2
<1> QED BY <1>1, <1>2, <1>3, <1>4, <1>5, <1>6, <1>7, <1>8, <1>9, <1>12, <1>13, <1>14,
        <1>15, <1>16, <1>17
    DEF Next, Worker, Server, Dispatch, User, GuiActs, ChatActs

LEMMA ServerTypesStep == Types /\ Asked /\ [Next]_vars => ServerTypes'
<1> SUFFICES ASSUME Types, Asked, [Next]_vars PROVE ServerTypes'
  OBVIOUS
<1>0. GuiTypes /\ WorkerTypes /\ ServerTypes
  BY DEF Types
<1>1. CASE UNCHANGED <<serverVars, gui>>
  BY <1>0, <1>1 DEF ServerTypes, serverVars
<1>2. CASE UNCHANGED vars
  BY <1>1, <1>2 DEF vars, guiVars
<1>3. ASSUME NEW s \in DOMAIN thread, NEW x \in State, thread' = [thread EXCEPT ![s] = x]
      PROVE  thread' \in Seq(State) /\ Len(thread') = Len(thread)
  BY <1>0, <1>3, ExceptSeq DEF ServerTypes
<1>4. ASSUME NEW s \in DOMAIN thread, NEW x \in SUBSET Nat, inbox' = [inbox EXCEPT ![s] = x]
      PROVE  inbox' \in Seq(SUBSET Nat) /\ Len(inbox') = Len(inbox)
  BY <1>0, <1>4, ExceptSeq DEF ServerTypes
<1>5. ASSUME NEW s \in DOMAIN thread, NEW x \in Execution, busy' = [busy EXCEPT ![s] = x]
      PROVE  busy' \in Seq(Execution) /\ Len(busy') = Len(busy)
  BY <1>0, <1>5, ExceptSeq DEF ServerTypes
<1>6. ASSUME NEW s \in DOMAIN thread, Bind(s)
      PROVE  ServerTypes'
  <2>1. \E x \in State : thread' = [thread EXCEPT ![s] = x]
    BY <1>6 DEF Bind, State
  <2>2. UNCHANGED <<server, base, inbox, busy, reply, gui>>
    BY <1>6 DEF Bind, guiVars
  <2> QED BY <1>0, <1>3, <2>1, <2>2 DEF ServerTypes
<1>7. ASSUME NEW s \in DOMAIN thread, Begin(s)
      PROVE  ServerTypes'
  <2>1. PICK c \in inbox[s] :
           /\ inbox' = [inbox EXCEPT ![s] = @ \ {c}]
           /\ busy' = [busy EXCEPT ![s] = [nth |-> c, project |-> base]] \/ busy' = busy
    BY <1>7 DEF Begin
  <2>2. inbox[s] \in SUBSET Nat
    BY <1>0, <1>7 DEF ServerTypes
  <2>3. [nth |-> c, project |-> base] \in Execution
    BY <1>0, <2>2 DEF ServerTypes, Execution
  <2>4. inbox' \in Seq(SUBSET Nat) /\ Len(inbox') = Len(inbox)
    BY <1>4, <2>1, <2>2
  <2>5. busy' \in Seq(Execution) /\ Len(busy') = Len(busy)
    BY <1>0, <1>5, <2>1, <2>3 DEF ServerTypes
  <2>6. UNCHANGED <<server, base, thread, reply, gui>>
    BY <1>7 DEF Begin, guiVars
  <2> QED BY <1>0, <2>4, <2>5, <2>6 DEF ServerTypes
<1>8. ASSUME NEW s \in DOMAIN thread, Complete(s)
      PROVE  ServerTypes'
  <2>1. busy' \in Seq(Execution) /\ Len(busy') = Len(busy)
    BY <1>5, <1>8, NotBusyTyped DEF Complete
  <2>2. UNCHANGED <<server, base, thread, inbox, gui>>
    BY <1>8 DEF Complete
  <2>3. busy[s] \in Execution /\ busy[s].nth \in Nat
    <3>1. busy[s] \in Execution
      BY <1>0, <1>8 DEF ServerTypes
    <3> QED BY <3>1 DEF Execution
  <2>4. reply' \subseteq [nth : Nat, ok : BOOLEAN]
    BY <1>0, <1>8, <2>3 DEF ServerTypes, Complete
  <2> QED BY <1>0, <2>1, <2>2, <2>4 DEF ServerTypes
<1>9. ASSUME NEW s \in DOMAIN thread, Leave(s)
      PROVE  ServerTypes'
  <2>1. thread' \in Seq(State) /\ Len(thread') = Len(thread)
    BY <1>3, <1>9 DEF Leave, State
  <2>2. inbox' \in Seq(SUBSET Nat) /\ Len(inbox') = Len(inbox)
    BY <1>4, <1>9 DEF Leave
  <2>3. UNCHANGED <<server, base, busy, reply, gui>>
    BY <1>9 DEF Leave, guiVars
  <2> QED BY <1>0, <2>1, <2>2, <2>3 DEF ServerTypes
<1>10. ASSUME NEW p \in Project, Started(p), gui' # "joining", reply' = reply
       PROVE  ServerTypes'
  <2>1. thread' \in Seq(State) /\ Len(thread') = Len(thread) + 1 /\ Len(thread) \in Nat
    BY <1>0, <1>10 DEF Started, State, ServerTypes
  <2>2. inbox' \in Seq(SUBSET Nat) /\ Len(inbox') = Len(inbox) + 1
    BY <1>0, <1>10 DEF Started, ServerTypes
  <2>3. busy' \in Seq(Execution) /\ Len(busy') = Len(busy) + 1
    BY <1>0, <1>10, NotBusyTyped DEF Started, ServerTypes
  <2>4. server' = Len(thread) + 1 /\ base' \in Place
    BY <1>10 DEF Started, Place
  <2> QED BY <1>0, <1>10, <2>1, <2>2, <2>3, <2>4 DEF ServerTypes
<1>11. ASSUME NEW next, StopBegins(next), server # 0, reply' = reply
       PROVE  ServerTypes'
  <2>1. server \in DOMAIN thread /\ thread[server] \in State
    BY <1>0, <1>11 DEF ServerTypes
  <2>2. \E x \in State : thread' = [thread EXCEPT ![server] = x]
    BY <1>11, <2>1 DEF StopBegins, State
  <2>3. UNCHANGED <<server, base, inbox, busy>>
    BY <1>11 DEF StopBegins
  <2> QED BY <1>0, <1>3, <1>11, <2>1, <2>2, <2>3 DEF ServerTypes
<1>12. CASE StopEnds
  <2>1. reply' = reply /\ gui' # "joining" /\ open \in Project
    BY <1>0, <1>12 DEF StopEnds, GuiTypes
  <2>2. CASE after = "start"
    BY <1>10, <1>12, <2>1, <2>2 DEF StopEnds
  <2>3. CASE after # "start"
    BY <1>0, <1>12, <2>1, <2>3 DEF StopEnds, ServerTypes, Place
  <2> QED BY <2>2, <2>3
<1>13. CASE OpenDirectory
  <2>1. reply' = reply /\ open' \in Project /\ gui # "joining"
    BY <1>13 DEF OpenDirectory, GuiFree
  <2>2. CASE server # 0
    BY <1>11, <1>13, <2>1, <2>2 DEF OpenDirectory
  <2>3. CASE server = 0 /\ AutoStart
    <3>1. Started(open') /\ gui' = gui
      BY <1>13, <2>3 DEF OpenDirectory
    <3> QED BY <1>10, <2>1, <3>1
  <2>4. CASE server = 0 /\ ~AutoStart
    <3>1. UNCHANGED <<serverVars, gui>>
      BY <1>13, <2>1, <2>4 DEF OpenDirectory, serverVars
    <3> QED BY <1>1, <3>1
  <2> QED BY <2>2, <2>3, <2>4
<1>14. CASE StopServer
  BY <1>11, <1>14 DEF StopServer
<1>15. CASE StartServer
  <2>1. Started(open) /\ open \in Project /\ reply' = reply /\ gui' # "joining"
    BY <1>0, <1>15 DEF StartServer, GuiFree, guiVars, GuiTypes
  <2> QED BY <1>10, <2>1
<1>16. CASE CloseWindow
  <2>1. CASE server # 0
    BY <1>11, <1>16, <2>1 DEF CloseWindow
  <2>2. CASE server = 0
    <3>1. UNCHANGED serverVars /\ gui' = "closed"
      BY <1>16, <2>2 DEF CloseWindow, serverVars
    <3> QED BY <1>0, <3>1 DEF ServerTypes, serverVars
  <2> QED BY <2>1, <2>2
<1>17. CASE ChatActs \/ HandleEvent \/ Answer
  BY <1>1, <1>17 DEF ChatActs, Submit, Stop, Choose, SelectChat, HandleEvent, Answer, guiVars
<1>18. CASE StartRun \/ EndRun \/ NextCall \/ Probe \/ Confirm \/ Answered \/ Disconnected \/ TimeOut
  BY <1>1, <1>18 DEF StartRun, EndRun, NextCall, Probe, Confirm, Answered, Disconnected, TimeOut, guiVars
<1>19. CASE Send
  <2>1. UNCHANGED <<server, thread, base, busy, reply, gui>>
    BY <1>19 DEF Send, guiVars
  <2>2. CASE inbox' = inbox
    BY <1>1, <2>1, <2>2 DEF serverVars
  <2>3. CASE \E s \in Listeners : inbox' = [inbox EXCEPT ![s] = @ \cup {call.nth}]
    <3>1. PICK s \in Listeners : inbox' = [inbox EXCEPT ![s] = @ \cup {call.nth}]
      BY <2>3
    <3>2. s \in DOMAIN thread /\ inbox[s] \cup {call.nth} \in SUBSET Nat
      BY <1>0 DEF Listeners, ServerTypes, WorkerTypes
    <3>3. inbox' = [inbox EXCEPT ![s] = inbox[s] \cup {call.nth}]
      BY <3>1
    <3>4. inbox' \in Seq(SUBSET Nat) /\ Len(inbox') = Len(inbox)
      BY <1>4, <3>2, <3>3
    <3> QED BY <1>0, <2>1, <3>4 DEF ServerTypes
  <2> QED BY <1>19, <2>2, <2>3 DEF Send
<1>20. CASE Receive
  <2>1. UNCHANGED <<server, thread, base, inbox, busy, gui>> /\ reply' \subseteq reply
    BY <1>20 DEF Receive
  <2> QED BY <1>0, <2>1 DEF ServerTypes
<1> QED BY <1>2, <1>6, <1>7, <1>8, <1>9, <1>12, <1>13, <1>14, <1>15, <1>16, <1>17, <1>18, <1>19, <1>20
    DEF Next, Worker, Server, Dispatch, User, ChatActs

-------------------------------------------------------------------------------
(* Questions                                                                   *)

LEMMA AskedStep == Types /\ Asked /\ [Next]_vars => Asked'
<1> SUFFICES ASSUME Types, Asked, [Next]_vars PROVE Asked'
  OBVIOUS
<1>0. GuiTypes /\ WorkerTypes
  BY DEF Types
<1>1. ASSUME UNCHANGED <<events, dialog>>,
             pc = "asking" => pc' = "asking" /\ call' = call
      PROVE  Asked'
  BY <1>1 DEF Asked, IsAsk
<1>2. CASE UNCHANGED vars
  BY <1>1, <1>2 DEF vars, guiVars, workerVars
<1>3. ASSUME NEW s \in DOMAIN thread, Bind(s) \/ Begin(s) \/ Complete(s) \/ Leave(s)
      PROVE  Asked'
  BY <1>1, <1>3 DEF Bind, Begin, Complete, Leave, guiVars, workerVars
<1>4. CASE ChatActs \/ GuiActs
  BY <1>1, <1>4 DEF ChatActs, Submit, Stop, Choose, SelectChat, GuiActs, OpenDirectory,
     StopServer, StartServer, CloseWindow, StopEnds, guiVars, workerVars
<1>5. CASE StartRun \/ EndRun \/ NextCall \/ Probe \/ Answered \/ Send \/ Disconnected \/ TimeOut
  <2>1. UNCHANGED <<events, dialog>>
    BY <1>5 DEF StartRun, EndRun, NextCall, Probe, Answered, Send, Disconnected, TimeOut, guiVars
  <2>2. pc # "asking"
    BY <1>5 DEF StartRun, EndRun, NextCall, Probe, Answered, Send, Disconnected, TimeOut
  <2> QED BY <1>1, <2>1, <2>2
\* an event more while no question is open
<1>6. ASSUME NEW e \in Event, events' = Append(events, e), dialog' = dialog, pc # "asking",
             e.kind = "ask" => pc' = "asking" /\ e.nth = call'.nth
      PROVE  Asked'
  <2>1. dialog = 0 /\ \A k \in DOMAIN events : ~IsAsk(k)
    BY <1>6 DEF Asked
  <2>2. /\ DOMAIN events' = DOMAIN events \cup {Len(events) + 1}
        /\ Len(events) + 1 \notin DOMAIN events
        /\ \A k \in DOMAIN events : events'[k] = events[k]
        /\ events'[Len(events) + 1] = e
    BY <1>0, <1>6 DEF GuiTypes
  <2> QED BY <1>6, <2>1, <2>2 DEF Asked, IsAsk
<1>7. CASE Confirm
  <2>1. dialog' = dialog /\ call' = call /\ pc # "asking"
    BY <1>7 DEF Confirm
  <2>2. CASE events' = events
    BY <1>1, <2>1, <2>2
  <2>3. CASE /\ pc' = "asking"
             /\ events' = Append(events, [kind |-> "ask", nth |-> call.nth, base |-> run.base])
    <3>1. [kind |-> "ask", nth |-> call.nth, base |-> run.base] \in Event
      BY <1>0 DEF Event, WorkerTypes
    <3> QED BY <1>6, <2>1, <2>3, <3>1
  <2> QED BY <1>7, <2>2, <2>3 DEF Confirm
<1>8. CASE Receive
  <2>1. dialog' = dialog /\ pc # "asking"
    BY <1>8 DEF Receive
  <2>2. PICK r \in reply : r.nth = call.nth /\ (events' = events \/
            events' = Append(events, [kind |-> "result", nth |-> r.nth, base |-> run.base]))
    BY <1>8 DEF Receive
  <2>3. CASE events' = events
    BY <1>1, <2>1, <2>3
  <2>4. CASE events' = Append(events, [kind |-> "result", nth |-> r.nth, base |-> run.base])
    <3>1. [kind |-> "result", nth |-> r.nth, base |-> run.base] \in Event
      BY <1>0, <2>2 DEF Event, WorkerTypes
    <3> QED BY <1>6, <2>1, <2>4, <3>1
  <2> QED BY <2>2, <2>3, <2>4
<1>9. CASE HandleEvent
  <2>1. events' = Tail(events) /\ events # <<>> /\ UNCHANGED <<pc, call>>
        /\ dialog' = IF IsAsk(1) THEN events[1].nth ELSE dialog
    BY <1>0, <1>9 DEF HandleEvent, workerVars, GuiTypes, IsAsk
  <2>2. /\ Len(events) \in Nat \ {0} /\ DOMAIN events = 1..Len(events)
        /\ DOMAIN events' = 1..(Len(events) - 1)
        /\ \A k \in DOMAIN events' : events'[k] = events[k + 1] /\ k + 1 \in DOMAIN events
    BY <1>0, <2>1 DEF GuiTypes
  <2>3. CASE IsAsk(1)
    <3>1. dialog' = call.nth /\ pc = "asking"
      BY <2>1, <2>2, <2>3 DEF Asked
    <3>2. \A k \in DOMAIN events' : ~(events'[k].kind = "ask")
      <4>1. SUFFICES ASSUME NEW k \in DOMAIN events', events'[k].kind = "ask" PROVE FALSE
        OBVIOUS
      <4>2. k + 1 \in DOMAIN events /\ IsAsk(k + 1) /\ 1 \in DOMAIN events /\ k + 1 # 1
        BY <2>2, <4>1 DEF IsAsk
      <4> QED BY <2>3, <4>2 DEF Asked
    <3> QED BY <2>1, <3>1, <3>2 DEF Asked, IsAsk
  <2>4. CASE ~IsAsk(1)
    <3>1. dialog' = dialog
      BY <2>1, <2>4
    <3>2. \A k \in DOMAIN events' : events'[k].kind = "ask" =>
             k + 1 \in DOMAIN events /\ IsAsk(k + 1) /\ events'[k] = events[k + 1]
      BY <2>2 DEF IsAsk
    <3>3. \A j, k \in DOMAIN events' : events'[j].kind = "ask" /\ events'[k].kind = "ask" => j = k
      <4>1. SUFFICES ASSUME NEW j \in DOMAIN events', NEW k \in DOMAIN events',
                            events'[j].kind = "ask", events'[k].kind = "ask"
                     PROVE  j = k
        OBVIOUS
      <4>2. j + 1 = k + 1
        BY <3>2, <4>1 DEF Asked
      <4> QED BY <2>2, <4>2
    <3> QED BY <2>1, <3>1, <3>2, <3>3 DEF Asked, IsAsk
  <2> QED BY <2>3, <2>4
<1>10. CASE Answer
  <2>1. UNCHANGED events /\ dialog' = 0 /\ dialog # 0
    BY <1>10 DEF Answer
  <2> QED BY <2>1 DEF Asked, IsAsk
<1> QED BY <1>2, <1>3, <1>4, <1>5, <1>7, <1>8, <1>9, <1>10
    DEF Next, Worker, Server, Dispatch, User, GuiActs, ChatActs

\* A worker with an answer other than no has the user's yes to its call.
Given == pc = "answered" /\ answer # "no" => call.nth \in yes

LEMMA GivenStep == Asked /\ Given /\ [Next]_vars => Given'
<1> SUFFICES ASSUME Asked, Given, [Next]_vars PROVE Given'
  OBVIOUS
<1>1. CASE UNCHANGED <<pc, answer, call, yes>>
  BY <1>1 DEF Given
<1>2. CASE UNCHANGED vars
  BY <1>1, <1>2 DEF vars, workerVars, history
<1>3. ASSUME NEW s \in DOMAIN thread, Bind(s) \/ Begin(s) \/ Complete(s) \/ Leave(s)
      PROVE  Given'
  BY <1>1, <1>3 DEF Bind, Begin, Complete, Leave, workerVars, history
<1>4. CASE ChatActs \/ GuiActs \/ HandleEvent
  BY <1>1, <1>4 DEF ChatActs, Submit, Stop, Choose, SelectChat, GuiActs, OpenDirectory,
     StopServer, StartServer, CloseWindow, StopEnds, HandleEvent, workerVars, history
<1>5. CASE Answer
  BY <1>5 DEF Answer, Given, Asked
<1>6. CASE Worker
  <2>1. pc' # "answered"
    BY <1>6 DEF Worker, StartRun, EndRun, NextCall, Probe, Confirm, Answered, Send, Receive,
       Disconnected, TimeOut, EndCall
  <2> QED BY <2>1 DEF Given
<1> QED BY <1>2, <1>3, <1>4, <1>5, <1>6
    DEF Next, Server, Dispatch, User, GuiActs, ChatActs

Consent == Types /\ Asked /\ Given

LEMMA ConsentInit == Init => Consent
<1> SUFFICES ASSUME Init PROVE Consent
  OBVIOUS
<1>1. events = <<>> /\ dialog = 0 /\ pc = "idle"
  BY DEF Init
<1> QED BY <1>1, TypesInit DEF Consent, Asked, Given

LEMMA ConsentStep == Consent /\ [Next]_vars => Consent'
<1> SUFFICES ASSUME Consent, [Next]_vars PROVE Consent'
  OBVIOUS
<1>1. Types'
  BY GuiTypesStep, WorkerTypesStep, ServerTypesStep DEF Consent, Types
<1> QED BY <1>1, AskedStep, GivenStep DEF Consent

\* Nothing destructive without consent (_confirm_sensitive_tool, confirm.py): a
\* deletion or update goes to the server only after the user's yes to this very
\* call, unless the run began without questions or "always" was said.
THEOREM ConsentGiven == Spec => SentWithConsent
<1>1. Consent /\ [Next]_vars =>
        [pc # "send" /\ pc' = "send" /\ call.tool # "create" => Consented(call.nth, call.tool)]_vars
  <2> SUFFICES ASSUME Consent, Next, pc # "send", pc' = "send", call.tool # "create"
               PROVE  Consented(call.nth, call.tool)
    BY DEF vars
  <2>1. Confirm \/ Answered
    <3>1. ~(StartRun \/ EndRun \/ NextCall \/ Probe \/ Send \/ Receive \/ Disconnected \/ TimeOut)
      BY DEF StartRun, EndRun, NextCall, Probe, Send, Receive, Disconnected, TimeOut, EndCall
    <3>2. ~(ChatActs \/ GuiActs \/ HandleEvent \/ Answer)
      BY DEF ChatActs, Submit, Stop, Choose, SelectChat, GuiActs, OpenDirectory, StopServer,
         StartServer, CloseWindow, StopEnds, HandleEvent, Answer, workerVars
    <3>3. ~ \E s \in DOMAIN thread : Bind(s) \/ Begin(s) \/ Complete(s) \/ Leave(s)
      BY DEF Bind, Begin, Complete, Leave, workerVars
    <3> QED BY <3>1, <3>2, <3>3 DEF Next, Worker, Server, Dispatch, User, GuiActs, ChatActs
  <2>2. CASE Confirm
    BY <2>2 DEF Confirm, Consented
  <2>3. CASE Answered
    <3>1. pc = "answered" /\ answer # "no"
      BY <2>3 DEF Answered, EndCall
    <3> QED BY <3>1 DEF Consent, Given, Consented
  <2> QED BY <2>1, <2>2, <2>3
<1> QED BY <1>1, ConsentInit, ConsentStep, PTL DEF Spec, SentWithConsent

-------------------------------------------------------------------------------
(* The port                                                                    *)

Ports ==
    /\ \A s, t \in Listeners : s = t
    /\ \A s \in DOMAIN thread : thread[s] \in {"starting", "dead"} => busy[s] = NotBusy

LEMMA PortsInit == Init => Ports
<1> SUFFICES ASSUME Init PROVE Ports
  OBVIOUS
<1>1. \/ thread = <<>>
      \/ thread = <<"listening">> /\ busy = <<NotBusy>>
  BY DEF Init
<1>2. \A s \in DOMAIN thread : s = 1 /\ busy[s] = NotBusy
  BY <1>1
<1> QED BY <1>2 DEF Ports, Listeners

LEMMA PortsStep == Types /\ Ports /\ [Next]_vars => Ports'
<1> SUFFICES ASSUME Types, Ports, [Next]_vars PROVE Ports'
  OBVIOUS
<1>0. ServerTypes
  BY DEF Types
<1>d. DOMAIN thread = 1..Len(thread) /\ DOMAIN busy = DOMAIN thread /\ Len(thread) \in Nat
  BY <1>0 DEF ServerTypes
<1>1. CASE UNCHANGED <<thread, busy>>
  BY <1>1 DEF Ports, Listeners
<1>2. CASE UNCHANGED vars
  BY <1>1, <1>2 DEF vars, serverVars
<1>3. ASSUME NEW s \in DOMAIN thread, Bind(s)
      PROVE  Ports'
  <2>1. busy' = busy /\ thread[s] = "starting"
        /\ thread' = [thread EXCEPT ![s] = IF Listeners = {} THEN "listening" ELSE "dead"]
    BY <1>3 DEF Bind
  <2>2. CASE Listeners = {}
    BY <1>d, <2>1, <2>2 DEF Ports, Listeners
  <2>3. CASE Listeners # {}
    BY <1>d, <2>1, <2>3 DEF Ports, Listeners
  <2> QED BY <2>2, <2>3
<1>4. ASSUME NEW s \in DOMAIN thread, Begin(s)
      PROVE  Ports'
  <2>1. thread' = thread /\ thread[s] \in {"listening", "closing"}
        /\ \A t \in DOMAIN thread : t # s => busy'[t] = busy[t]
    BY <1>d, <1>4 DEF Begin
  <2> QED BY <1>d, <2>1 DEF Ports, Listeners
<1>5. ASSUME NEW s \in DOMAIN thread, Complete(s)
      PROVE  Ports'
  <2>1. thread' = thread /\ busy' = [busy EXCEPT ![s] = NotBusy]
    BY <1>5 DEF Complete
  <2> QED BY <1>d, <2>1 DEF Ports, Listeners
<1>6. ASSUME NEW s \in DOMAIN thread, Leave(s)
      PROVE  Ports'
  <2>1. thread' = [thread EXCEPT ![s] = "dead"] /\ busy' = busy /\ busy[s] = NotBusy
    BY <1>6 DEF Leave
  <2> QED BY <1>d, <2>1 DEF Ports, Listeners
<1>7. ASSUME NEW p \in Project, Started(p)
      PROVE  Ports'
  <2>1. /\ DOMAIN thread' = DOMAIN thread \cup {Len(thread) + 1}
        /\ \A t \in DOMAIN thread : thread'[t] = thread[t] /\ busy'[t] = busy[t]
        /\ thread'[Len(thread) + 1] = "starting" /\ busy'[Len(thread) + 1] = NotBusy
    BY <1>0, <1>7, NotBusyTyped DEF Started, ServerTypes
  <2> QED BY <2>1 DEF Ports, Listeners
<1>8. ASSUME NEW next, StopBegins(next), server # 0
      PROVE  Ports'
  <2>1. server \in DOMAIN thread
    BY <1>0, <1>8, <1>d DEF ServerTypes
  <2>2. busy' = busy /\ DOMAIN thread' = DOMAIN thread
        /\ \A t \in DOMAIN thread : t # server => thread'[t] = thread[t]
    BY <1>8, <2>1 DEF StopBegins
  <2>3. PICK x \in State : x = thread[server]
    BY <1>0, <2>1 DEF ServerTypes
  <2>4. PICK y : y = thread'[server]
    OBVIOUS
  <2>5. \/ x = "listening" /\ y = "closing"
        \/ x = "starting" /\ y = "dead"
        \/ x \in {"closing", "dead"} /\ y = x
    <3>1. y = CASE x = "listening" -> "closing" [] x = "starting" -> "dead" [] OTHER -> x
      BY <1>8, <2>1, <2>3, <2>4 DEF StopBegins
    <3> QED BY <3>1 DEF State
  <2>6. Listeners' \subseteq Listeners
    BY <2>1, <2>2, <2>3, <2>4, <2>5 DEF Listeners
  <2>7. \A s \in DOMAIN thread : thread'[s] \in {"starting", "dead"} => busy[s] = NotBusy
    BY <2>1, <2>2, <2>3, <2>4, <2>5 DEF Ports
  <2> QED BY <2>2, <2>6, <2>7 DEF Ports
<1>9. CASE GuiActs
  <2>1. \/ UNCHANGED <<thread, busy>>
        \/ \E p \in Project : Started(p)
        \/ server # 0 /\ \E next \in {"nothing", "start", "close"} : StopBegins(next)
    <3>1. open \in Project /\ open' \in Project
      BY GuiTypesStep DEF Types, GuiTypes
    <3> QED BY <1>9, <3>1 DEF GuiActs, OpenDirectory, StopServer, StartServer, CloseWindow, StopEnds
  <2> QED BY <1>1, <1>7, <1>8, <2>1
<1>10. CASE ChatActs \/ HandleEvent \/ Answer \/ Worker
  BY <1>1, <1>10 DEF ChatActs, Submit, Stop, Choose, SelectChat, HandleEvent, Answer, Worker,
     StartRun, EndRun, NextCall, Probe, Confirm, Answered, Send, Receive, Disconnected, TimeOut,
     serverVars
<1> QED BY <1>2, <1>3, <1>4, <1>5, <1>6, <1>9, <1>10
    DEF Next, Server, Dispatch, User, GuiActs, ChatActs

\* Well formed, whatever is started and stopped: at most one server holds the
\* port, also when a stop gave up on a thread, and only a thread that holds it
\* executes a tool; a question on the screen is about the call at hand.
THEOREM ToolsTypeCorrect == Spec => []TypeOK
<1>1. Init => Consent /\ Ports
  BY ConsentInit, PortsInit
<1>2. Consent /\ Ports /\ [Next]_vars => Consent' /\ Ports'
  BY ConsentStep, PortsStep DEF Consent
<1>3. Consent /\ Ports => TypeOK
  <2> SUFFICES ASSUME Consent, Ports PROVE TypeOK
    OBVIOUS
  <2>1. GuiTypes /\ WorkerTypes /\ ServerTypes
    BY DEF Consent, Types
  <2>2. Cardinality(Listeners) <= 1
    <3>1. Listeners = {} \/ \E s : Listeners = {s}
      BY DEF Ports
    <3>2. Listeners = {} => Cardinality(Listeners) = 0
      BY FS_EmptySet
    <3>3. (\E s : Listeners = {s}) => Cardinality(Listeners) = 1
      BY FS_Singleton
    <3>4. Cardinality(Listeners) \in {0, 1}
      BY <3>1, <3>2, <3>3
    <3> QED BY <3>4
  <2>3. dialog # 0 => pc = "asking" /\ dialog = call.nth
    BY DEF Consent, Asked
  <2>4. \A c \in DOMAIN results : results[c] \in Results
    BY <2>1 DEF WorkerTypes
  <2> QED BY <2>1, <2>2, <2>3, <2>4 DEF TypeOK, Ports, GuiTypes, WorkerTypes, ServerTypes, Place
<1> QED BY <1>1, <1>2, <1>3, PTL DEF Spec

-------------------------------------------------------------------------------
(* The results                                                                 *)
(*                                                                             *)
(* What the agent is told of its calls is true: none is executed twice, and a  *)
(* success or a refusal it was told of is what happened.                       *)
(*                                                                             *)
(* A call is in at most one place: among the requests a thread has received,   *)
(* at the thread that executes it, or among the executed ones.  It is nowhere  *)
(* before it is sent, it is sent once, and every step moves it on or drops it. *)

Places == {"inbox", "busy", "done"}
Held(c, p, i) ==
    /\ c # 0
    /\ \/ p = "inbox" /\ i \in DOMAIN thread /\ c \in inbox[i]
       \/ p = "busy" /\ i \in DOMAIN thread /\ busy[i].nth = c
       \/ p = "done" /\ i \in DOMAIN executed /\ executed[i].nth = c

Done(c) == \E k \in DOMAIN executed : executed[k].nth = c
Never == {"refused", "not_ready"}

Unique == \A c, i, j \in Nat : \A p, q \in Places :
             Held(c, p, i) /\ Held(c, q, j) => p = q /\ i = j
Known == \A c, i \in Nat : \A p \in Places :
            Held(c, p, i) => c \in DOMAIN results /\ results[c] \notin Never
Receipts == \A r \in reply : r.ok => Done(r.nth)
Truth == \A c \in DOMAIN results : results[c] = "ok" => Done(c)
Pending ==
    pc \notin {"idle", "next"} =>
        /\ results[call.nth] = "open"
        /\ pc # "wait" => \A i \in Nat : \A p \in Places : ~Held(call.nth, p, i)
Once == Unique /\ Known /\ Receipts /\ Truth /\ Pending

LEMMA OnceInit == Init => Once
<1> SUFFICES ASSUME Init PROVE Once
  OBVIOUS
<1>1. /\ executed = <<>> /\ results = <<>> /\ reply = {} /\ pc = "idle"
      /\ \A i \in DOMAIN thread : inbox[i] = {} /\ busy[i].nth = 0
  <2>1. \/ thread = <<>>
        \/ thread = <<"listening">> /\ inbox = <<{}>> /\ busy = <<NotBusy>>
    BY DEF Init
  <2>2. \A i \in DOMAIN thread : inbox[i] = {} /\ busy[i].nth = 0
    BY <2>1 DEF NotBusy
  <2> QED BY <2>2 DEF Init
<1>2. \A c, i \in Nat : \A p \in Places : ~Held(c, p, i)
  BY <1>1 DEF Held
<1> QED BY <1>1, <1>2 DEF Once, Unique, Known, Receipts, Truth, Pending

\* Only the server moves calls and only the worker tells their results.
LEMMA OnceStep == Types /\ Types' /\ Asked /\ Once /\ [Next]_vars => Once'
<1> SUFFICES ASSUME Types, Types', Asked, Once, [Next]_vars PROVE Once'
  OBVIOUS
<1>0. WorkerTypes /\ ServerTypes /\ WorkerTypes' /\ ServerTypes'
  BY DEF Types
<1>d. DOMAIN thread \subseteq Nat /\ DOMAIN thread' \subseteq Nat
      /\ DOMAIN executed = 1..Len(executed) /\ Len(executed) \in Nat
      /\ DOMAIN results = 1..Len(results) /\ Len(results) \in Nat
  BY <1>0 DEF ServerTypes, WorkerTypes
\* nothing moves, or a request is dropped
<1>1. ASSUME \A c, i \in Nat : \A p \in Places : Held(c, p, i)' => Held(c, p, i),
             UNCHANGED <<executed, results>>, reply' \subseteq reply,
             pc' \notin {"idle", "next"} =>
                pc \notin {"idle", "next"} /\ call' = call /\ (pc = "wait" => pc' = "wait")
      PROVE  Once'
  <2>1. Unique'
    BY <1>1 DEF Once, Unique
  <2>2. Known'
    BY <1>1 DEF Once, Known
  <2>3. Receipts' /\ Truth'
    BY <1>1 DEF Once, Receipts, Truth, Done
  <2>4. Pending'
    <3>1. CASE pc' \in {"idle", "next"}
      BY <3>1 DEF Pending
    <3>2. CASE pc' \notin {"idle", "next"}
      <4>1. results'[call'.nth] = "open"
        BY <1>1, <3>2 DEF Once, Pending
      <4>2. ASSUME pc' # "wait", NEW i \in Nat, NEW p \in Places
            PROVE  ~Held(call.nth, p, i)'
        <5>1. ~Held(call.nth, p, i) /\ call.nth \in Nat
          BY <1>0, <1>1, <3>2, <4>2 DEF Once, Pending, WorkerTypes
        <5>2. call'.nth = call.nth
          BY <1>1, <3>2
        <5> QED BY <1>1, <5>1, <5>2 DEF Held
      <4> QED BY <4>1, <4>2 DEF Pending
    <3> QED BY <3>1, <3>2
  <2> QED BY <2>1, <2>2, <2>3, <2>4 DEF Once
\* the call at hand ends
<1>2. ASSUME pc \notin {"idle", "next"}, NEW r \in Results, NEW v, EndCall(r, v),
             \A c, i \in Nat : \A p \in Places : Held(c, p, i)' => Held(c, p, i),
             executed' = executed, reply' \subseteq reply,
             r = "ok" => Done(call.nth),
             r \in Never => pc # "wait"
      PROVE  Once'
  <2>1. /\ DOMAIN results' = DOMAIN results
        /\ \A c \in DOMAIN results : results'[c] = IF c = call.nth THEN r ELSE results[c]
    BY <1>0, <1>2 DEF EndCall, WorkerTypes
  <2>2. Unique'
    BY <1>2 DEF Once, Unique
  <2>3. Known'
    <3> SUFFICES ASSUME NEW c \in Nat, NEW i \in Nat, NEW p \in Places, Held(c, p, i)'
                 PROVE  c \in DOMAIN results' /\ results'[c] \notin Never
      BY DEF Known
    <3>1. Held(c, p, i) /\ c \in DOMAIN results /\ results[c] \notin Never
      BY <1>2 DEF Once, Known
    <3>2. CASE c # call.nth
      BY <2>1, <3>1, <3>2
    <3>3. CASE c = call.nth
      <4>1. r \notin Never
        BY <1>2, <3>1, <3>3 DEF Once, Pending
      <4> QED BY <2>1, <3>1, <3>3, <4>1
    <3> QED BY <3>2, <3>3
  <2>4. Receipts' /\ Truth'
    BY <1>2, <2>1 DEF Once, Receipts, Truth, Done
  <2>5. Pending'
    BY <1>2 DEF Pending, EndCall
  <2> QED BY <2>2, <2>3, <2>4, <2>5 DEF Once
\* a call moves to another place
<1>3. ASSUME NEW d \in Nat, NEW q \in Places, NEW j \in Nat,
             \A c, i \in Nat : \A p \in Places :
                Held(c, p, i)' => (c # d /\ Held(c, p, i)) \/ (c = d /\ p = q /\ i = j),
             results' = results, d # 0 => d \in DOMAIN results /\ results[d] \notin Never
      PROVE  Unique' /\ Known'
  <2>1. Unique'
    BY <1>3 DEF Once, Unique
  <2>2. Known'
    <3>1. \A i \in Nat : \A p \in Places : Held(d, p, i)' => d # 0
      BY DEF Held
    <3> QED BY <1>3, <3>1 DEF Once, Known
  <2> QED BY <2>1, <2>2
<1>4. ASSUME UNCHANGED <<inbox, busy, executed>>, DOMAIN thread' = DOMAIN thread
      PROVE  \A c, i \in Nat : \A p \in Places : Held(c, p, i)' <=> Held(c, p, i)
  BY <1>4 DEF Held
<1>5. CASE UNCHANGED vars
  <2>1. UNCHANGED <<inbox, busy, executed, thread, results, reply, pc, call>>
    BY <1>5 DEF vars, serverVars, workerVars, history
  <2> QED BY <1>1, <1>4, <2>1
<1>6. ASSUME NEW s \in DOMAIN thread, Bind(s)
      PROVE  Once'
  <2>1. UNCHANGED <<inbox, busy, executed, results, reply, pc, call>> /\ DOMAIN thread' = DOMAIN thread
    BY <1>0, <1>6 DEF Bind, workerVars, history, ServerTypes
  <2> QED BY <1>1, <1>4, <2>1
<1>7. ASSUME NEW s \in DOMAIN thread, Leave(s)
      PROVE  Once'
  <2>1. UNCHANGED <<busy, executed, results, reply, pc, call>> /\ DOMAIN thread' = DOMAIN thread
        /\ inbox' = [inbox EXCEPT ![s] = {}] /\ DOMAIN inbox = DOMAIN thread
    BY <1>0, <1>7 DEF Leave, workerVars, history, ServerTypes
  <2>2. \A c, i \in Nat : \A p \in Places : Held(c, p, i)' => Held(c, p, i)
    BY <2>1 DEF Held
  <2> QED BY <1>1, <2>1, <2>2
<1>8. ASSUME NEW s \in DOMAIN thread, Begin(s)
      PROVE  Once'
  <2>1. PICK d \in inbox[s] :
           /\ inbox' = [inbox EXCEPT ![s] = @ \ {d}]
           /\ busy' = [busy EXCEPT ![s] = [nth |-> d, project |-> base]] \/ busy' = busy
    BY <1>8 DEF Begin
  <2>2. UNCHANGED <<thread, executed, results, reply, pc, call>> /\ busy[s] = NotBusy
        /\ DOMAIN inbox = DOMAIN thread /\ DOMAIN busy = DOMAIN thread /\ d \in Nat /\ s \in Nat
    BY <1>0, <1>8, <2>1, <1>d DEF Begin, workerVars, history, ServerTypes
  <2>3. CASE d = 0
    <3>1. \A c, i \in Nat : \A p \in Places : Held(c, p, i)' => Held(c, p, i)
      BY <2>1, <2>2, <2>3 DEF Held
    <3> QED BY <1>1, <2>2, <3>1
  <2>4. CASE d # 0
    <3>1. Held(d, "inbox", s) /\ "inbox" \in Places /\ "busy" \in Places
      BY <2>1, <2>4 DEF Held, Places
    <3>2. d \in DOMAIN results /\ results[d] \notin Never
      BY <2>2, <3>1 DEF Once, Known
    <3>3. \A i \in Nat : \A p \in Places : Held(d, p, i) => p = "inbox" /\ i = s
      BY <2>2, <3>1 DEF Once, Unique
    <3>4. \A c, i \in Nat : \A p \in Places :
             Held(c, p, i)' => (c # d /\ Held(c, p, i)) \/ (c = d /\ p = "busy" /\ i = s)
      <4> SUFFICES ASSUME NEW c \in Nat, NEW i \in Nat, NEW p \in Places, Held(c, p, i)'
                   PROVE  (c # d /\ Held(c, p, i)) \/ (c = d /\ p = "busy" /\ i = s)
        OBVIOUS
      <4>1. CASE c # d
        BY <2>1, <2>2, <4>1 DEF Held
      <4>2. CASE c = d /\ i # s
        <5>1. Held(d, p, i)
          BY <2>1, <2>2, <4>2 DEF Held
        <5> QED BY <3>3, <4>2, <5>1
      <4>3. CASE c = d /\ i = s
        <5>1. p # "inbox"
          BY <2>1, <2>2, <4>3 DEF Held
        <5>2. p # "done"
          <6>1. p = "done" => Held(d, p, s)
            BY <2>2, <4>3 DEF Held
          <6> QED BY <2>2, <3>3, <6>1
        <5> QED BY <4>3, <5>1, <5>2 DEF Places
      <4> QED BY <4>1, <4>2, <4>3
    <3>5. Unique' /\ Known'
      BY <1>3, <2>2, <3>1, <3>2, <3>4
    <3>6. Receipts' /\ Truth'
      BY <2>2 DEF Once, Receipts, Truth, Done
    <3>7. Pending'
      <4>1. SUFFICES ASSUME pc \notin {"idle", "next"}
                     PROVE  Pending'
        BY <2>2 DEF Pending
      <4>2. CASE pc = "wait"
        BY <2>2, <4>1, <4>2 DEF Once, Pending
      <4>3. CASE pc # "wait"
        <5>1. d # call.nth /\ call.nth \in Nat
          BY <1>0, <2>2, <3>1, <4>1, <4>3 DEF Once, Pending, WorkerTypes
        <5>2. \A i \in Nat : \A p \in Places : ~Held(call.nth, p, i)
          BY <4>1, <4>3 DEF Once, Pending
        <5>3. \A i \in Nat : \A p \in Places : ~Held(call.nth, p, i)'
          <6> SUFFICES ASSUME NEW i \in Nat, NEW p \in Places, Held(call.nth, p, i)' PROVE FALSE
            OBVIOUS
          <6>1. Held(call.nth, p, i)
            BY <2>1, <2>2, <5>1 DEF Held
          <6> QED BY <5>2, <6>1
        <5> QED BY <2>2, <4>1, <5>3 DEF Once, Pending
      <4> QED BY <4>2, <4>3
    <3> QED BY <3>5, <3>6, <3>7 DEF Once
  <2> QED BY <2>3, <2>4
<1>9. ASSUME NEW s \in DOMAIN thread, Complete(s)
      PROVE  Once'
  <2> DEFINE d == busy[s].nth
  <2>1. UNCHANGED <<thread, inbox, results, pc, call>> /\ busy' = [busy EXCEPT ![s] = NotBusy]
        /\ DOMAIN busy = DOMAIN thread /\ s \in Nat /\ d \in Nat
    <3>1. busy[s] \in Execution
      BY <1>0, <1>9 DEF ServerTypes
    <3> QED BY <1>0, <1>9, <1>d, <3>1 DEF Complete, workerVars, ServerTypes, Execution
  <2>2. PICK ok \in BOOLEAN :
           /\ executed' = IF ok THEN Append(executed, busy[s]) ELSE executed
           /\ reply' = IF results[d] = "open" THEN reply \cup {[nth |-> d, ok |-> ok]} ELSE reply
    BY <1>9 DEF Complete
  <2>3. CASE ~ok
    <3>1. \A c, i \in Nat : \A p \in Places : Held(c, p, i)' => Held(c, p, i)
      BY <2>1, <2>2, <2>3 DEF Held, NotBusy
    <3>2. Unique' /\ Known'
      BY <2>1, <3>1 DEF Once, Unique, Known
    <3>3. Receipts' /\ Truth'
      BY <2>1, <2>2, <2>3 DEF Once, Receipts, Truth, Done
    <3>4. Pending'
      <4>1. \A i \in Nat : \A p \in Places : Held(call.nth, p, i)' => Held(call.nth, p, i)
        BY <2>1, <2>2, <2>3 DEF Held, NotBusy
      <4> QED BY <2>1, <4>1 DEF Once, Pending
    <3> QED BY <3>2, <3>3, <3>4 DEF Once
  <2>4. CASE ok
    <3> DEFINE n == Len(executed) + 1
    <3>1. /\ DOMAIN executed' = DOMAIN executed \cup {n} /\ n \notin DOMAIN executed /\ n \in Nat
          /\ \A k \in DOMAIN executed : executed'[k] = executed[k]
          /\ executed'[n] = busy[s]
      <4>1. executed' = Append(executed, busy[s]) /\ executed \in Seq(Execution)
        BY <1>0, <2>2, <2>4 DEF WorkerTypes
      <4> QED BY <4>1
    <3>2. \A c : Done(c) => Done(c)'
      BY <3>1 DEF Done
    <3>4. Receipts' /\ Truth'
      <4>1. Truth'
        BY <2>1, <3>2 DEF Once, Truth
      <4>2. Receipts'
        <5> SUFFICES ASSUME NEW r \in reply', r.ok PROVE Done(r.nth)'
          BY DEF Receipts
        <5>1. CASE r \in reply
          <6>1. Done(r.nth)
            BY <5>1 DEF Once, Receipts
          <6> QED BY <3>1, <6>1 DEF Done
        <5>2. CASE r = [nth |-> d, ok |-> ok]
          <6>1. r.nth = busy[s].nth
            BY <5>2
          <6> QED BY <3>1, <6>1 DEF Done
        <5> QED BY <2>2, <5>1, <5>2
      <4> QED BY <4>1, <4>2
    <3>5. d # 0 => Held(d, "busy", s) /\ "busy" \in Places /\ "done" \in Places
      BY DEF Held, Places
    <3>6. d # 0 => d \in DOMAIN results /\ results[d] \notin Never
      BY <2>1, <3>5 DEF Once, Known
    <3>7. \A i \in Nat : \A p \in Places : Held(d, p, i) => p = "busy" /\ i = s
      <4>1. d = 0 => \A i \in Nat : \A p \in Places : ~Held(d, p, i)
        BY DEF Held
      <4> HIDE DEF d
      <4> QED BY <2>1, <3>5, <4>1 DEF Once, Unique
    <3>8. \A c, i \in Nat : \A p \in Places :
             Held(c, p, i)' => (c # d /\ Held(c, p, i)) \/ (c = d /\ p = "done" /\ i = n)
      <4> SUFFICES ASSUME NEW c \in Nat, NEW i \in Nat, NEW p \in Places, Held(c, p, i)'
                   PROVE  (c # d /\ Held(c, p, i)) \/ (c = d /\ p = "done" /\ i = n)
        OBVIOUS
      <4>1. CASE p = "done" /\ i = n
        <5>1. c = d
          BY <3>1, <4>1 DEF Held
        <5> QED BY <4>1, <5>1
      <4>2. CASE ~(p = "done" /\ i = n)
        <5>1. Held(c, p, i)
          BY <2>1, <3>1, <4>2 DEF Held, NotBusy
        <5>2. ~(p = "busy" /\ i = s)
          BY <2>1 DEF Held, NotBusy
        <5> HIDE DEF d
        <5> QED BY <3>7, <5>1, <5>2
      <4> QED BY <4>1, <4>2
    <3>9. Unique' /\ Known'
      <4>1. "done" \in Places
        BY DEF Places
      <4> HIDE DEF d, n
      <4> QED BY <1>3, <2>1, <3>1, <3>6, <3>8, <4>1
    <3>10. Pending'
      <4>1. SUFFICES ASSUME pc \notin {"idle", "next"}
                     PROVE  Pending'
        BY <2>1 DEF Pending
      <4>2. CASE pc = "wait"
        BY <2>1, <4>1, <4>2 DEF Once, Pending
      <4>3. CASE pc # "wait"
        <5>1. \A i \in Nat : \A p \in Places : ~Held(call.nth, p, i)
          BY <4>1, <4>3 DEF Once, Pending
        <5>2. d # call.nth /\ call.nth \in Nat
          BY <1>0, <2>1, <3>5, <4>1, <5>1 DEF WorkerTypes
        <5>3. \A i \in Nat : \A p \in Places : ~Held(call.nth, p, i)'
          <6> SUFFICES ASSUME NEW i \in Nat, NEW p \in Places, Held(call.nth, p, i)' PROVE FALSE
            OBVIOUS
          <6>1. Held(call.nth, p, i)
            BY <2>1, <3>1, <5>2 DEF Held, NotBusy
          <6> QED BY <5>1, <6>1
        <5> QED BY <2>1, <4>1, <5>3 DEF Once, Pending
      <4> QED BY <4>2, <4>3
    <3> QED BY <3>4, <3>9, <3>10 DEF Once
  <2> QED BY <2>2, <2>3, <2>4
<1>10. CASE GuiActs
  <2>1. UNCHANGED <<executed, results, reply, pc, call>>
    BY <1>10 DEF GuiActs, OpenDirectory, StopServer, StartServer, CloseWindow, StopEnds, workerVars, history
  <2>2. CASE UNCHANGED <<inbox, busy>> /\ DOMAIN thread' = DOMAIN thread
    BY <1>1, <1>4, <2>1, <2>2
  <2>3. CASE \E p \in Project : Started(p)
    <3>1. /\ DOMAIN thread = 1..Len(thread) /\ Len(thread) \in Nat
          /\ DOMAIN thread' = DOMAIN thread \cup {Len(thread) + 1}
          /\ \A i \in DOMAIN thread : inbox'[i] = inbox[i] /\ busy'[i] = busy[i]
          /\ inbox'[Len(thread) + 1] = {} /\ busy'[Len(thread) + 1] = NotBusy
      BY <1>0, <2>3, NotBusyTyped DEF Started, ServerTypes
    <3>2. \A c, i \in Nat : \A p \in Places : Held(c, p, i)' => Held(c, p, i)
      BY <2>1, <3>1 DEF Held, NotBusy
    <3> QED BY <1>1, <2>1, <3>2
  <2>4. \/ UNCHANGED <<inbox, busy>> /\ DOMAIN thread' = DOMAIN thread
        \/ \E p \in Project : Started(p)
    <3>1. \A next : StopBegins(next) => UNCHANGED <<inbox, busy>> /\ DOMAIN thread' = DOMAIN thread
      BY <1>0 DEF StopBegins, ServerTypes
    <3>2. open \in Project /\ open' \in Project
      BY DEF Types, GuiTypes
    <3> QED BY <1>10, <3>1, <3>2 DEF GuiActs, OpenDirectory, StopServer, StartServer, CloseWindow, StopEnds
  <2> QED BY <2>2, <2>3, <2>4
<1>11. CASE ChatActs \/ HandleEvent
  <2>1. UNCHANGED <<inbox, busy, executed, thread, results, reply, pc, call>>
    BY <1>11 DEF ChatActs, Submit, Stop, Choose, SelectChat, HandleEvent, serverVars, workerVars, history
  <2> QED BY <1>1, <1>4, <2>1
<1>12. CASE Answer
  <2>1. UNCHANGED <<inbox, busy, executed, thread, results, reply, call>> /\ pc' = "answered"
    BY <1>12 DEF Answer, serverVars
  <2>2. CASE pc \notin {"idle", "next", "wait"}
    BY <1>1, <1>4, <2>1, <2>2
  <2>3. pc = "asking"
    BY <1>12 DEF Answer, Asked
  <2> QED BY <2>2, <2>3
<1>13. CASE StartRun \/ EndRun
  <2>1. UNCHANGED <<inbox, busy, executed, thread, results, reply>> /\ pc' \in {"idle", "next"}
    BY <1>13 DEF StartRun, EndRun, serverVars, history
  <2> QED BY <1>1, <1>4, <2>1
<1>14. CASE NextCall
  <2>1. /\ UNCHANGED <<inbox, busy, executed, thread, reply>>
        /\ results' = Append(results, "open") /\ call'.nth = Len(results) + 1
    BY <1>14 DEF NextCall, Calls, serverVars
  <2>2. /\ DOMAIN results' = DOMAIN results \cup {Len(results) + 1}
        /\ Len(results) + 1 \notin DOMAIN results
        /\ \A c \in DOMAIN results : results'[c] = results[c]
        /\ results'[Len(results) + 1] = "open"
    BY <1>0, <2>1 DEF WorkerTypes
  <2>3. \A c, i \in Nat : \A p \in Places : Held(c, p, i)' <=> Held(c, p, i)
    BY <1>4, <2>1
  <2>4. Unique' /\ Known' /\ Receipts' /\ Truth'
    <3>1. Unique'
      BY <2>3 DEF Once, Unique
    <3>2. Known'
      BY <2>2, <2>3 DEF Once, Known
    <3> QED BY <2>1, <2>2, <3>1, <3>2 DEF Once, Receipts, Truth, Done
  <2>5. Pending'
    <3>1. results'[call'.nth] = "open"
      BY <2>1, <2>2
    <3>2. ASSUME NEW i \in Nat, NEW p \in Places
          PROVE  ~Held(call.nth, p, i)'
      <4>1. Len(results) + 1 \in Nat /\ ~Held(Len(results) + 1, p, i)
        BY <1>d, <2>2 DEF Once, Known
      <4> QED BY <2>1, <4>1 DEF Held
    <3> QED BY <3>1, <3>2 DEF Pending
  <2> QED BY <2>4, <2>5 DEF Once
<1>15. CASE Confirm
  <2>1. UNCHANGED <<inbox, busy, executed, thread, results, reply, call>>
        /\ pc = "confirm" /\ pc' \in {"send", "asking"}
    BY <1>15 DEF Confirm, serverVars, history
  <2> QED BY <1>1, <1>4, <2>1
<1>16. CASE Probe
  <2>1. UNCHANGED <<inbox, busy, executed, thread, reply>> /\ pc = "probe" /\ "not_ready" \in Results
    BY <1>16 DEF Probe, serverVars, Results
  <2>2. \A c, i \in Nat : \A p \in Places : Held(c, p, i)' => Held(c, p, i)
    BY <1>4, <2>1
  <2>3. CASE EndCall("not_ready", FALSE)
    BY <1>2, <2>1, <2>2, <2>3
  <2>4. CASE pc' = "confirm" /\ UNCHANGED <<call, results>>
    BY <1>1, <2>1, <2>2, <2>4
  <2> QED BY <1>16, <2>3, <2>4 DEF Probe
<1>17. CASE Answered
  <2>1. UNCHANGED <<inbox, busy, executed, thread, reply>> /\ pc = "answered" /\ "refused" \in Results
    BY <1>17 DEF Answered, serverVars, Results
  <2>2. \A c, i \in Nat : \A p \in Places : Held(c, p, i)' => Held(c, p, i)
    BY <1>4, <2>1
  <2>3. CASE EndCall("refused", ready)
    BY <1>2, <2>1, <2>2, <2>3
  <2>4. CASE pc' = "send" /\ UNCHANGED <<call, results>>
    BY <1>1, <2>1, <2>2, <2>4
  <2> QED BY <1>17, <2>3, <2>4 DEF Answered
<1>18. CASE Disconnected \/ TimeOut
  <2>1. UNCHANGED <<inbox, busy, executed, thread, reply>> /\ pc = "wait" /\ "failed" \in Results
        /\ EndCall("failed", FALSE)
    BY <1>18 DEF Disconnected, TimeOut, serverVars, Results
  <2>2. \A c, i \in Nat : \A p \in Places : Held(c, p, i)' => Held(c, p, i)
    BY <1>4, <2>1
  <2>3. "failed" \notin Never /\ "failed" # "ok"
    BY DEF Never
  <2> QED BY <1>2, <2>1, <2>2, <2>3
<1>19. CASE Receive
  <2>1. PICK r \in reply :
           /\ r.nth = call.nth /\ reply' = reply \ {r}
           /\ \E v \in BOOLEAN : EndCall(IF r.ok THEN "ok" ELSE "failed", v)
    BY <1>19 DEF Receive
  <2>2. UNCHANGED <<inbox, busy, executed, thread>> /\ pc = "wait"
    BY <1>19 DEF Receive
  <2>3. \A c, i \in Nat : \A p \in Places : Held(c, p, i)' => Held(c, p, i)
    BY <1>4, <2>2
  <2>4. r.ok => Done(call.nth)
    BY <2>1 DEF Once, Receipts
  <2>5. PICK v \in BOOLEAN : EndCall(IF r.ok THEN "ok" ELSE "failed", v)
    BY <2>1
  <2>6. PICK x \in {"ok", "failed"} : x = IF r.ok THEN "ok" ELSE "failed"
    OBVIOUS
  <2>7. x \in Results /\ x \notin Never /\ EndCall(x, v) /\ (x = "ok" => Done(call.nth))
    BY <2>4, <2>5, <2>6 DEF Results, Never
  <2> QED BY <1>2, <2>1, <2>2, <2>3, <2>7
<1>20. CASE Send
  <2>1. UNCHANGED <<thread, busy, reply, executed>> /\ pc = "send"
        /\ DOMAIN inbox = DOMAIN thread /\ call.nth \in Nat
    BY <1>0, <1>20 DEF Send, ServerTypes, WorkerTypes
  <2>2. CASE Listeners = {}
    <3>1. EndCall("failed", FALSE) /\ inbox' = inbox
      BY <1>20, <2>2 DEF Send
    <3>2. "failed" \in Results /\ "failed" \notin Never /\ "failed" # "ok"
      BY DEF Results, Never
    <3>3. \A c, i \in Nat : \A p \in Places : Held(c, p, i)' => Held(c, p, i)
      BY <1>4, <2>1, <3>1
    <3> QED BY <1>2, <2>1, <3>1, <3>2, <3>3
  <2>3. CASE Listeners # {}
    <3> DEFINE d == call.nth
    <3>1. PICK s \in Listeners : inbox' = [inbox EXCEPT ![s] = @ \cup {d}]
      BY <1>20, <2>3 DEF Send
    <3>2. s \in DOMAIN thread /\ s \in Nat
      BY <1>d DEF Listeners
    <3>3. pc' = "wait" /\ UNCHANGED <<call, results>>
      BY <1>20, <2>3 DEF Send
    <3>4. results[d] = "open" /\ \A i \in Nat : \A p \in Places : ~Held(d, p, i)
      BY <2>1 DEF Once, Pending
    <3>5. d \in DOMAIN results /\ results[d] \notin Never
      BY <1>0, <2>1, <3>4 DEF WorkerTypes, Never
    <3>6. \A c, i \in Nat : \A p \in Places :
             Held(c, p, i)' => (c # d /\ Held(c, p, i)) \/ (c = d /\ p = "inbox" /\ i = s)
      <4> SUFFICES ASSUME NEW c \in Nat, NEW i \in Nat, NEW p \in Places, Held(c, p, i)'
                   PROVE  (c # d /\ Held(c, p, i)) \/ (c = d /\ p = "inbox" /\ i = s)
        OBVIOUS
      <4>1. CASE p = "inbox" /\ i = s /\ c = d
        BY <4>1
      <4>2. CASE ~(p = "inbox" /\ i = s /\ c = d)
        <5>1. Held(c, p, i)
          BY <2>1, <3>1, <3>2, <4>2 DEF Held
        <5> HIDE DEF d
        <5> QED BY <3>4, <5>1
      <4> QED BY <4>1, <4>2
    <3>7. Unique' /\ Known'
      <4>1. "inbox" \in Places
        BY DEF Places
      <4>2. d \in Nat
        BY <2>1
      <4> HIDE DEF d
      <4> QED BY <1>3, <3>2, <3>3, <3>5, <3>6, <4>1, <4>2
    <3>8. Receipts' /\ Truth' /\ Pending'
      BY <2>1, <3>3, <3>4 DEF Once, Receipts, Truth, Done, Pending
    <3> QED BY <3>7, <3>8 DEF Once
  <2> QED BY <2>2, <2>3
<1> QED BY <1>5, <1>6, <1>7, <1>8, <1>9, <1>10, <1>11, <1>12, <1>13, <1>14, <1>15, <1>16, <1>17,
        <1>18, <1>19, <1>20
    DEF Next, Worker, Server, Dispatch, User, GuiActs, ChatActs

LEMMA OnceImpliesTrue == Types /\ Once => ResultsAreTrue
<1> SUFFICES ASSUME Types, Once, NEW c \in DOMAIN results
             PROVE  /\ Times(c) <= 1
                    /\ results[c] = "ok" => Times(c) = 1
                    /\ results[c] \in {"refused", "not_ready"} => Times(c) = 0
  BY DEF ResultsAreTrue
<1> DEFINE T == {k \in DOMAIN executed : executed[k].nth = c}
<1>1. c \in Nat /\ c # 0 /\ DOMAIN executed \subseteq Nat /\ "done" \in Places
  BY DEF Types, WorkerTypes, Places
<1>2. \A k \in T : Held(c, "done", k)
  BY <1>1 DEF Held
<1>3. \A j, k \in T : j = k
  <2>1. T \subseteq Nat
    BY <1>1
  <2> HIDE DEF T
  <2> QED BY <1>1, <1>2, <2>1 DEF Once, Unique
<1>4. T = {} \/ \E k : T = {k}
  <2> HIDE DEF T
  <2> QED BY <1>3
<1>5. T = {} => Times(c) = 0
  BY FS_EmptySet DEF Times
<1>6. (\E k : T = {k}) => Times(c) = 1
  BY FS_Singleton DEF Times
<1>7. results[c] = "ok" => T # {}
  BY DEF Once, Truth, Done
<1>8. results[c] \in {"refused", "not_ready"} => T = {}
  BY <1>1, <1>2 DEF Once, Known, Never
<1> HIDE DEF T
<1> QED BY <1>4, <1>5, <1>6, <1>7, <1>8

\* What the agent is told of a call is what happened: a success was executed once,
\* a refusal never, and nothing twice (client.py, server.py).
THEOREM ToldTheTruth == Spec => []ResultsAreTrue
<1>1. Init => Consent /\ Once
  BY ConsentInit, OnceInit
<1>2. Consent /\ Once /\ [Next]_vars => Consent' /\ Once'
  BY ConsentStep, OnceStep DEF Consent
<1>3. Consent /\ Once => ResultsAreTrue
  BY OnceImpliesTrue DEF Consent
<1> QED BY <1>1, <1>2, <1>3, PTL DEF Spec
-------------------------------------------------------------------------------
(* The window                                                                  *)
(*                                                                             *)
(* Of a change the window does not show the agent has either not been told, or *)
(* the event that will show it is on its way: it carries the base path of the  *)
(* run, which is the open project as long as no project is opened meanwhile.   *)

Joins == gui # "joining" => after = "nothing"
RunsInOpen == pc # "idle" => run.base = open
Numbered == \A i \in DOMAIN thread : 0 \notin inbox[i] /\ (busy[i] # NotBusy => busy[i].nth # 0)
IsResultOf(k, c) == events[k].kind = "result" /\ events[k].nth = c /\ events[k].base = open
Announced(c) == \E k \in DOMAIN events : IsResultOf(k, c)
Announcements ==
    /\ unseen \subseteq DOMAIN results
    /\ after # "start" => \A c \in unseen : results[c] = "ok" => Announced(c)
Shown == Joins /\ RunsInOpen /\ Numbered /\ Announcements

LEMMA ShownInit == Init => Shown
<1> SUFFICES ASSUME Init PROVE Shown
  OBVIOUS
<1>1. Joins /\ RunsInOpen /\ Announcements
  BY DEF Init, Joins, RunsInOpen, Announcements
<1>2. \/ thread = <<>>
      \/ thread = <<"listening">> /\ inbox = <<{}>> /\ busy = <<NotBusy>>
  BY DEF Init
<1>3. Numbered
  BY <1>2 DEF Numbered
<1> QED BY <1>1, <1>3 DEF Shown

LEMMA JoinsStep == Types /\ Joins /\ [Next]_vars => Joins'
<1> SUFFICES ASSUME Types, Joins, [Next]_vars PROVE Joins'
  OBVIOUS
<1>1. CASE UNCHANGED <<gui, after>>
  BY <1>1 DEF Joins
<1>2. CASE UNCHANGED vars
  BY <1>1, <1>2 DEF vars, guiVars
<1>3. ASSUME NEW s \in DOMAIN thread, Bind(s) \/ Begin(s) \/ Complete(s) \/ Leave(s)
      PROVE  Joins'
  BY <1>1, <1>3 DEF Bind, Begin, Complete, Leave, guiVars
<1>4. CASE ChatActs \/ HandleEvent \/ Answer \/ Worker
  BY <1>1, <1>4 DEF ChatActs, Submit, Stop, Choose, SelectChat, HandleEvent, Answer, Worker,
     StartRun, EndRun, NextCall, Probe, Confirm, Answered, Send, Receive, Disconnected, TimeOut,
     guiVars
<1>5. CASE GuiActs
  BY <1>5 DEF GuiActs, OpenDirectory, StopServer, StartServer, CloseWindow, StopEnds, StopBegins,
     Joins, GuiFree, guiVars
<1> QED BY <1>2, <1>3, <1>4, <1>5 DEF Next, Server, Dispatch, User, GuiActs, ChatActs

\* Only a directory opened under a run parts it from the open project.
LEMMA RunsInOpenStep ==
    ASSUME SwitchDuringRun = FALSE, Asked, RunsInOpen, [Next]_vars
    PROVE  RunsInOpen'
<1>1. CASE UNCHANGED <<pc, run, open>>
  BY <1>1 DEF RunsInOpen
<1>2. CASE UNCHANGED vars
  BY <1>1, <1>2 DEF vars, guiVars, workerVars
<1>3. ASSUME NEW s \in DOMAIN thread, Bind(s) \/ Begin(s) \/ Complete(s) \/ Leave(s)
      PROVE  RunsInOpen'
  BY <1>1, <1>3 DEF Bind, Begin, Complete, Leave, guiVars, workerVars
<1>4. CASE ChatActs \/ HandleEvent
  BY <1>1, <1>4 DEF ChatActs, Submit, Stop, Choose, SelectChat, HandleEvent, guiVars, workerVars
<1>5. CASE OpenDirectory
  BY <1>5 DEF OpenDirectory, Idle, RunsInOpen, workerVars
<1>6. CASE StopServer \/ StartServer \/ CloseWindow \/ StopEnds
  BY <1>1, <1>6 DEF StopServer, StartServer, CloseWindow, StopEnds, guiVars, workerVars
<1>7. CASE StartRun \/ EndRun
  BY <1>7 DEF StartRun, EndRun, RunsInOpen, guiVars
<1>8. CASE NextCall \/ Probe \/ Confirm \/ Answered \/ Send \/ Receive \/ Disconnected \/ TimeOut
  <2>1. pc # "idle" /\ UNCHANGED <<run, open>>
    BY <1>8 DEF NextCall, Probe, Confirm, Answered, Send, Receive, Disconnected, TimeOut, EndCall,
       guiVars
  <2> QED BY <2>1 DEF RunsInOpen
<1>9. CASE Answer
  BY <1>9 DEF Answer, Asked, RunsInOpen
<1> QED BY <1>2, <1>3, <1>4, <1>5, <1>6, <1>7, <1>8, <1>9
    DEF Next, Worker, Server, Dispatch, User, ChatActs

LEMMA NumberedStep == Types /\ Numbered /\ [Next]_vars => Numbered'
<1> SUFFICES ASSUME Types, Numbered, [Next]_vars PROVE Numbered'
  OBVIOUS
<1>0. WorkerTypes /\ ServerTypes
  BY DEF Types
<1>d. /\ DOMAIN thread = 1..Len(thread) /\ Len(thread) \in Nat
      /\ DOMAIN inbox = DOMAIN thread /\ DOMAIN busy = DOMAIN thread
  BY <1>0 DEF ServerTypes
<1>1. CASE UNCHANGED <<inbox, busy>> /\ DOMAIN thread' = DOMAIN thread
  BY <1>1 DEF Numbered
<1>2. CASE UNCHANGED vars
  BY <1>1, <1>2 DEF vars, serverVars
<1>3. ASSUME NEW s \in DOMAIN thread, Bind(s)
      PROVE  Numbered'
  BY <1>1, <1>3, <1>d DEF Bind
<1>4. ASSUME NEW s \in DOMAIN thread, Begin(s)
      PROVE  Numbered'
  <2>1. PICK c \in inbox[s] :
           /\ inbox' = [inbox EXCEPT ![s] = @ \ {c}]
           /\ busy' = [busy EXCEPT ![s] = [nth |-> c, project |-> base]] \/ busy' = busy
    BY <1>4 DEF Begin
  <2>2. c # 0 /\ thread' = thread
    BY <1>4 DEF Begin, Numbered
  <2> QED BY <1>d, <2>1, <2>2 DEF Numbered
<1>5. ASSUME NEW s \in DOMAIN thread, Complete(s)
      PROVE  Numbered'
  <2>1. busy' = [busy EXCEPT ![s] = NotBusy] /\ UNCHANGED <<thread, inbox>>
    BY <1>5 DEF Complete
  <2> QED BY <1>d, <2>1 DEF Numbered
<1>6. ASSUME NEW s \in DOMAIN thread, Leave(s)
      PROVE  Numbered'
  <2>1. /\ inbox' = [inbox EXCEPT ![s] = {}] /\ busy' = busy
        /\ thread' = [thread EXCEPT ![s] = "dead"]
    BY <1>6 DEF Leave
  <2> QED BY <1>d, <2>1 DEF Numbered
<1>7. ASSUME NEW p \in Project, Started(p)
      PROVE  Numbered'
  <2>1. /\ DOMAIN thread' = DOMAIN thread \cup {Len(thread) + 1}
        /\ \A i \in DOMAIN thread : inbox'[i] = inbox[i] /\ busy'[i] = busy[i]
        /\ inbox'[Len(thread) + 1] = {} /\ busy'[Len(thread) + 1] = NotBusy
    BY <1>0, <1>7, <1>d, NotBusyTyped DEF Started, ServerTypes
  <2> QED BY <2>1 DEF Numbered
<1>8. CASE GuiActs
  <2>1. \A next : StopBegins(next) => UNCHANGED <<inbox, busy>> /\ DOMAIN thread' = DOMAIN thread
    BY <1>d DEF StopBegins
  <2>2. open \in Project /\ open' \in Project
    BY GuiTypesStep DEF Types, GuiTypes
  <2>3. \/ UNCHANGED <<inbox, busy>> /\ DOMAIN thread' = DOMAIN thread
        \/ \E p \in Project : Started(p)
    BY <1>8, <2>1, <2>2
       DEF GuiActs, OpenDirectory, StopServer, StartServer, CloseWindow, StopEnds
  <2> QED BY <1>1, <1>7, <2>3
<1>9. CASE Send
  <2>1. CASE inbox' = inbox
    BY <1>1, <1>9, <2>1 DEF Send
  <2>2. CASE \E s \in Listeners : inbox' = [inbox EXCEPT ![s] = @ \cup {call.nth}]
    <3>1. PICK s \in Listeners : inbox' = [inbox EXCEPT ![s] = @ \cup {call.nth}]
      BY <2>2
    <3>2. call.nth # 0 /\ UNCHANGED <<thread, busy>>
      BY <1>0, <1>9 DEF Send, WorkerTypes
    <3> QED BY <1>d, <3>1, <3>2 DEF Numbered, Listeners
  <2> QED BY <1>9, <2>1, <2>2 DEF Send
<1>10. CASE \/ ChatActs \/ HandleEvent \/ Answer \/ StartRun \/ EndRun \/ NextCall \/ Probe
            \/ Confirm \/ Answered \/ Receive \/ Disconnected \/ TimeOut
  BY <1>1, <1>10 DEF ChatActs, Submit, Stop, Choose, SelectChat, HandleEvent, Answer, StartRun,
     EndRun, NextCall, Probe, Confirm, Answered, Receive, Disconnected, TimeOut, serverVars
<1> QED BY <1>2, <1>3, <1>4, <1>5, <1>6, <1>8, <1>9, <1>10
    DEF Next, Worker, Server, Dispatch, User, GuiActs, ChatActs

LEMMA AnnouncementsStep ==
    ASSUME Types, Types', Asked, Once, Shown, [Next]_vars
    PROVE  Announcements'
<1>0. GuiTypes /\ WorkerTypes /\ ServerTypes
  BY DEF Types
<1>d. DOMAIN results = 1..Len(results) /\ Len(results) \in Nat
  BY <1>0 DEF WorkerTypes
<1>1. CASE UNCHANGED <<unseen, results, after, events, open>>
  BY <1>1 DEF Shown, Announcements, Announced, IsResultOf
<1>2. CASE UNCHANGED vars
  BY <1>1, <1>2 DEF vars, guiVars, history
<1>3. ASSUME NEW s \in DOMAIN thread, Bind(s) \/ Begin(s) \/ Leave(s)
      PROVE  Announcements'
  BY <1>1, <1>3 DEF Bind, Begin, Leave, guiVars, history
\* a call that a thread executes has not been told a success
<1>4. ASSUME NEW s \in DOMAIN thread, Complete(s)
      PROVE  Announcements'
  <2> DEFINE d == busy[s].nth
  <2>1. unseen' \subseteq unseen \cup {d} /\ UNCHANGED <<results, after, events, open>>
    BY <1>4 DEF Complete
  <2>2. d \in Nat /\ d # 0 /\ s \in Nat
    <3>1. busy[s] \in Execution /\ s \in Nat
      BY <1>0 DEF ServerTypes
    <3> QED BY <1>4, <3>1 DEF Execution, Complete, Shown, Numbered
  <2>3. Held(d, "busy", s) /\ "busy" \in Places /\ "done" \in Places
    BY <2>2 DEF Held, Places
  <2>4. d \in DOMAIN results
    BY <2>2, <2>3 DEF Once, Known
  <2>5. results[d] # "ok"
    <3>1. SUFFICES ASSUME results[d] = "ok" PROVE FALSE
      OBVIOUS
    <3>2. PICK k \in DOMAIN executed : executed[k].nth = d
      BY <2>4, <3>1 DEF Once, Truth, Done
    <3>3. Held(d, "done", k) /\ k \in Nat
      BY <1>0, <2>2, <3>2 DEF Held, WorkerTypes
    <3> HIDE DEF d
    <3> QED BY <2>2, <2>3, <3>3 DEF Once, Unique
  <2> HIDE DEF d
  <2> QED BY <2>1, <2>4, <2>5 DEF Shown, Announcements, Announced, IsResultOf
<1>5. CASE ChatActs \/ Answer
  BY <1>1, <1>5 DEF ChatActs, Submit, Stop, Choose, SelectChat, Answer, guiVars, history
<1>6. CASE OpenDirectory
  <2>1. results' = results
    BY <1>6 DEF OpenDirectory, history
  <2>2. CASE server # 0
    BY <1>6, <2>1, <2>2 DEF OpenDirectory, StopBegins, Shown, Announcements
  <2>3. CASE server = 0
    BY <1>6, <2>3 DEF OpenDirectory, Announcements
  <2> QED BY <2>2, <2>3
<1>7. CASE StopServer \/ StartServer \/ CloseWindow
  <2>1. UNCHANGED <<unseen, results, events, open>> /\ after = "nothing"
    BY <1>7 DEF StopServer, StartServer, CloseWindow, GuiFree, Shown, Joins, guiVars, history
  <2> QED BY <2>1 DEF Shown, Announcements, Announced, IsResultOf
<1>8. CASE StopEnds
  <2>1. UNCHANGED <<results, events, open>>
    BY <1>8 DEF StopEnds, history
  <2>2. CASE after = "start"
    BY <1>8, <2>1, <2>2 DEF StopEnds, Announcements
  <2>3. CASE after # "start"
    BY <1>8, <2>1, <2>3 DEF StopEnds, Shown, Announcements, Announced, IsResultOf
  <2> QED BY <2>2, <2>3
<1>9. CASE HandleEvent
  <2>1. UNCHANGED <<results, after, open>> /\ events # <<>> /\ events' = Tail(events)
    BY <1>9 DEF HandleEvent, history
  <2>2. /\ DOMAIN events' = 1..(Len(events) - 1) /\ Len(events) \in Nat
        /\ DOMAIN events = 1..Len(events)
        /\ \A k \in DOMAIN events' : events'[k] = events[k + 1]
    BY <1>0, <2>1 DEF GuiTypes
  <2>3. Head(events) = events[1]
    BY <1>0, <2>1 DEF GuiTypes
  <2>4. unseen' = IF events[1].kind = "result" /\ events[1].base = open
                  THEN unseen \ {events[1].nth} ELSE unseen
    BY <1>9, <2>3 DEF HandleEvent
  <2>5. ASSUME NEW c \in unseen', Announced(c)
        PROVE  Announced(c)'
    <3>1. PICK k \in DOMAIN events : IsResultOf(k, c)
      BY <2>5 DEF Announced
    <3>2. k # 1
      BY <2>4, <2>5, <3>1 DEF IsResultOf
    <3>3. k - 1 \in DOMAIN events' /\ events'[k - 1] = events[k]
      BY <2>2, <3>1, <3>2
    <3> QED BY <2>1, <3>1, <3>3 DEF Announced, IsResultOf
  <2>6. unseen' \subseteq unseen
    BY <2>4
  <2> QED BY <2>1, <2>5, <2>6 DEF Shown, Announcements
<1>10. CASE StartRun \/ EndRun \/ Confirm
  <2>1. UNCHANGED <<unseen, results, after, open>>
    BY <1>10 DEF StartRun, EndRun, Confirm, guiVars, history
  <2>2. CASE events' = events
    BY <1>1, <2>1, <2>2
  <2>3. CASE \E e \in Event : events' = Append(events, e)
    <3>1. DOMAIN events \subseteq DOMAIN events' /\ \A k \in DOMAIN events : events'[k] = events[k]
      BY <1>0, <2>3 DEF GuiTypes
    <3> QED BY <2>1, <3>1 DEF Shown, Announcements, Announced, IsResultOf
  <2>4. events' = events \/ \E e \in Event : events' = Append(events, e)
    <3>1. [kind |-> "ask", nth |-> call.nth, base |-> run.base] \in Event
      BY <1>0 DEF Event, WorkerTypes
    <3> QED BY <1>10, <3>1 DEF StartRun, EndRun, Confirm, guiVars
  <2> QED BY <2>2, <2>3, <2>4
<1>11. CASE NextCall
  <2>1. UNCHANGED <<unseen, after, events, open>> /\ results' = Append(results, "open")
    BY <1>11 DEF NextCall, guiVars
  <2>2. DOMAIN results \subseteq DOMAIN results' /\ \A c \in DOMAIN results : results'[c] = results[c]
    BY <1>0, <2>1 DEF WorkerTypes
  <2> QED BY <2>1, <2>2 DEF Shown, Announcements, Announced, IsResultOf
\* a call that ends otherwise than with a success
<1>12. ASSUME NEW r, r # "ok", NEW v, EndCall(r, v), UNCHANGED <<unseen, after, events, open>>
       PROVE  Announcements'
  <2>1. DOMAIN results' = DOMAIN results
        /\ \A c \in DOMAIN results : results'[c] = r \/ results'[c] = results[c]
    BY <1>0, <1>12 DEF EndCall, WorkerTypes
  <2> QED BY <1>12, <2>1 DEF Shown, Announcements, Announced, IsResultOf
<1>13. CASE Probe \/ Answered \/ Send \/ Disconnected \/ TimeOut
  <2>1. UNCHANGED <<unseen, after, events, open>>
    BY <1>13 DEF Probe, Answered, Send, Disconnected, TimeOut, guiVars
  <2>2. \/ results' = results
        \/ \E r \in {"not_ready", "refused", "failed"} : \E v : EndCall(r, v)
    BY <1>13 DEF Probe, Answered, Send, Disconnected, TimeOut
  <2>3. CASE results' = results
    BY <1>1, <2>1, <2>3
  <2>4. CASE \E r \in {"not_ready", "refused", "failed"} : \E v : EndCall(r, v)
    BY <1>12, <2>1, <2>4
  <2> QED BY <2>2, <2>3, <2>4
<1>14. CASE Receive
  <2>1. UNCHANGED <<unseen, after, open>> /\ pc = "wait"
    BY <1>14 DEF Receive
  <2>2. PICK r \in reply :
           /\ r.nth = call.nth
           /\ \E v \in BOOLEAN : EndCall(IF r.ok THEN "ok" ELSE "failed", v)
           /\ events' = IF r.ok
                        THEN Append(events, [kind |-> "result", nth |-> r.nth, base |-> run.base])
                        ELSE events
    BY <1>14 DEF Receive
  <2>3. CASE ~r.ok
    <3>1. \E v : EndCall("failed", v)
      BY <2>2, <2>3
    <3> QED BY <1>12, <2>1, <2>2, <2>3, <3>1
  <2>4. CASE r.ok
    <3> DEFINE e == [kind |-> "result", nth |-> call.nth, base |-> open]
               n == Len(events) + 1
    <3>1. run.base = open
      BY <2>1 DEF Shown, RunsInOpen
    <3>2. e \in Event /\ events' = Append(events, e)
      BY <1>0, <2>2, <2>4, <3>1 DEF Event, WorkerTypes, GuiTypes, Place
    <3>3. /\ DOMAIN events' = DOMAIN events \cup {n}
          /\ \A k \in DOMAIN events : events'[k] = events[k]
          /\ events'[n] = e
      <4> HIDE DEF e
      <4> QED BY <1>0, <3>2 DEF GuiTypes
    <3>4. DOMAIN results' = DOMAIN results
          /\ \A c \in DOMAIN results : c # call.nth => results'[c] = results[c]
      BY <1>0, <2>2 DEF EndCall, WorkerTypes
    <3>5. Announced(call.nth)'
      <4>1. n \in DOMAIN events' /\ events'[n].kind = "result" /\ events'[n].nth = call.nth
            /\ events'[n].base = open
        BY <3>3
      <4>2. call' = call /\ open' = open
        BY <2>1, <2>2 DEF EndCall
      <4> HIDE DEF n
      <4> QED BY <4>1, <4>2 DEF Announced, IsResultOf
    <3>6. \A c : Announced(c) => Announced(c)'
      BY <2>1, <3>3 DEF Announced, IsResultOf
    <3>7. call' = call
      BY <2>2 DEF EndCall
    <3>8. unseen' \subseteq DOMAIN results'
      BY <2>1, <3>4 DEF Shown, Announcements
    <3>9. ASSUME after' # "start", NEW c \in unseen', results'[c] = "ok"
          PROVE  Announced(c)'
      <4>1. CASE c = call.nth
        BY <3>5, <3>7, <4>1 DEF Announced, IsResultOf
      <4>2. CASE c # call.nth
        <5>1. c \in unseen /\ c \in DOMAIN results /\ results[c] = "ok" /\ after # "start"
          BY <2>1, <3>4, <3>9, <4>2 DEF Shown, Announcements
        <5> QED BY <3>6, <5>1 DEF Shown, Announcements
      <4> QED BY <4>1, <4>2
    <3> QED BY <3>8, <3>9 DEF Announcements
  <2> QED BY <2>3, <2>4
<1> QED BY <1>2, <1>3, <1>4, <1>5, <1>6, <1>7, <1>8, <1>9, <1>10, <1>11, <1>13, <1>14
    DEF Next, Worker, Server, Dispatch, User, ChatActs

\* The window catches up (_broadcast_tool_result, _handle_mcp_tool_event): when the
\* posted events are handled it shows every change the agent has been told of, in
\* whatever order the server is stopped, started and given up on, as long as no
\* project is opened under a run.
THEOREM WindowCatchesUp ==
    ASSUME SwitchDuringRun = FALSE
    PROVE  Spec => []SuccessesAreShown
<1>1. Init => Consent /\ Once /\ Shown
  BY ConsentInit, OnceInit, ShownInit
<1>2. Consent /\ Once /\ Shown /\ [Next]_vars => Consent' /\ Once' /\ Shown'
  <2> SUFFICES ASSUME Consent, Once, Shown, [Next]_vars
               PROVE  Consent' /\ Once' /\ Shown'
    OBVIOUS
  <2>1. Consent' /\ Types /\ Types' /\ Asked
    BY ConsentStep DEF Consent
  <2>2. Once'
    BY <2>1, OnceStep
  <2>3. Joins' /\ RunsInOpen' /\ Numbered'
    BY <2>1, JoinsStep, RunsInOpenStep, NumberedStep DEF Shown
  <2>4. Announcements'
    BY <2>1, AnnouncementsStep
  <2> QED BY <2>1, <2>2, <2>3, <2>4 DEF Shown
<1>3. Consent /\ Shown => SuccessesAreShown
  <2> SUFFICES ASSUME Shown, gui = "free", events = <<>>, NEW c \in unseen
               PROVE  results[c] # "ok"
    BY DEF SuccessesAreShown
  <2>1. after # "start" /\ DOMAIN events = {}
    BY DEF Shown, Joins
  <2> QED BY <2>1 DEF Shown, Announcements, Announced
<1> QED BY <1>1, <1>2, <1>3, PTL DEF Spec
===============================================================================
