------------------------------ MODULE LlmStream ------------------------------
(* One streamed answer of the model: the provider sends it in deltas, the      *)
(* parser (response_parser.py, consume_stream) puts text and tool calls        *)
(* together again, and the client (client.py, _respond_chat) decodes the       *)
(* arguments and accepts or refuses the answer.  The stream may break and the  *)
(* user may stop the run at any moment.                                        *)
EXTENDS Integers, Sequences, FiniteSets

CONSTANTS MaxCalls,     \* most calls of an answer
          Parts,        \* fragments in which the arguments of a call arrive
          Deliveries    \* the ways in which providers deliver calls

\* together: every delta carries a fragment of every call.   in_turn: a delta
\* carries a fragment of one call, the calls follow each other.   function: the
\* older function_call deltas of a single call.   reasoning: whole calls inside
\* the reasoning, each with its id.   no_ids: the same without ids, all in one
\* delta.   no_ids_in_turn: without ids, a delta for each.   message: whole calls
\* in the message that closes the stream.
ASSUME LlmStreamAssumption ==
    /\ MaxCalls \in Nat /\ Parts \in Nat \ {0}
    /\ Deliveries \subseteq {"together", "in_turn", "function", "reasoning", "no_ids",
                              "no_ids_in_turn", "message"}

VARIABLES pc,         \* "idle", "streaming", "parsing", "answer", "invalid", "cancelled"
          answer,     \* what the model says
          sent,       \* fragments the provider has sent, by call
          said,       \* pieces of the text that have arrived
          thought,    \* whether reasoning has arrived
          closed,     \* whether the closing message has arrived
          buffer,     \* tool_chunks, in the order of its keys
          broken,     \* the stream raised an exception
          cancelled,  \* the cancellation event of the run
          response    \* the LLMResponse the agent gets

vars == <<pc, answer, sent, said, thought, closed, buffer, broken, cancelled, response>>

Calls == DOMAIN answer.calls
TextPieces == 2

-------------------------------------------------------------------------------
(* The accumulator                                                             *)

\* A fragment of call c: the first names it, the others carry its arguments.
\* The id stands for the call's id and for the name of its tool.
Fragment(c, n) == IF n = 0 THEN [id |-> c, text |-> <<>>]
                           ELSE [id |-> 0, text |-> <<[of |-> c, part |-> n]>>]
WholeCall(c) == [id |-> c, text |-> [n \in 1..Parts |-> [of |-> c, part |-> n]]]

\* Mutant: a fragment always opens an entry.
Merged_AlwaysNew(entries, item) ==
    Append(entries, [key |-> item.key, id |-> item.fragment.id, text |-> item.fragment.text])

\* An entry and a fragment that joins it.
Joined(entry, new) == [key |-> entry.key, id |-> IF new.id # 0 THEN new.id ELSE entry.id,
                       text |-> entry.text \o new.text]

\* Mutant: a fragment replaces the arguments its entry has.
Merged_Replaces(entries, item) ==
    LET new == item.fragment
    IN  IF \A k \in DOMAIN entries : entries[k].key # item.key
        THEN Append(entries, [key |-> item.key, id |-> new.id, text |-> new.text])
        ELSE [k \in DOMAIN entries |->
                IF entries[k].key = item.key THEN [Joined(entries[k], new) EXCEPT !.text = new.text]
                ELSE entries[k]]

\* _append_stream_tool_call, _append_stream_function_call: the fragment joins the
\* entry of its key, a new key opens an entry.
Merged(entries, item) ==
    LET new == item.fragment
    IN  IF \A k \in DOMAIN entries : entries[k].key # item.key
        THEN Append(entries, [key |-> item.key, id |-> new.id, text |-> new.text])
        ELSE [k \in DOMAIN entries |->
                IF entries[k].key = item.key THEN Joined(entries[k], new) ELSE entries[k]]

\* A tool call is filed by its position in the delta that carries it; a call in
\* the reasoning by its id or, without one, by the number the parser gives it as
\* id, which starts again with every delta; a function_call by neither.
At(position, fragment) == [key |-> <<"at", position>>, fragment |-> fragment]
ById(fragment) == [key |-> <<"id", fragment.id>>, fragment |-> fragment]
ByNumber(number, fragment) == [key |-> <<"number", number>>, fragment |-> fragment]
Function(fragment) == [key |-> <<"function", -1>>, fragment |-> fragment]

\* The items of a delta are merged one after the other.
Received(items) ==
    LET received[n \in 0..Len(items)] ==
          IF n = 0 THEN buffer ELSE Merged(received[n - 1], items[n])
    IN  received[Len(items)]
Receive(items) == buffer' = Received(items)

-------------------------------------------------------------------------------
(* Decoding                                                                    *)

\* Mutant: a truncated object is closed and accepted with the keys it has.
Decoded_ClosesTruncated(text) ==
    LET keys == {text[k].of : k \in DOMAIN text} \cap {c \in Calls : answer.calls[c]}
    IN  IF Len(text) % Parts = 0 THEN keys ELSE {-c : c \in keys}

\* _decode_tool_arguments, _recover_tool_arguments: no text is an empty object,
\* objects one after the other become one with the keys of all of them.  A call's
\* keys are written {call}; answer.calls tells whether it has any.
NotJson == {0}
Decoded(text) ==
    LET objects == {k \in DOMAIN text : text[k].part = 1}
        whole == /\ Len(text) % Parts = 0
                 /\ \A k \in DOMAIN text : /\ text[k].part = ((k - 1) % Parts) + 1
                                           /\ text[k].part > 1 => text[k].of = text[k - 1].of
        keys == {text[k].of : k \in objects} \cap {c \in Calls : answer.calls[c]}
    IN  IF ~whole \/ (Cardinality(objects) > 1 /\ keys = {}) THEN NotJson ELSE keys

-------------------------------------------------------------------------------
Answers ==
    [calls : UNION {[1..n -> BOOLEAN] : n \in 0..MaxCalls}, text : BOOLEAN,
     thought : BOOLEAN, delivery : Deliveries, repeats : BOOLEAN]
Silent == [calls |-> <<>>, text |-> FALSE, thought |-> FALSE, delivery |-> "none",
           repeats |-> FALSE]
NoResponse == [calls |-> <<>>, text |-> "none"]

Init ==
    /\ pc = "idle" /\ answer = Silent /\ sent = <<>> /\ said = 0 /\ thought = FALSE
    /\ closed = FALSE /\ buffer = <<>> /\ broken = FALSE /\ cancelled = FALSE
    /\ response = NoResponse

\* _chat_completion opens the stream; a provider that repeats the calls in the
\* closing message is one that delivers them by position before.
Ask ==
    /\ pc = "idle"
    /\ \E a \in Answers :
         /\ a.delivery = "function" => Len(a.calls) <= 1
         /\ a.repeats => a.delivery = "together"
         /\ answer' = a /\ sent' = [c \in DOMAIN a.calls |-> 0]
    /\ pc' = "streaming"
    /\ UNCHANGED <<said, thought, closed, buffer, broken, cancelled, response>>

Stop ==
    /\ pc \in {"streaming", "parsing"} /\ ~cancelled
    /\ cancelled' = TRUE
    /\ UNCHANGED <<pc, answer, sent, said, thought, closed, buffer, broken, response>>

\* ensure_not_cancelled, before each delta and after the last; the closed stream
\* raises, and so does one that breaks by itself.
NoticeStop ==
    /\ pc = "streaming" /\ cancelled
    /\ pc' = "cancelled"
    /\ UNCHANGED <<answer, sent, said, thought, closed, buffer, broken, cancelled, response>>

-------------------------------------------------------------------------------
(* consume_stream                                                              *)

Receiving == pc = "streaming" /\ ~cancelled /\ ~closed
Missing == {c \in Calls : sent[c] <= Parts}
Sent(cs) == sent' = [c \in Calls |-> IF c \in cs THEN sent[c] + 1 ELSE sent[c]]

Content ==
    /\ Receiving /\ answer.text /\ said < TextPieces
    /\ said' = said + 1
    /\ UNCHANGED <<pc, answer, sent, thought, closed, buffer, broken, cancelled, response>>

Reasoning ==
    /\ Receiving /\ answer.thought /\ ~thought
    /\ thought' = TRUE
    /\ UNCHANGED <<pc, answer, sent, said, closed, buffer, broken, cancelled, response>>

\* Deltas with tool_calls: the position is the one in this delta.
CallsTogether ==
    /\ Receiving /\ answer.delivery = "together" /\ Missing # {}
    /\ Receive([c \in Calls |-> At(c, Fragment(c, sent[c]))])
    /\ Sent(Calls)
    /\ UNCHANGED <<pc, answer, said, thought, closed, broken, cancelled, response>>

CallInTurn ==
    /\ Receiving /\ answer.delivery = "in_turn"
    /\ \E c \in Missing :
         /\ \A d \in Missing : c <= d
         /\ Receive(<<At(1, Fragment(c, sent[c]))>>) /\ Sent({c})
    /\ UNCHANGED <<pc, answer, said, thought, closed, broken, cancelled, response>>

FunctionCall ==
    /\ Receiving /\ answer.delivery = "function"
    /\ \E c \in Missing : Receive(<<Function(Fragment(c, sent[c]))>>) /\ Sent({c})
    /\ UNCHANGED <<pc, answer, said, thought, closed, broken, cancelled, response>>

\* _extract_reasoning_tool_calls drops fragments without a name: only whole
\* calls arrive this way.
CallInReasoning ==
    /\ Receiving /\ answer.delivery = "reasoning"
    /\ \E c \in Missing :
         /\ \A d \in Missing : c <= d
         /\ Receive(<<ById(WholeCall(c))>>)
         /\ sent' = [sent EXCEPT ![c] = Parts + 1]
    /\ UNCHANGED <<pc, answer, said, thought, closed, broken, cancelled, response>>

WholeCallsWithoutIds ==
    /\ Receiving /\ answer.delivery = "no_ids" /\ Missing # {}
    /\ Receive([c \in Calls |-> ByNumber(c, WholeCall(c))])
    /\ sent' = [c \in Calls |-> Parts + 1]
    /\ UNCHANGED <<pc, answer, said, thought, closed, broken, cancelled, response>>

WholeCallWithoutId ==
    /\ Receiving /\ answer.delivery = "no_ids_in_turn"
    /\ \E c \in Missing :
         /\ \A d \in Missing : c <= d
         /\ Receive(<<ByNumber(1, WholeCall(c))>>)
         /\ sent' = [sent EXCEPT ![c] = Parts + 1]
    /\ UNCHANGED <<pc, answer, said, thought, closed, broken, cancelled, response>>

\* The closing message: its text counts only if none was streamed.
ClosingMessage ==
    /\ Receiving
    /\ answer.delivery = "message" \/ (answer.repeats /\ Missing = {})
    /\ Receive([c \in Calls |-> At(c, WholeCall(c))])
    /\ Sent({}) /\ closed' = TRUE
    /\ said' = IF answer.text /\ said = 0 THEN TextPieces ELSE said
    /\ UNCHANGED <<pc, answer, thought, broken, cancelled, response>>

Complete ==
    /\ answer.text => said = TextPieces
    /\ answer.thought => thought
    /\ IF answer.delivery = "message" \/ answer.repeats THEN closed ELSE Missing = {}

StreamEnds ==
    /\ pc = "streaming" /\ ~cancelled /\ Complete
    /\ pc' = "parsing"
    /\ UNCHANGED <<answer, sent, said, thought, closed, buffer, broken, cancelled, response>>

\* An exception is swallowed (stream_error): what has arrived is the answer.
StreamBreaks ==
    /\ pc = "streaming" /\ ~cancelled
    /\ broken' = TRUE /\ pc' = "parsing"
    /\ UNCHANGED <<answer, sent, said, thought, closed, buffer, cancelled, response>>

-------------------------------------------------------------------------------
\* The entries of the calls that have a name, in the order of their keys.
Named(entries) ==
    LET named == {k \in DOMAIN entries : entries[k].id # 0}
        Nth(n) == CHOOSE k \in named : Cardinality({j \in named : j < k}) + 1 = n
    IN  [n \in 1..Cardinality(named) |-> entries[Nth(n)]]

\* _respond_chat: parse_tool_calls, then the reasoning in place of a missing
\* text; an answer with neither calls nor text is refused.
Parse ==
    LET named == Named(buffer)
        calls == [k \in DOMAIN named |-> [id |-> named[k].id, keys |-> Decoded(named[k].text)]]
        text == IF said = TextPieces THEN "all"
                ELSE IF said > 0 THEN "part"
                ELSE IF thought THEN "reasoning" ELSE "none"
        valid == /\ \A k \in DOMAIN calls : calls[k].keys # NotJson
                 /\ calls # <<>> \/ text # "none"
    IN  /\ pc = "parsing"
        /\ pc' = IF valid THEN "answer" ELSE "invalid"
        /\ response' = IF valid THEN [calls |-> calls, text |-> text] ELSE response
        /\ UNCHANGED <<answer, sent, said, thought, closed, buffer, broken, cancelled>>

Next ==
    \/ Ask \/ Stop \/ NoticeStop \/ Content \/ Reasoning
    \/ CallsTogether \/ CallInTurn \/ FunctionCall \/ CallInReasoning
    \/ WholeCallsWithoutIds \/ WholeCallWithoutId \/ ClosingMessage
    \/ StreamEnds \/ StreamBreaks \/ Parse

Spec == Init /\ [][Next]_vars

-------------------------------------------------------------------------------
(* Properties                                                                  *)

\* Calls that follow each other in deltas that do not tell them apart.
RunTogether == answer.delivery \in {"in_turn", "no_ids_in_turn"} /\ Len(answer.calls) > 1

Meant(c) == [id |-> c, keys |-> IF answer.calls[c] THEN {c} ELSE {}]

\* Types, and one entry per key in the accumulator (tool_chunks and order).
TypeOK ==
    /\ pc \in {"idle", "streaming", "parsing", "answer", "invalid", "cancelled"}
    /\ answer \in Answers \cup {Silent} /\ said \in 0..TextPieces
    /\ \A c \in Calls : sent[c] \in 0..(Parts + 1)
    /\ \A j, k \in DOMAIN buffer : buffer[j].key = buffer[k].key => j = k
    /\ \A k \in DOMAIN buffer : buffer[k].id \in 0..MaxCalls
    /\ \A k \in DOMAIN response.calls : response.calls[k].keys \subseteq 1..MaxCalls

\* An answer that arrived whole reaches the agent whole: every call with its own
\* arguments, in order, and the text; it is refused only if it is empty or
\* repeats a call without arguments (consume_stream, parse_tool_calls,
\* _respond_chat; not for calls that run together, see CallsStayApart).
WholeAnswerArrives ==
    ~broken /\ ~RunTogether =>
      /\ pc = "answer" =>
           /\ response.calls = [c \in Calls |-> Meant(c)]
           /\ response.text = "all" <=> answer.text
      /\ pc = "invalid" =>
           \/ ~answer.text /\ ~answer.thought /\ answer.calls = <<>>
           \/ answer.repeats /\ \E c \in Calls : ~answer.calls[c]

\* Of an interrupted answer every call that is kept has the arguments the model
\* gave it or none at all, never a part of them, and the kept calls are the first
\* ones (StreamBreaks, _decode_tool_arguments; not for calls that run together).
TruncatedCallsAreWhole ==
    pc = "answer" /\ broken /\ ~RunTogether =>
      \A k \in DOMAIN response.calls :
        /\ response.calls[k].id = k
        /\ response.calls[k].keys \in {Meant(k).keys, {}}

\* "Merge streaming tool call fragments into an ordered accumulator"
\* (response_parser.py:1037): the calls of a whole answer stay apart, those too
\* that follow each other.
CallsStayApart ==
    pc = "answer" /\ ~broken => response.calls = [c \in Calls |-> Meant(c)]

\* A call that is cut off after its head is not run without its arguments.
NoCallLosesItsArguments ==
    pc = "answer" => \A k \in DOMAIN response.calls :
        \A c \in Calls : response.calls[k].id = c => Meant(c).keys \subseteq response.calls[k].keys
===============================================================================
