---------------------------- MODULE DevinRequest ----------------------------
(***************************************************************************)
(* The requests of the Devin channel: the items of a Responses request     *)
(* become the messages of a GetChatMessageRequest.  The provider knows     *)
(* three kinds of message: of the user, of the assistant (text, thoughts   *)
(* and calls together), and the result of a call.  The text of the n-th    *)
(* item is the token n; a client sends the whole dialogue with each turn.  *)
(***************************************************************************)
EXTENDS Integers, Sequences, SequencesExt, FiniteSets

CONSTANTS
    MaxItems,       \* bound on the items of a dialogue
    Emulations      \* settings of the channel, and whether the request has instructions

VARIABLES
    input,      \* the items of the dialogue
    emulation   \* cli: extra.cli_emulation; info: extra.system_info is not off; instructions

devinReqVars == <<input, emulation>>

ItemKinds == {"user", "image", "assistant", "reasoning", "call", "result", "other"}
OfAssistant == {"assistant", "reasoning", "call"}

Message(source, text, thinking, calls) ==
    [source |-> source, text |-> text, thinking |-> thinking, calls |-> calls]
Omitted == 0
SystemInfo == -1
NoMessage == Message(0, <<>>, <<>>, <<>>)

-----------------------------------------------------------------------------
(* input_to_messages: what the assistant said is collected until another     *)
(* speaks.                                                                   *)
flush(a) ==
    IF a.pending = NoMessage THEN a
    ELSE [out |-> Append(a.out, [a.pending EXCEPT !.source = 2]), pending |-> NoMessage]

Say(a, m) == [a EXCEPT !.out = Append(@, m)]

\* A text; what is not text is replaced by a remark that it was left out.
content_text(k, n) == IF k = "image" THEN <<Omitted>> ELSE <<n>>

TakeItem(a, item) ==
    CASE item.k \in {"user", "image"} -> Say(flush(a), Message(1, content_text(item.k, item.n), <<>>, <<>>))
      [] item.k = "assistant" -> [a EXCEPT !.pending.text = @ \o content_text(item.k, item.n)]
      [] item.k = "reasoning" -> [a EXCEPT !.pending.thinking = Append(@, item.n)]
      [] item.k = "call" -> [a EXCEPT !.pending.calls = Append(@, item.n)]
      [] item.k = "result" -> Say(flush(a), Message(4, <<item.n>>, <<>>, <<item.of>>))
      [] item.k = "other" -> a

input_to_messages(its) ==
    flush(FoldLeft(TakeItem, [out |-> <<>>, pending |-> NoMessage], its)).out

-----------------------------------------------------------------------------
(* build_chat_request_ex                                                     *)

\* The environment comes first, unless it is switched off.
render_system_info(e) ==
    IF e.cli /\ e.info THEN <<Message(1, <<SystemInfo>>, <<>>, <<>>)>> ELSE <<>>

\* The instructions follow the prompt of the CLI, or take the place of the
\* default one.
Prompt(e) ==
    IF e.cli THEN <<"cli">> \o (IF e.instructions THEN <<"instructions">> ELSE <<>>)
    ELSE IF e.instructions THEN <<"instructions">> ELSE <<"default">>

\* The ids of the trajectory and of the execution are a hash of the input; it
\* stands for itself, as two inputs have the same hash only if they are equal.
det_uuid(its) == [hash_of |-> its]

build_chat_request_ex(its, e) ==
    LET messages == render_system_info(e) \o input_to_messages(its)
    IN  [prompt |-> Prompt(e),
         messages |-> messages,
         trajectory |-> det_uuid(its),
         step |-> Len(SelectSeq(messages, LAMBDA m : m.source = 2)) + 1]

-----------------------------------------------------------------------------
DevinReqInit == input = <<>> /\ emulation \in Emulations

\* The client and the tools add to the dialogue, which is sent as it stands
\* with the next turn; a result answers a call.
AddItem(k) ==
    /\ Len(input) < MaxItems
    /\ \E of \in IF k = "result" THEN {i \in DOMAIN input : input[i].k = "call"} ELSE {0} :
          input' = Append(input, [k |-> k, n |-> Len(input) + 1, of |-> of])
    /\ UNCHANGED emulation

DevinReqNext == \E k \in ItemKinds : AddItem(k)

DevinReqSpec == DevinReqInit /\ [][DevinReqNext]_devinReqVars

-----------------------------------------------------------------------------
DevinReqTypeOK ==
    /\ emulation \in Emulations /\ Len(input) <= MaxItems
    /\ build_chat_request_ex(input, emulation).step \in 1 .. Len(input) + 1

\* The tokens of a message
TokensIn(m) ==
    Range(m.text) \cup Range(m.thinking) \cup (IF m.source = 2 THEN Range(m.calls) ELSE {})

\* The dialogue keeps its turns: every item is in one message, of the one who
\* spoke; the messages are in the order of the items; what the assistant said
\* without interruption is one message, and two turns are never one, so that
\* a result follows the message with its call and a thought stays with what
\* the assistant said after it.  What the channel adds stands before, and the
\* instructions are last in the prompt.
TurnsKept ==
    LET its == SelectSeq(input, LAMBDA x : x.k # "other")
        ms == SelectSeq(build_chat_request_ex(input, emulation).messages,
                        LAMBDA m : m.text # <<SystemInfo>>)
        heard == {i \in DOMAIN its : its[i].k # "image"}
        Of(i) == {m \in DOMAIN ms : its[i].n \in TokensIn(ms[m])}
        Where(i) == CHOOSE m \in Of(i) : TRUE
    IN  /\ \A i \in heard :
              /\ Cardinality(Of(i)) = 1
              /\ ms[Where(i)].source = CASE its[i].k \in OfAssistant -> 2
                                         [] its[i].k = "result" -> 4
                                         [] its[i].k = "user" -> 1
        /\ \A i, j \in heard : i < j =>
              /\ Where(i) <= Where(j)
              /\ Where(i) = Where(j) <=> \A k \in i .. j : its[k].k \in OfAssistant
        /\ emulation.instructions => Last(build_chat_request_ex(input, emulation).prompt) = "instructions"
        /\ Cardinality({m \in DOMAIN ms : ms[m].text = <<Omitted>>}) = Cardinality(DOMAIN its \ heard)

\* The comment on the derived ids: the requests of a session have the same.
TrajectoryStable ==
    [][input # <<>> => build_chat_request_ex(input', emulation).trajectory
                         = build_chat_request_ex(input, emulation).trajectory]_devinReqVars
=============================================================================
