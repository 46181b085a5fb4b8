------------------------------ MODULE MC_ToolSim ------------------------------
(***************************************************************************)
(* Replies for ToolSim: every JSON shape a model may answer with, in     *)
(* every wrapping the parser handles, and the malformed upstream bodies.  *)
(***************************************************************************)
EXTENDS ToolSim

(* f and g are declared; z is a function the request did not declare.   *)
MCDeclaredTools == {"f", "g"}

(* Values of "arguments": absent, null, {}, {"x":1}, and objects holding *)
(* an array of a call-shaped object, of a plain object, of a number.      *)
ArgValues ==
    { <<>>, <<"null">>, <<"{", "}">>, <<"{", "Kx", ":", "num", "}">>,
      <<"{", "Kx", ":", "[", "{", "Kname", ":", "Sf", "}", "]", "}">>,
      <<"{", "Kx", ":", "[", "{", "Kx", ":", "num", "}", "]", "}">>,
      <<"{", "Kx", ":", "[", "num", "]", "}">> }

CallObj(n, a) ==
    <<"{", "Kname", ":", n>>
    \o (IF a = <<>> THEN <<>> ELSE <<",", "Karguments", ":">> \o a)
    \o <<"}">>

(* Call objects, an object without a name, one whose name is a number.   *)
Objects ==
    {CallObj(n, a) : n \in {"Sf", "Sg", "Sz"}, a \in ArgValues}
    \cup {<<"{", "Kx", ":", "num", "}">>, <<"{", "Kname", ":", "num", "}">>}

Small == {CallObj(n, a) : n \in {"Sg", "Sz"}, a \in {<<>>, <<"null">>}} \cup {<<"null">>}

Arrays ==
    {<<"[", "]">>, <<"[", "num", "]">>}
    \cup {<<"[">> \o o \o <<"]">> : o \in Objects}
    \cup {<<"[">> \o o1 \o <<",", "SP">> \o o2 \o <<"]">> : o1, o2 \in Small}

Json == Objects \cup Arrays \cup {<<"num">>, <<"null">>}

(* Bare, fenced, inside text, padded with space, fenced on one line, and *)
(* followed by text holding a bracket.                                     *)
Wrapped(j) ==
    { j,
      <<Fence, "lang", "NL">> \o j \o <<"NL", Fence>>,
      <<"word", "SP">> \o j \o <<"SP", "word">>,
      <<"NL">> \o j \o <<"SP">>,
      <<Fence>> \o j \o <<Fence>>,
      j \o <<"SP", "word", "SP", "[", "word", "]">> }

Texts == UNION {Wrapped(j) : j \in Json} \cup {<<>>, <<"word">>, <<"SP", "word", "NL">>}

TextReply(t) == [json |-> TRUE, choices |-> "first", message |-> "object",
                 content |-> "string", text |-> t]

Malformed ==
    {[TextReply(<<>>) EXCEPT !.json = FALSE]}
    \cup {[TextReply(<<>>) EXCEPT !.choices = c] : c \in {"absent", "null", "invalid", "empty"}}
    \cup {[TextReply(<<>>) EXCEPT !.message = m] : m \in {"absent", "invalid"}}
    \cup {[TextReply(<<>>) EXCEPT !.content = c] : c \in {"absent", "invalid"}}

MCReplies == {TextReply(t) : t \in Texts} \cup Malformed
================================================================================
