------------------------------- MODULE ToolSim -------------------------------
(***************************************************************************)
(* The response half of the tool-call simulator (internal/toolsim): the    *)
(* parser that turns the model's text reply into tool calls               *)
(* (extractToolCalls, stripCodeFences) and ParseResponse, which rewrites  *)
(* the upstream chat reply around them.                                   *)
(*                                                                         *)
(* The model's reply text is a sequence of lexical tokens rather than     *)
(* bytes.  A token is a JSON punctuation mark, a JSON string literal, a   *)
(* number, null, a space, a newline, a markdown fence or a word of plain   *)
(* text.  Substring searches of the code (strings.Index of "[", the        *)
(* LastIndex of "]" and of the fence) are searches for a token, and the   *)
(* grammar below is the part of encoding/json's grammar these tokens can  *)
(* form, so a slice of the reply parses exactly when the bytes would.     *)
(***************************************************************************)
EXTENDS Naturals, Sequences, FiniteSets

CONSTANTS
    DeclaredTools,  \* the function names of the request's "tools" array
    Replies         \* the upstream replies considered (see ParseResponse)

VARIABLES
    reply,          \* the buffered upstream body handed to ParseResponse
    out             \* what ParseResponse returns, or Pending before it runs

vars == <<reply, out>>

(* JSON string literals: the keys "name", "arguments" and "x", and the    *)
(* function names "f", "g" and "z".                                       *)
StrTok == {"Kname", "Karguments", "Kx", "Sf", "Sg", "Sz"}
StrVal == [t \in StrTok |-> CASE t = "Kname" -> "name"
                              [] t = "Karguments" -> "arguments"
                              [] t = "Kx" -> "x"
                              [] t = "Sf" -> "f"
                              [] t = "Sg" -> "g"
                              [] t = "Sz" -> "z"]
Space == {"SP", "NL"}           \* what strings.TrimSpace and JSON skip
Fence == "FENCE"                \* the three backquotes of a markdown fence
Punct == {"[", "]", "{", "}", ",", ":"}
Token == StrTok \cup Space \cup Punct \cup {Fence, "num", "null", "lang", "word"}

ASSUME ToolSimAssumption == DeclaredTools \subseteq {StrVal[t] : t \in StrTok}

(***************************************************************************)
(* encoding/json.  A parsed value is a record of its kind; an object keeps *)
(* its members in order, each with the raw tokens of its value (what a    *)
(* json.RawMessage field receives).  The parser returns the position      *)
(* after the value, or ok = FALSE on a syntax error.                      *)
(***************************************************************************)
Leaf(kind, s) == [t |-> kind, items |-> <<>>, mem |-> <<>>, s |-> s]
Bad == [ok |-> FALSE, next |-> 0, v |-> Leaf("null", "")]
Ok(n, v) == [ok |-> TRUE, next |-> n, v |-> v]

RECURSIVE SkipSpace(_, _)
SkipSpace(s, i) == IF i <= Len(s) /\ s[i] \in Space THEN SkipSpace(s, i + 1) ELSE i

RECURSIVE PValue(_, _), PArray(_, _, _), PObject(_, _, _)
PValue(s, i) ==
    LET j == SkipSpace(s, i) IN
    IF j > Len(s) THEN Bad
    ELSE CASE s[j] = "["     -> PArray(s, j + 1, <<>>)
           [] s[j] = "{"     -> PObject(s, j + 1, <<>>)
           [] s[j] \in StrTok -> Ok(j + 1, Leaf("str", StrVal[s[j]]))
           [] s[j] = "num"   -> Ok(j + 1, Leaf("num", ""))
           [] s[j] = "null"  -> Ok(j + 1, Leaf("null", ""))
           [] OTHER          -> Bad

(* Elements after "[" or ","; "]" closes only an empty array or follows  *)
(* an element.                                                             *)
PArray(s, i, items) ==
    LET j == SkipSpace(s, i) IN
    IF items = <<>> /\ j <= Len(s) /\ s[j] = "]"
    THEN Ok(j + 1, Leaf("arr", ""))
    ELSE LET e == PValue(s, j)
             k == SkipSpace(s, e.next)
         IN IF ~e.ok \/ k > Len(s) THEN Bad
            ELSE IF s[k] = "," THEN PArray(s, k + 1, Append(items, e.v))
            ELSE IF s[k] = "]"
                 THEN Ok(k + 1, [Leaf("arr", "") EXCEPT !.items = Append(items, e.v)])
            ELSE Bad

PObject(s, i, mem) ==
    LET j == SkipSpace(s, i)
        c == SkipSpace(s, j + 1)
        e == PValue(s, c + 1)
        k == SkipSpace(s, e.next)
        m == [k |-> s[j], v |-> e.v, raw |-> SubSeq(s, SkipSpace(s, c + 1), e.next - 1)]
    IN IF mem = <<>> /\ j <= Len(s) /\ s[j] = "}"
       THEN Ok(j + 1, Leaf("obj", ""))
       ELSE IF j > Len(s) \/ s[j] \notin StrTok THEN Bad
       ELSE IF c > Len(s) \/ s[c] # ":" THEN Bad
       ELSE IF ~e.ok \/ k > Len(s) THEN Bad
       ELSE IF s[k] = "," THEN PObject(s, k + 1, Append(mem, m))
       ELSE IF s[k] = "}" THEN Ok(k + 1, [Leaf("obj", "") EXCEPT !.mem = Append(mem, m)])
       ELSE Bad

(* json.Unmarshal accepts one value and nothing after it but space.       *)
Unmarshal(s) ==
    LET r == PValue(s, 1) IN
    IF r.ok /\ SkipSpace(s, r.next) > Len(s) THEN r ELSE Bad

(***************************************************************************)
(* Decoding into the code's struct {Name string; Arguments RawMessage}.   *)
(* null decodes to the zero struct; a "name" that is neither a string nor *)
(* null is a type error, and a null "name" leaves the field as it was;    *)
(* the last "arguments" member gives the raw value.                       *)
(***************************************************************************)
StructOK(v) ==
    \/ v.t = "null"
    \/ v.t = "obj" /\ \A i \in DOMAIN v.mem :
                        v.mem[i].k = "Kname" => v.mem[i].v.t \in {"str", "null"}

LastMember(v, key, kinds) ==
    LET is == {i \in DOMAIN v.mem : v.mem[i].k = key /\ v.mem[i].v.t \in kinds}
    IN IF is = {} THEN 0 ELSE CHOOSE i \in is : \A j \in is : j <= i

CallOf(v) ==
    LET n == LastMember(v, "Kname", {"str"})
        a == LastMember(v, "Karguments", {"arr", "obj", "str", "num", "null"})
    IN [name |-> IF n = 0 THEN "" ELSE v.mem[n].v.s,
        args |-> IF a = 0 THEN <<>> ELSE v.mem[a].raw]

(* json.Unmarshal(content, &calls): a JSON array (or null) of call objects. *)
DecodeCalls(s) ==
    LET r == Unmarshal(s) IN
    IF r.ok /\ r.v.t \in {"arr", "null"} /\ \A i \in DOMAIN r.v.items : StructOK(r.v.items[i])
    THEN [ok |-> TRUE, calls |-> [i \in DOMAIN r.v.items |-> CallOf(r.v.items[i])]]
    ELSE [ok |-> FALSE, calls |-> <<>>]

(* json.Unmarshal(content, &single): one call object.                    *)
DecodeSingle(s) ==
    LET r == Unmarshal(s) IN
    [ok |-> r.ok /\ StructOK(r.v), call |-> CallOf(r.v)]

(***************************************************************************)
(* The strings functions the parser uses, on tokens.                      *)
(***************************************************************************)
IndexOf(s, x) ==
    LET is == {i \in DOMAIN s : s[i] = x}
    IN IF is = {} THEN 0 ELSE CHOOSE i \in is : \A j \in is : i <= j

LastIndexOf(s, x) ==
    LET is == {i \in DOMAIN s : s[i] = x}
    IN IF is = {} THEN 0 ELSE CHOOSE i \in is : \A j \in is : j <= i

TrimSpace(s) ==
    LET keep == {i \in DOMAIN s : s[i] \notin Space}
    IN IF keep = {} THEN <<>>
       ELSE SubSeq(s, CHOOSE i \in keep : \A j \in keep : i <= j,
                      CHOOSE i \in keep : \A j \in keep : j <= i)

(***************************************************************************)
(* The parser of toolsim.go.                                              *)
(***************************************************************************)
(* Mutant: only a missing "arguments" member coerced, a null one kept.   *)
CoerceMissingOnly(raw) == IF raw = <<>> THEN <<"{", "}">> ELSE raw

(* Missing or null arguments become the empty object "{}".                *)
CoerceArgs(raw) == IF raw \in {<<>>, <<"null">>} THEN <<"{", "}">> ELSE raw

(* The calls of a declared function, in order, with arguments coerced.    *)
Kept(calls) ==
    LET keep == SelectSeq(calls, LAMBDA c : c.name \in DeclaredTools)
    IN [i \in DOMAIN keep |-> [name |-> keep[i].name, args |-> CoerceArgs(keep[i].args)]]

(* Drop the fence line and everything from the last fence on.            *)
stripCodeFences(s) ==
    IF Len(s) > 0 /\ s[1] = Fence
    THEN LET nl == IndexOf(s, "NL")
             s1 == IF nl > 0 THEN SubSeq(s, nl + 1, Len(s)) ELSE s
             idx == LastIndexOf(s1, Fence)
         IN IF idx > 0 THEN SubSeq(s1, 1, idx - 1) ELSE s1
    ELSE s

(* (a) the whole reply as an array, when it keeps a call; (b) the text   *)
(* from the first "[" to the last "]" as an array; (c) the whole reply as *)
(* one call object.                                                        *)
extractToolCalls(content) ==
    LET c     == TrimSpace(stripCodeFences(TrimSpace(content)))
        a     == DecodeCalls(c)
        start == IndexOf(c, "[")
        end   == LastIndexOf(c, "]")
        b     == DecodeCalls(SubSeq(c, start, end))
        one   == DecodeSingle(c)
    IN IF a.ok /\ a.calls # <<>> /\ Kept(a.calls) # <<>> THEN Kept(a.calls)
       ELSE IF start > 0 /\ end > start /\ b.ok /\ b.calls # <<>> THEN Kept(b.calls)
       ELSE IF one.ok /\ one.call.name # "" /\ one.call.name \in DeclaredTools
            THEN <<[name |-> one.call.name, args |-> CoerceArgs(one.call.args)]>>
       ELSE <<>>

(***************************************************************************)
(* ParseResponse.  An upstream reply is abstracted to how each of the     *)
(* fields the code reads decodes: whether the body is a JSON object, the  *)
(* "choices" member (absent, null, not an array of objects, [], or a      *)
(* first choice), that choice's "message" (absent or null, not an object, *)
(* an object) and its "content" (absent or null, not a string, a string   *)
(* whose text is the token sequence "text").                               *)
(***************************************************************************)
Outcome(kind, calls) == [kind |-> kind, calls |-> calls]

ParseResponse(r) ==
    IF ~r.json \/ r.choices \in {"null", "invalid", "empty"} THEN Outcome("unchanged", <<>>)
    ELSE IF r.choices = "absent" THEN Outcome("panic", <<>>)      \* choices[0] of a nil slice
    ELSE IF r.message = "invalid" \/ r.content = "invalid" THEN Outcome("unchanged", <<>>)
    ELSE LET text  == IF r.message = "object" /\ r.content = "string" THEN r.text ELSE <<>>
             calls == extractToolCalls(text)
         IN IF calls = <<>> THEN Outcome("unchanged", <<>>) ELSE Outcome("toolCalls", calls)

(***************************************************************************)
(* The handler's tool-sim path (handler.go 169) hands a successful        *)
(* upstream body to ParseResponse; it does so once and returns.           *)
(***************************************************************************)
Pending == Outcome("pending", <<>>)

Init == reply \in Replies /\ out = Pending

Parse == out = Pending /\ out' = ParseResponse(reply) /\ UNCHANGED reply

Next == Parse

Spec == Init /\ [][Next]_vars

(***************************************************************************)
(* The parser as spec 4.7 describes it: strip the fences, then take the   *)
(* first of (a) the reply as a JSON array, (b) the text from the first    *)
(* "[" to the last "]" as an array, (c) the reply as one object, that     *)
(* yields a call of a declared function; keep the declared calls and      *)
(* coerce missing or null arguments to "{}".                              *)
(***************************************************************************)
SpecUnfenced(t) ==
    LET u     == TrimSpace(t)
        open  == IndexOf(u, "NL")
        inner == IF open > 0 THEN SubSeq(u, open + 1, Len(u)) ELSE u
        close == LastIndexOf(inner, Fence)
    IN CASE u = <<>> \/ u[1] # Fence -> u
         [] close = 0                -> inner
         [] OTHER                    -> SubSeq(inner, 1, close - 1)

SpecCalls(calls) ==
    LET declared == {i \in DOMAIN calls : calls[i].name \in DeclaredTools}
        n        == Cardinality(declared)
        pos[k \in 1..n] == CHOOSE i \in declared :
                             Cardinality({j \in declared : j < i}) = k - 1
    IN [k \in 1..n |-> [name |-> calls[pos[k]].name,
                        args |-> IF calls[pos[k]].args = <<>> \/ calls[pos[k]].args = <<"null">>
                                 THEN <<"{", "}">> ELSE calls[pos[k]].args]]

SpecToolCalls(text) ==
    LET c     == TrimSpace(SpecUnfenced(text))
        first == IndexOf(c, "[")
        last  == LastIndexOf(c, "]")
        da    == DecodeCalls(c)
        db    == DecodeCalls(SubSeq(c, first, last))
        dc    == DecodeSingle(c)
        A     == IF da.ok THEN SpecCalls(da.calls) ELSE <<>>
        B     == IF first > 0 /\ last > first /\ db.ok THEN SpecCalls(db.calls) ELSE <<>>
        C     == IF dc.ok THEN SpecCalls(<<dc.call>>) ELSE <<>>
    IN IF A # <<>> THEN A ELSE IF B # <<>> THEN B ELSE C

(* The assistant's text as the code reads it: "" unless the first choice *)
(* has a message object with a string content.                            *)
ReplyText(r) ==
    IF r.json /\ r.choices = "first" /\ r.message = "object" /\ r.content = "string"
    THEN r.text ELSE <<>>

CallsOut == IF out.kind = "toolCalls" THEN out.calls ELSE <<>>

(* The model answered with one JSON object rather than an array or text. *)
ObjectReply(text) ==
    LET r == Unmarshal(TrimSpace(SpecUnfenced(text))) IN r.ok /\ r.v.t = "obj"

(***************************************************************************)
(* Properties                                                              *)
(***************************************************************************)

(* A reply in the form the injected system prompt asks for -- a JSON      *)
(* array of calls, fenced or not, alone or inside text, or plain text --  *)
(* is turned by ParseResponse into exactly the declared calls spec 4.7    *)
(* prescribes, in order and with arguments coerced; no call means the     *)
(* body is returned unchanged.                                             *)
ArrayRepliesAsSpecified ==
    out # Pending /\ ~ObjectReply(ReplyText(reply))
        => CallsOut = SpecToolCalls(ReplyText(reply))

(* Every reply, a single call object included, yields the calls spec 4.7 *)
(* prescribes (extractToolCalls, toolsim.go 347-382).                      *)
ToolCallsAsSpecified ==
    out # Pending => CallsOut = SpecToolCalls(ReplyText(reply))

(* A reply ParseResponse cannot turn into tool calls is returned to the  *)
(* client unchanged (spec section 6, "tool-sim parse failure"): the      *)
(* handler never dies in ParseResponse.                                   *)
ParseFailureReturnsBody == out.kind # "panic"

================================================================================
