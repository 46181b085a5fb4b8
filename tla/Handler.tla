------------------------------- MODULE Handler -------------------------------
(***************************************************************************)
(* One POST /v1/chat/completions through Handler.chatCompletions          *)
(* (internal/api/handler.go): body read, redaction, the choice between    *)
(* the tool-simulation, streaming and buffered paths, the upstream call   *)
(* and what each path writes back -- status, body and the                 *)
(* X-Sanitize-Redactions header.                                           *)
(*                                                                         *)
(* The request is abstracted to the fields the handler and the tool-sim   *)
(* rewriter decode.  The TokenMap the sanitizer returns is any map the    *)
(* Sanitize module can produce: ids to distinct originals.  Bodies that   *)
(* come back are JSON texts over a small byte alphabet: "{", "}", ":",    *)
(* the quote Q, the backslash BS, a letter a, and the placeholder of each *)
(* id ("T1", "T2", "T3") as one unit.  Originals are decoded JSON strings, so   *)
(* they may hold a raw Q or BS.                                            *)
(***************************************************************************)
EXTENDS Naturals, Sequences, FiniteSets

CONSTANTS
    Ids,            \* the ids the global counter may hand this request
    Originals,      \* decoded values a classifier may flag
    ReplyBodies,    \* JSON bodies the upstream may answer with
    Statuses        \* upstream HTTP statuses, as strings

VARIABLES
    config,   \* SANITIZE and SIMULATE_TOOL_CALLS, fixed at startup (main.go)
    stage,    \* where chatCompletions is
    req,      \* the decoded request
    tm,       \* the TokenMap of the request; present = FALSE is a nil map
    reply,    \* what client.Do / DoStream returned
    resp      \* what the client receives

vars == <<config, stage, req, tm, reply, resp>>

Tok(i) == CASE i = 1 -> "T1" [] i = 2 -> "T2" [] i = 3 -> "T3"

ASSUME HandlerAssumption ==
    /\ Ids \subseteq {1, 2, 3}
    /\ Statuses \subseteq {"200", "400", "500"}
    /\ \A o \in Originals : o \in Seq({"a", "Q", "BS"}) /\ o # <<>>

(***************************************************************************)
(* Requests: a JSON object or not; its "tools" member absent, not an      *)
(* array, [], an array of objects or of non-objects; its "messages" an    *)
(* array of objects or not; its "stream" flag.                            *)
(***************************************************************************)
Requests ==
    [json : {TRUE}, tools : {"absent", "notArray", "empty", "objects", "nonObjects"},
     messages : {"ok", "bad"}, stream : BOOLEAN]
    \cup {[json |-> FALSE, tools |-> "absent", messages |-> "ok", stream |-> FALSE]}

(* toolsim.NeedsSimulation: the body decodes and "tools" is a non-empty  *)
(* array (of anything: the peek decodes raw elements).                    *)
NeedsSimulation(r) == r.json /\ r.tools \in {"objects", "nonObjects"}

(* toolsim.RewriteRequest fails when "tools" is not a []Tool or          *)
(* "messages" not a []Message; it succeeds otherwise.                     *)
RewriteFails(r) == r.tools = "nonObjects" \/ r.messages = "bad"

(* The handler's stream peek: a non-JSON body, or a body whose "stream"  *)
(* is absent or not a bool, reads as false.                                *)
PeekStream(r) == r.json /\ r.stream

(* The TokenMaps of a request: register gives distinct originals         *)
(* distinct ids.                                                           *)
NilMap == [present |-> FALSE, map |-> <<>>]
TokenMaps ==
    {[present |-> TRUE, map |-> f] :
        f \in UNION {{g \in [D -> Originals] :
                        \A i, j \in D : i # j => g[i] # g[j]} : D \in SUBSET Ids}}

IsEmpty(m) == ~m.present \/ DOMAIN m.map = {}

(***************************************************************************)
(* TokenMap.Restore on a body: every placeholder of the map replaced by  *)
(* its original, byte for byte (strings.ReplaceAll per entry; the         *)
(* originals hold no placeholder, so the order does not matter).          *)
(***************************************************************************)
RECURSIVE RestoreSeq(_, _)
RestoreSeq(s, m) ==
    IF s = <<>> THEN <<>>
    ELSE (IF \E i \in DOMAIN m : Tok(i) = Head(s)
          THEN m[CHOOSE i \in DOMAIN m : Tok(i) = Head(s)]
          ELSE <<Head(s)>>) \o RestoreSeq(Tail(s), m)

(* Sanitizer.RestoreBytes: a nil or empty map leaves the body as it is. *)
RestoreBytes(body, m) == IF IsEmpty(m) THEN body ELSE RestoreSeq(body, m.map)

(***************************************************************************)
(* TokenMap.Redactions: the map's entries in Go's iteration order        *)
(* (any order), then sorted by an insertion sort on the token.  Token    *)
(* strings are «TOKEN_%06d», so below a million ids their string order is *)
(* the order of the ids.                                                   *)
(***************************************************************************)
Orders(D) == {o \in [1..Cardinality(D) -> D] : \A i, j \in DOMAIN o : i # j => o[i] # o[j]}

Swap(s, i, j) == [s EXCEPT ![i] = s[j], ![j] = s[i]]

(* Mutant: the inner loop stops one position early (j > 1 for j > 0). *)
RECURSIVE SiftStoppingEarly(_, _)
SiftStoppingEarly(s, j) ==
    IF j > 2 /\ s[j].token < s[j - 1].token THEN SiftStoppingEarly(Swap(s, j, j - 1), j - 1) ELSE s

(* for j := i; j > 0 && out[j].Token < out[j-1].Token; j-- { swap }      *)
RECURSIVE Sift(_, _)
Sift(s, j) ==
    IF j > 1 /\ s[j].token < s[j - 1].token THEN Sift(Swap(s, j, j - 1), j - 1) ELSE s

RECURSIVE InsertionSort(_, _)
InsertionSort(s, i) == IF i > Len(s) THEN s ELSE InsertionSort(Sift(s, i), i + 1)

Redactions(m, order) ==
    InsertionSort([k \in DOMAIN order |-> [token |-> order[k], original |-> m[order[k]]]], 2)

(***************************************************************************)
(* Bodies.  A reply is an object {"a": v} whose v is a JSON string or, for *)
(* the tool-sim envelope, another such object.                             *)
(***************************************************************************)
Key == <<"{", "Q", "a", "Q", ":">>
Wrap(str) == Key \o <<"Q">> \o str \o <<"Q", "}">>

(* ParseResponse either returns the reply as it is or moves its text into *)
(* the tool_calls envelope; the placeholder bytes are kept either way.    *)
ParseOutcomes(b) == {b, Key \o b \o <<"}">>}

(* writeErr: {"error": msg}, encoded by json.Encoder. *)
ErrBody == Wrap(<<"a">>)

RECURSIVE StrOK(_)
StrOK(s) ==
    IF s = <<>> THEN TRUE
    ELSE CASE Head(s) = "Q"  -> FALSE
           [] Head(s) = "BS" -> Len(s) >= 2 /\ s[2] \in {"Q", "BS"} /\ StrOK(Tail(Tail(s)))
           [] OTHER          -> StrOK(Tail(s))

RECURSIVE IsJSON(_)
IsJSON(b) ==
    /\ Len(b) >= 7 /\ SubSeq(b, 1, 5) = Key /\ b[Len(b)] = "}"
    /\ LET v == SubSeq(b, 6, Len(b) - 1) IN
         \/ Len(v) >= 2 /\ v[1] = "Q" /\ v[Len(v)] = "Q" /\ StrOK(SubSeq(v, 2, Len(v) - 1))
         \/ IsJSON(v)

(***************************************************************************)
(* Upstream outcomes and responses.                                       *)
(***************************************************************************)
TransportError == [err |-> TRUE, status |-> "none", body |-> <<>>]
Replies == [err : {FALSE}, status : Statuses, body : ReplyBodies]
NoReply == [err |-> FALSE, status |-> "none", body |-> <<>>]

Failed(st) == st \in {"400", "500"}

Response(path, st, body) == [path |-> path, status |-> st, body |-> body, hdr |-> FALSE, list |-> <<>>]
NoResp == Response("none", "none", <<>>)

(* writeErr(w, status, msg) *)
WriteErr(st) == Response("error", st, ErrBody)

(* setSanitizeHeader: the header only for a non-nil, non-empty map. *)
SetSanitizeHeader(r, order) ==
    IF IsEmpty(tm) THEN r ELSE [r EXCEPT !.hdr = TRUE, !.list = Redactions(tm.map, order)]

(* Mutant: the tool-sim result written without restoration. *)
ToolSimResponseUnrestored(r, parsed, order) ==
    IF r.err THEN WriteErr("502")
    ELSE IF Failed(r.status) THEN Response("toolsim", r.status, r.body)
    ELSE SetSanitizeHeader(Response("toolsim", "200", parsed), order)

(* toolSimResponse after client.Do: 502 on a transport error, the body  *)
(* as it came for a status >= 400, else ParseResponse, restore, header, *)
(* 200.                                                                    *)
ToolSimResponse(r, parsed, order) ==
    IF r.err THEN WriteErr("502")
    ELSE IF Failed(r.status) THEN Response("toolsim", r.status, r.body)
    ELSE SetSanitizeHeader(Response("toolsim", "200", RestoreBytes(parsed, tm)), order)

(* nonStreamResponse: 502 on a transport error, else restore, header and *)
(* the upstream status, whatever it is.                                   *)
BufferedResponse(r, order) ==
    IF r.err THEN WriteErr("502")
    ELSE SetSanitizeHeader(Response("buffered", r.status, RestoreBytes(r.body, tm)), order)

(* streamResponse: 502 on a transport error, the error body read whole   *)
(* and passed on for a status >= 400, else the header, 200 and the body  *)
(* copied through NewRestoringReader (the RestoringReader module).        *)
StreamResponse(r, order) ==
    IF r.err THEN WriteErr("502")
    ELSE IF Failed(r.status) THEN Response("stream", r.status, r.body)
    ELSE SetSanitizeHeader(Response("stream", "200", r.body), order)

(***************************************************************************)
(* The handler.                                                            *)
(***************************************************************************)
Init ==
    /\ config \in [sanitize : BOOLEAN, toolsim : BOOLEAN]
    /\ stage = "start"
    /\ req \in Requests
    /\ tm = NilMap
    /\ reply = NoReply
    /\ resp = NoResp

(* io.ReadAll(r.Body): a read error answers 400. *)
ReadBody ==
    /\ stage = "start"
    /\ \/ stage' = "read" /\ UNCHANGED resp
       \/ stage' = "done" /\ resp' = WriteErr("400")
    /\ UNCHANGED <<config, req, tm, reply>>

(* RedactMessages when a sanitizer is configured; tm stays nil otherwise. *)
Redact ==
    /\ stage = "read"
    /\ stage' = "redacted"
    /\ IF config.sanitize THEN tm' \in TokenMaps ELSE tm' = NilMap
    /\ UNCHANGED <<config, req, reply, resp>>

(* The tool-sim check first, then the stream peek. *)
Route ==
    /\ stage = "redacted"
    /\ stage' = IF config.toolsim /\ NeedsSimulation(req) THEN "toolsim"
                ELSE IF PeekStream(req) THEN "stream" ELSE "buffered"
    /\ UNCHANGED <<config, req, tm, reply, resp>>

(* RewriteRequest; its error answers 400. *)
Rewrite ==
    /\ stage = "toolsim"
    /\ IF RewriteFails(req)
       THEN stage' = "done" /\ resp' = WriteErr("400")
       ELSE stage' = "toolsimCall" /\ UNCHANGED resp
    /\ UNCHANGED <<config, req, tm, reply>>

Upstream(path, R(_, _, _)) ==
    /\ stage = path
    /\ stage' = "done"
    /\ \E r \in Replies \cup {TransportError}, order \in Orders(DOMAIN tm.map) :
         /\ reply' = r
         /\ \E parsed \in ParseOutcomes(r.body) : resp' = R(r, parsed, order)
    /\ UNCHANGED <<config, req, tm>>

ToolSimCall == Upstream("toolsimCall", ToolSimResponse)
Buffered == Upstream("buffered", LAMBDA r, parsed, order : BufferedResponse(r, order))
Stream == Upstream("stream", LAMBDA r, parsed, order : StreamResponse(r, order))

Next == ReadBody \/ Redact \/ Route \/ Rewrite \/ ToolSimCall \/ Buffered \/ Stream

Spec == Init /\ [][Next]_vars

(***************************************************************************)
(* Properties                                                              *)
(***************************************************************************)
FromUpstream == resp.path \in {"buffered", "toolsim", "stream"}

(* No placeholder of the request reaches the client in a successful      *)
(* buffered or tool-simulated response: each path restores the body it   *)
(* writes (streamed bodies are the RestoringReader module's concern).    *)
NoPlaceholderLeak ==
    resp.path \in {"buffered", "toolsim"} /\ ~Failed(resp.status)
        => \A i \in DOMAIN tm.map : \A k \in DOMAIN resp.body : resp.body[k] # Tok(i)

(* A response to a successful upstream call on any path carries the      *)
(* X-Sanitize-Redactions header exactly when something was redacted, and *)
(* it lists every {token, original} pair once, ascending by token,       *)
(* whatever order the map iteration in Redactions produced.               *)
HeaderAsSpecified ==
    FromUpstream /\ ~Failed(resp.status) =>
        /\ resp.hdr <=> ~IsEmpty(tm)
        /\ resp.hdr =>
             /\ {resp.list[k] : k \in DOMAIN resp.list}
                  = {[token |-> i, original |-> tm.map[i]] : i \in DOMAIN tm.map}
             /\ \A k \in 1..(Len(resp.list) - 1) : resp.list[k].token < resp.list[k + 1].token

(* The placeholder form round-trips through JSON encoding (spec 6): a    *)
(* JSON reply is still JSON once its placeholders are restored.           *)
RestoredBodyIsJSON ==
    resp.path \in {"buffered", "toolsim"} /\ IsJSON(reply.body) => IsJSON(resp.body)

================================================================================
