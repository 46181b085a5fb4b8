# Formal models of the sanitizing Gonka proxy

TLA+ models of the Go gateway under `src/`. The gateway redacts sensitive values from
chat requests before they leave the machine, signs the requests and dispatches them to
whitelisted inference nodes. It then restores the values in the response, buffered or
streamed. The modules below are checked with TLC on small instances, and the placeholder
map's invariants are proved with TLAPS for every instance.

## 1. The system and its parts

| Part | Source | What it does | State |
|---|---|---|---|
| TokenMap | `internal/sanitize/sanitize.go` 26-94 | per-request map original <-> `«TOKEN_%06d»`, with ids from one process-wide atomic counter | `globalCounter`, `toToken`, `fromToken` of each live request |
| Sanitizer core | `sanitize.go` 96-386 | `RedactMessages`: picks the texts of a body, fans each out to the classifiers under a 120 s deadline, validates, sorts and deduplicates spans, splices placeholders in right to left | per request: the text being redacted, pending classifiers, spans received, spans to apply |
| Classifier plugins | `llmclassifier/llmclassifier.go`, `ner/ner.go` | NER sidecar returns offsets; the LLM returns strings, which are searched in the text | stateless; HTTP calls that may fail or hang |
| Streaming restorer | `sanitize/stream.go` | `RestoringReader.Read` restores placeholders in an SSE stream while holding back a 20-byte tail | `buf`, `srcEOF` |
| Request handler | `internal/api/handler.go` 96-255 | reads the body, redacts, routes to tool simulation, buffered or streamed path, restores, writes | per request |
| Upstream dispatcher | `internal/upstream/client.go` | discovers whitelisted endpoints once, then `Do`/`DoStream` run up to 3 attempts on endpoints not tried yet | `endpoints` (under an RWMutex) |
| Wallet pool | `handler.go` 309-360 (package `wallet`) | atomic round robin over wallets | `counter` (atomic uint64) |
| Signer | `internal/signer/signer.go` | deterministic ECDSA secp256k1 signature (RFC 6979), low-S | none |
| Tool-call simulator | `internal/toolsim/toolsim.go` | rewrites `tools` into a system prompt and parses JSON tool calls back from the model's text | none (pure) |

How the parts interact for one request (`chatCompletions`): the body is redacted, which
creates a TokenMap and takes ids from the shared counter. The handler then calls `Do`
(buffered, tool simulation) or `DoStream`. Every attempt takes the next wallet and signs.
The response is restored: with `RestoreBytes` when buffered, or through the
`RestoringReader` that wraps the upstream body when streamed. Many requests run at once.
Their TokenMaps are separate, but they share the id counter, the wallet counter and the
endpoint list. Inside one request, the classifiers of each text run as concurrent goroutines.

## 2. Modules

* `Placeholders.tla`: the abstract bytes and the placeholder text. A word-boundary byte
  is `"_"` (whitespace) or `","`, and a UTF-8 character is a lead byte followed by a
  continuation byte. `Placeholder(n)` stands for `«TOKEN_%06d»`. The module also defines
  the `«TOKEN_\d+»` regular expression (`PlaceholderAt`), `strings.ReplaceAll`, and every
  iteration order of a Go map.
* `TokenMap.tla`: `newTokenMap` (`Begin`) and `register` (`Register`), for request
  slots that run concurrently and share `counter`. `Restore` has one outcome per map
  iteration order (`RestoreOutcomes`).
* `Sanitize.tla`: the whole of `RedactMessages` for concurrent requests. It EXTENDS
  `TokenMap`, and `Original` is the set of texts (`OriginalAssumption`). So the requests
  share `TokenMap`'s variables and its `Register` action, and they meet only at the global
  counter. Its actions:
  * `Arrive` is a new request: a fresh map, then the first text.
  * `Deliver(r, c)` is classifier `c`'s goroutine returning its spans. Its result is a
    nondeterministic choice among the given replies and "none" (error, non-200 status).
    For the LLM the reply is a list of strings, turned into spans by the code's search
    loop (`LLMSpans`).
  * `EndCollect` is the collecting loop ending, because every result is in or because
    the deadline fires at any point. It computes `validSpans` -> `sortSpansDesc` ->
    `deduplicateSpans`.
  * `ApplySpan` is one iteration of the splice loop, `register` included.
  * `NextText` moves to the next text.

  A body is the list of its texts. Each text is marked by whether it belongs to the last
  user message (`Work`). JSON decoding and re-encoding is layout and is left out. A
  non-JSON body is a single text.
* `RestoringReader.tla`: one step is one iteration of `streamResponse`'s copy loop: one
  `Read(p)` and the write of what it returned. Bytes here are real bytes, and a
  placeholder is its 16 bytes. `Read` compares byte counts (`holdBack = 20`), so the
  abstraction of `Placeholders` would be unfaithful here. `src.Read` returns any
  1..2·len(p) next bytes, with or without EOF. It can also return 0..2·len(p) bytes
  together with an error (`ReadError(n)`). `Read` then returns 0 and the error, and the
  handler stops. Those n bytes are taken from the upstream (`pos` moves past them) and
  are never sent.
* `Dispatcher.tla`: `DiscoverEndpoints` (whitelist filter, exit when it is empty), then
  concurrent callers of `Do`. `Attempt` is one loop iteration: `pickEndpointExcluding`,
  `tried[...] = true`, `pool.Next()`, then a send. The send's outcome is a transport
  error, a status, or a failed body read. `GiveUp` returns the last error after 3
  attempts. `DoStream` has the same loop.
* `RetryLoop.tla`: what `Do` promises its callers, with endpoints and wallets hidden. A
  call makes attempts. A transport error (`TransportError`) lets the loop go on. A
  response (`Respond`) ends the call with its status, or with an error when the body read
  fails. After `MaxAttempts` transport errors, `GiveUp` ends the call with an error.
  `Dispatcher` defines `Loop == INSTANCE RetryLoop WITH attempts <- [c \in Caller |->
  Len(log[c])]`, and `ImplementsRetryLoop == Loop!Spec` is a property of the dispatcher
  run.
* `ToolSim.tla`: the response half of the tool-call simulator. The model's reply text is a
  sequence of lexical tokens: JSON punctuation, string literals (the keys `name`,
  `arguments`, `x` and the function names `f`, `g`, `z`), a number, `null`, space,
  newline, a markdown fence, a language tag and a word of text. `PValue`, `PArray` and
  `PObject` are the part of `encoding/json`'s grammar these tokens form, and they keep the
  raw tokens of each member's value, as a `json.RawMessage` field gets them. `DecodeCalls`
  and `DecodeSingle` decode into the code's `{Name, Arguments}` struct. A null name keeps
  the field, a non-string name is a type error, and the last member wins.
  `stripCodeFences`, `TrimSpace`, `strings.Index` and `strings.LastIndex` work on tokens,
  so the substring of attempt (b) is the one the code takes. `extractToolCalls` is the
  three attempts in the code's order. `ParseResponse` takes an upstream reply abstracted
  to how each member it reads decodes. Its single action, `Parse`, is the handler's call.
  `SpecToolCalls` is a separate definition of spec 4.7, written from the spec and not from
  the code, so that the code is compared with it.
* `Handler.tla`: one `POST /v1/chat/completions`. Its actions:
  * `ReadBody`: the body read, which may fail with 400.
  * `Redact`: a TokenMap is any map `register` can build, or nil when sanitization is off.
  * `Route`: the tool-sim check (`NeedsSimulation`), then the stream peek.
  * `Rewrite`: `RewriteRequest`'s error paths, answered with 400.
  * `ToolSimCall`, `Buffered`, `Stream`: the upstream call (a transport error gives 502),
    then what each path writes.
  
  Bodies are JSON texts over `{ } : Q BS a` and one unit per placeholder. `RestoreBytes`
  substitutes originals byte for byte, and `Redactions` is the code's insertion sort over
  every map iteration order. The configuration (`SANITIZE`, `SIMULATE_TOOL_CALLS`) is
  chosen once in `Init`. The streamed body is left to `RestoringReader`.
* `MC_*.tla` and `*.cfg` hold the instances for TLC. `TokenMap_proofs.tla`,
  `Dispatcher_proofs.tla` and `Sanitize_proofs.tla` hold the TLAPS proofs.

## 3. Runs (TLC)

| Run | Config | Result | What it shows |
|---|---|---|---|
| tokenmap | `MC_TokenMap.cfg` | pass, 307 states | `StableMapping` (the two maps are inverse to each other, so the same value gets the same token) and `PlaceholdersUnique` (ids of concurrent requests are disjoint and at most `counter`). 2 request slots, 3 originals, counter bound 5, map resets. |
| sanitize | `MC_Sanitize.cfg` | pass, 6,924 states | See below. |
| sanitize_ner_only | `MC_SanitizeNEROnly.cfg` | **violation** | `ScopeAsSpecified` fails on the first step: with only the NER classifier, history texts get no classifier. |
| stream_conservation | `MC_RestoringReader.cfg` | pass, 1,019 states | `Conservation`: while copying or at EOF, what the client received, then `r.buf`, then the rest of the stream, is the stream with some placeholders restored. After an upstream error, what the client received is the beginning of such a restoration. It holds for every chunking, including a chunk whose restoration overflows `p` while 20 bytes are held back. The overflow must then go in front of the held tail (`stream.go:97`). |
| stream_parity | `MC_RestoringReaderParity.cfg` | **violation** | `StreamParity`: at EOF the client has the buffered restoration. It fails: a placeholder in the held-back tail is sent raw. |
| dispatcher | `MC_Dispatcher.cfg` | pass, 205,595 states | `RetryPolicy`, `RetriesSpread`, `DoReturns` and `ImplementsRetryLoop` (every step of the callers is a step of `RetryLoop` or leaves it unchanged). |
| sanitize_literal | `MC_SanitizeLiteral.cfg` | **violation** | `RoundTrip` with the client's literal placeholder numbered 1 (`LiteralId <- IssuedId`). The counter issues id 1 to r1's history value, and restoring r1's text turns the client's `«TOKEN_1»` into that value. |
| toolsim | `MC_ToolSim.cfg` | pass, 924 states | `ArrayRepliesAsSpecified`: for every reply that is not a single JSON object, `ParseResponse` yields exactly the calls of spec 4.7. This covers arrays of calls, fenced or not, alone or inside text, with undeclared names, null or missing arguments, nested arrays, type errors, and text with a later `[...]`. It also covers the malformed upstream bodies. |
| toolsim_single | `MC_ToolSimSingle.cfg` | **violation** | `ToolCallsAsSpecified`, the same comparison on every reply: a single call object whose arguments hold an array is not recognised. |
| toolsim_no_choices | `MC_ToolSimNoChoices.cfg` | **violation** | `ParseFailureReturnsBody`: an upstream body without `choices` makes `ParseResponse` panic. |
| handler | `MC_Handler.cfg` | pass, 15,086 states | `NoPlaceholderLeak` (a successful buffered or tool-sim response carries no placeholder of its request) and `HeaderAsSpecified` (the header is there exactly when something was redacted, and lists every pair once, ascending by token, for every map iteration order). |
| handler_json | `MC_HandlerJSON.cfg` | **violation** | `RestoredBodyIsJSON`: a JSON reply is no longer JSON once an original holding `"` or `\` is restored into it. |

The sanitize run checks these properties:

* `RoundTrip`: every redacted text, and the text in the middle of splicing, restores to
  exactly the client's text. It must hold under every Go map iteration order, and also
  while later texts register more ids.
* `PlaceholdersNotRedacted`: no registered original contains a placeholder, and every
  placeholder the client sent survives.
* `ScopeAsSpecified`: an action property. A text starts with every classifier if it is
  in the last user message, and with every classifier but the LLM otherwise.
* `RedactionCoversBody`: a finished request has exactly one redacted text per text of
  its body. `RoundTrip` only speaks of the texts written so far, so without this property
  a loop that stopped one text early would go unnoticed.
* `RedactionCompletes`: every request finishes, whatever the classifiers do.

The sanitize instance has two concurrent requests. r1 has a history message "a,b" and
a last user message "a_bé_«TOKEN_0»". That message carries a two-byte character and a
placeholder the client typed itself. Its number, 0, is never issued (the counter starts at
1), so the passing run checks that such a literal survives. When the literal's number can
be issued, it does not survive: see sanitize_literal and finding 3. r2 is a non-JSON body "b_a". The NER replies include:

* valid spans;
* overlapping spans ([2,5] and [0,5]);
* a span ending inside a character;
* a span starting mid-word;
* spans covering or entering the placeholder.

The LLM replies include a padded value, a value starting with `«TOKEN_`, and a value that
only occurs inside a word. Deliveries can come in either order, or not at all before the
deadline.

The toolsim instance declares `f` and `g`; `z` is undeclared. Its 462 replies cover every
call object over those names, with 7 kinds of `arguments`, including absent, null and
arrays nested in the arguments. They also cover objects without a name or with a numeric
one, arrays of 0, 1 and 2 elements, numbers and null. Each comes in 6 wrappings: bare,
fenced on separate lines, fenced on one line, inside text, padded, and followed by text
holding brackets. Plain texts and the 8 malformed upstream bodies complete the set.

The handler instance covers:

* all four configurations;
* 21 request shapes;
* every TokenMap over 3 ids and the originals `a`, `a"` and `\`;
* upstream statuses 200 and 500 and four reply bodies (with and without placeholders,
  with an escaped quote);
* transport errors;
* both outcomes of `ParseResponse`.

With three ids, the header's insertion sort meets all six iteration orders.

The dispatcher instance has 2 callers, 2 wallets and 3 calls. There are 4 participants:
one without a URL, one not whitelisted, and two kept. The third attempt of a call
therefore falls back to an endpoint already tried.

The reader instance uses the code's `holdBack` of 20 and a 20-byte `p`, so `src.Read`
returns up to 40 bytes. The stream has 41 bytes: `a`, placeholder 2, `_`, placeholder 1
and 7 more bytes. Placeholder 1 restores to 3 bytes and placeholder 2 to 20 bytes.
A 40-byte chunk that is not the last one holds placeholder 2 in its first 20 bytes.
Those 20 bytes restore to 24, so 4 bytes overflow `p` while 20 bytes are held back. This
is the case where the order of overflow and tail matters. Placeholders also fall across
chunk ends, chunks are short, and reads fail with and without bytes.

Why these bounds are enough:

* Each mutant of the code (see `PROJECT.json`, "mutants") is caught within these bounds.
  The dropped deadline, the dedup comparing starts, the missing placeholder check, the
  per-request ids, the overflow put after the held tail and the retry on an HTTP response are all caught.
* The interesting cases of each property happen in the instance. Overlapping and invalid
  spans occur. A value registered in history is met again in the user text. Restoration
  can overflow `p`. Retries fall back to a tried endpoint.
* Larger instances only repeat the same shapes with more data.

Fairness assumed:

* `Sanitize`: weak fairness on `EndCollect`, `ApplySpan` and `NextText`. The deadline
  timer always fires, and the request goroutine runs once it is able to. There is
  deliberately none on `Deliver`, because a classifier call may hang forever.
* `Dispatcher`: weak fairness on `Attempt` and `GiveUp`. It is justified for `Do`, whose
  `http.Client` has a 120 s timeout. It is not justified for `DoStream` (no response
  timeout), which is a hazard.
* `RestoringReader`: no fairness, and its run checks no liveness property. A stalled
  upstream may stop a stream for good.

## 4. Findings

1. **Streamed responses leak placeholders** (`stream.go` 44-49, 76-82).
   * `Read` keeps the last 20 bytes of every long chunk in `r.buf`. The next call
     returns them as they are.
   * Chunks of at most 20 bytes are also buffered, then returned raw by the recursive
     call.
   * Those bytes are never joined with the next chunk and never restored.
   * So any placeholder in the last 20 bytes of a chunk, or split across chunks, reaches
     the client as `«TOKEN_…»`. This contradicts the spec's stream parity and its
     scenario 3. TLC finds it in 4 steps.
   * Lines 88-91, which restore the held-back buffer at EOF, are dead code: `r.buf` is
     always empty there.
2. **History is unsanitized with the NER sidecar alone** (`sanitize.go` 189-193).
   `redactTextWithNER` assumes the last classifier is the LLM. With a single classifier
   it runs none, even when that classifier is NER. The theorem `NEROnlyForwardsHistory`
   (section 5) proves the consequence for every body and every interleaving: each
   history text reaches the upstream exactly as the client sent it.

3. **A placeholder the client typed can be restored to another value**
   (`sanitize.go` 46-53).
   * `register` takes the next id of the global counter without looking at the request.
   * If the client's message contains `«TOKEN_n»` literally, and the counter gives `n` to
     a value of the same request, the upstream sees one token for two things. `Restore`
     then turns the client's literal into that value.
   * Which `n` is at risk depends on how many ids concurrent requests took before.
4. **A single tool call with an array in its arguments is lost** (`toolsim.go` 347-367).
   * Take a reply such as `{"name":"f","arguments":{"x":[{"x":1}]}}`. Attempt (a) fails,
     because the reply is not an array.
   * Attempt (b) then parses the inner `[...]`. It returns that attempt's result (here
     none) at line 367, without attempt (a)'s `len(result) > 0` check.
   * So the single-object attempt (c) is never tried, and the reply goes to the client as
     text.
   * When the inner objects carry a declared `name`, the call is even built from them
     instead of from the outer call.
   * Spec 4.7 tries (a), (b) and (c) in turn.
5. **`ParseResponse` panics on a reply without `choices`** (`toolsim.go` 162-171).
   * When the member is absent, `choices` stays nil and `choices[0]` panics.
   * `net/http` recovers the panic and drops the connection.
   * Spec 7 says a tool-sim parse failure returns the upstream body unchanged, as the
     code does for every other malformed body.
6. **Restored values are not JSON-escaped** (`sanitize.go` 381-386).
   * Originals are registered as decoded JSON strings, and `RestoreBytes` puts them back
     into the raw JSON response.
   * An original with `"` or `\` makes the client's response invalid JSON. For example,
     the original `\` turns `{"a":"«1»"}` into `{"a":"\"}`.
   * Spec 6 requires the placeholder to round-trip through JSON encoding.

Observed while modelling, and recorded as hazards:

* The buffered path restores upstream error bodies and sets the header on them. The
  streaming and tool-simulation paths pass them through untouched, as spec sections 5
  and 7 ("verbatim") ask. `BufferedResponse` and `StreamResponse` in `Handler.tla` show
  the difference.
* Tool simulation ignores the client's `stream` flag and always answers with buffered
  JSON. This is the spec's own open question, and the model follows the code.
* `Do` reports an error, without retrying, when reading a response body fails. This is a
  transport error the spec's "retry on transport error" does not single out.
* `RestoringReader.Read` drops the bytes that `src.Read` hands over together with a
  non-EOF error (`stream.go:61`). `ReadError(n)` moves `pos` past them. The stream is cut
  short there anyway, and `Conservation` only asks that what was sent is an uncorrupted
  beginning of the restored stream.

## 5. Proofs (TLAPS)

All proofs are checked by `tlapm` to the last leaf. TLC first checks every inductive
invariant below as an ordinary invariant of the module's run.

### TokenMap_proofs.tla

Three theorems hold for every set of requests, every set of originals and every bound
`MaxId`:

* `TypeCorrect`: `TMSpec => []TMTypeOK`.
* `StableMappingHolds`: `TMSpec => []StableMapping`.
* `PlaceholdersUniqueHolds`: `TMSpec => []PlaceholdersUnique`.

The inductive invariant is `IInv == CoreInv /\ OriginalsTyped`, with `CoreInv ==
MapsOK /\ StableMapping /\ PlaceholdersUnique`. `MapsOK` is `TMTypeOK` without the
typing of the originals (`TypeSplit`). No conjunct of `CoreInv` is inductive on its own:

* Showing that the fresh id `counter + 1` is unused, in this map and in every other one,
  needs `PlaceholdersUnique`'s bound `DOMAIN fromToken[r] \subseteq 1..counter`.
* Showing that adding an entry keeps the two maps inverse needs `StableMapping` for the
  old entries. It also needs the fact that the new original was absent, so no old id maps
  to it.
* Both steps need `MapsOK` to know the maps are functions over `Request`.

`CoreInv` is kept apart because its proof (`BeginCore`, `RegisterFresh`, `RegisterCore`)
never looks at which value is registered. That is what lets `Sanitize_proofs` reuse it.
The temporal step is closed by PTL. The only assumption used is `MaxIdAssumption ==
MaxId \in Nat`.

### Dispatcher_proofs.tla

Four theorems hold for every set of callers and participants, every whitelist and every
number of wallets, attempts and calls:

* `TypeCorrect`: `Spec => []TypeOK`. Every attempt of `Do` used a kept endpoint and a
  wallet of the pool, and the wallet index stays below `len(p.wallets)`.
* `RetryPolicyHolds`: `Spec => []RetryPolicy`.
* `RetriesSpreadHolds`: `Spec => []RetriesSpread`. A retry goes to an endpoint the call
  has not tried, while one is left.
* `RetryLoopRefinement`: `Spec => ImplementsRetryLoop`. `Do` implements `RetryLoop`.

The inductive invariant `IInv` adds four facts to `TypeOK`, `RetryPolicy` and
`RetriesSpread`:

* `NoResultWhileTrying`: a call still in its loop has no result yet. Without it, another
  transport error appended to the log would seem to break "an error only after
  `MaxAttempts` transport errors".
* `CallsWaitForDiscovery`: no call starts before `DiscoverEndpoints`. Without it,
  discovery could leave a tried set or a log naming endpoints that were not kept.
* `TriedIsLogged`: the `tried` map of a call is exactly the set of endpoints in its log.
  `RetriesSpread` speaks of the log, while `pickEndpointExcluding` reads `tried`. Without
  this link, an attempt could pick an endpoint already in the log.

There is one lemma per action. The `Attempt` lemma is split into the transport-error
case (the call goes on) and the response case (the call ends with that outcome). Each
case proves the properties of the calling goroutine and of the others separately
(`RetryPolicyOf`). For `RetriesSpread`, the new entry is fresh unless every endpoint has
been tried, and that follows from `Candidates`' fallback.

The refinement proof maps each step to `RetryLoop`:

* `DiscoverEndpoints`, `Stopped` and stuttering leave the mapped state unchanged.
* `Call` is `Loop!Call`.
* An `Attempt` with a transport error is `Loop!TransportError`, and any other outcome is
  `Loop!Respond`.
* `GiveUp` is `Loop!GiveUp`, and `Finish` is `Loop!Finish`.

`AttemptsUpdate` says that changing one call's log changes only that call's count. The
proof uses `IInv` for the types of the logs. It also uses `DispatcherAssumption`: at least
one wallet and one attempt, and HTTP statuses distinct from the model's sentinel
outcomes.

### Sanitize_proofs.tla

Four theorems hold for the whole redaction of concurrent requests, for every set of
requests, texts, replies and classifier configuration allowed by `ClassifiersAssumption`:

* `RedactionPlaceholdersUnique`: `Spec => [](StableMapping /\ PlaceholdersUnique)`.
  The requests share only `counter`. Every step other than `Arrive` and `ApplySpan`
  leaves the maps alone (`OtherStepsKeepMaps`). `Arrive` is `TokenMap`'s `Begin`, and
  `ApplySpan` performs one `Register`. So `TokenMap_proofs`' `CoreInv` carries over.
* `ScopeHolds`: `Classifiers # <<NER>> => (Spec => ScopeAsSpecified)`. With both
  classifiers, or with either one alone except the NER sidecar alone, a text of the last
  user message starts with every classifier and any other text with every one but the
  LLM. The proof works case by case on `Classifiers` (`ScopeOfClassifiersFor`). It needs
  `SlotsOK`, which says the per-request variables are functions over `Request`. The
  excluded configuration is the one the sanitize_ner_only run shows broken (finding 2).
  Without the hypothesis the statement is false, so the hypothesis is part of the result
  and not a gap in it.
* `RedactionCoversBodyHolds`: `Spec => []RedactionCoversBody`. The inductive invariant
  is `Progress`. While a request works on text `idx[r]` it has written `idx[r] - 1`
  redacted texts, and `idx[r]` is an index of the body. `NextText` appends one and
  either starts text `idx[r] + 1` or, at the last text, finishes.
* `NEROnlyForwardsHistory`: `Classifiers = <<NER>> => (Spec =>
  []HistoryForwardedVerbatim)`. With the NER sidecar alone, the k-th redacted text is the
  k-th text itself whenever that text is history. The inductive invariant is `HistoryOf`
  plus `Progress`, which places the appended text at index `idx[r]`. A history text
  starts with no classifier, because `ClassifiersFor(FALSE) = {}` when the list has one
  element. So `Deliver` cannot fire, `EndCollect` keeps `SpansToApply(t, <<>>) = <<>>`,
  `ApplySpan` is disabled, and the text is appended as it came. TLC checks the invariants
  on the sanitize instance with `<<NER>>` before they are proved. With both classifiers,
  TLC finds `HistoryForwardedVerbatim` violated, as it should be: history is then
  redacted.

These proofs use `WorkAssumption`: `Work(r)`, the texts `RedactMessages` visits, is a
sequence of records `[text, full]`. That holds for every body, because a body is a finite
list of messages with finite lists of parts. The provers cannot derive it from `Work`'s
definition, because `FlattenSeq` is a recursive function. TLC evaluates the assumption on
every run of `MC_Sanitize`.

What stays with TLC only, and why:

* Liveness (`RedactionCompletes`, `DoReturns`): TLAPS does not reason about fairness and
  ENABLED here.
* Everything in `ToolSim` and `Handler` (`ArrayRepliesAsSpecified`, `NoPlaceholderLeak`,
  `HeaderAsSpecified`). Both modules use RECURSIVE operators (the JSON grammar,
  restoration, the insertion sort), which keep a module away from the provers.
* Everything about the recursive functions `StringsReplaceAll`, `RestoreInOrder`,
  `DeduplicateSpans`, `PartialRestorations` and `OccurrenceSpans`, and about `SelectSeq`:
  * `RoundTrip` and `Conservation` state what these compute on every input.
  * `PlaceholdersNotRedacted` needs the fact that deduplicated, validated spans never
    overlap a placeholder.
  * `Sanitize`'s `TypeOK` types the kept spans, and so needs the same facts about
    `DeduplicateSpans`.

  Proving what a recursive definition computes for every input needs induction over
  data. The installed provers can neither unfold these definitions nor instantiate the
  library's induction theorems. For the same reason `Sanitize_proofs` proves only
  `CoreInv`, and not the typing of the registered originals.

## 6. Not modelled, and why

* The signer: 256-bit elliptic-curve arithmetic and SHA-256 are far out of TLC's reach.
  Low-S normalisation could later be checked on a toy curve.
* The tool-call simulator's request rewrite: prompt building, message injection and
  re-marshalling. Only its error paths and `NeedsSimulation` are in `Handler`. The rest is
  text formatting that no property tells apart.
* `loadModels`, `listModels`: the model cache written once by a background goroutine and
  read under an RWMutex; the spec puts the listing out of scope.
* `Handler` takes the TokenMap as any map `register` can build and the upstream outcome
  as any reply; how those arise is what `Sanitize` and `Dispatcher` check.
* The classifiers' HTTP and JSON handling: the models take what a classifier returns as
  a choice among replies.
* The configuration loader, health, models listing and static UI: generic glue the spec
  puts out of scope.
