--------------------------- MODULE RestoringReader ---------------------------
(***************************************************************************)
(* The streaming restorer (src/internal/sanitize/stream.go) driven by the *)
(* copy loop of Handler.streamResponse (src/internal/api/handler.go).     *)
(*                                                                         *)
(* The upstream SSE body is the byte sequence Stream; each src.Read hands *)
(* over the next 1..2*ReadSize bytes of it (any split: TCP and the        *)
(* upstream's flushes decide), possibly together with io.EOF.  One step   *)
(* of the model is one iteration of the handler loop: one call of         *)
(* RestoringReader.Read(buf) with len(buf) = ReadSize, and the write of   *)
(* what it returned to the client.  Unlike the sanitizer's abstract bytes *)
(* the bytes here are real ones, because Read compares byte counts        *)
(* (holdBack = 20) with the 16-byte length of a placeholder.              *)
(***************************************************************************)
EXTENDS Naturals, Sequences, FiniteSets, FiniteSetsExt, SequencesExt, Placeholders

CONSTANTS
  Stream,     \* the bytes the upstream sends
  From,       \* tm.fromToken: id -> original bytes
  ReadSize,   \* len(p): the handler's buffer (4096 in the code)
  HoldBack    \* the holdBack constant of Read (20 in the code)

ASSUME StreamAssumption ==
  /\ ReadSize \in Nat \ {0} /\ HoldBack \in Nat
  /\ DOMAIN From \subseteq 1..MaxId /\ MaxId <= 9

VARIABLES
  pos,      \* bytes of Stream the upstream has handed over
  srcEOF,   \* r.srcEOF
  buf,      \* r.buf
  sent,     \* bytes the handler has written to the client
  phase     \* the handler loop: "copying", "eof" or "error"

rrVars == <<pos, srcEOF, buf, sent, phase>>

(* The real bytes of «TOKEN_%06d» for an id below 10. *)
PlaceholderBytes(n) ==
  <<"«", "«'", "T", "O", "K", "E", "N", "_", "0", "0", "0", "0", "0", ToString(n), "»", "»'">>
PhBytes == 16

(* restoreBytes: strings.ReplaceAll for each entry of tm.fromToken, in   *)
(* the order the Go map iteration takes; every order is possible.        *)
RestoreBytesInOrder(s, ord) ==
  LET g[k \in 0..Len(ord)] ==
        IF k = 0 THEN s
        ELSE StringsReplaceAll(g[k-1], PlaceholderBytes(ord[k]), From[ord[k]])
  IN g[Len(ord)]

RestoreBytesOutcomes(s) ==
  {RestoreBytesInOrder(s, ord) : ord \in IterationOrders(DOMAIN From)}

-----------------------------------------------------------------------------
Init ==
  /\ pos = 0
  /\ srcEOF = FALSE
  /\ buf = <<>>
  /\ sent = <<>>
  /\ phase = "copying"

(* Read drains r.buf first, returning held-back or overflow bytes as they *)
(* are; the handler writes them.                                          *)
DrainBuf ==
  /\ phase = "copying"
  /\ buf # <<>>
  /\ LET n == Min({Len(buf), ReadSize})
     IN /\ sent' = sent \o SubSeq(buf, 1, n)
        /\ buf' = SubSeq(buf, n + 1, Len(buf))
  /\ UNCHANGED <<pos, srcEOF, phase>>

(* r.srcEOF with nothing buffered: Read returns io.EOF, the loop ends. *)
ReturnEOF ==
  /\ phase = "copying"
  /\ buf = <<>>
  /\ srcEOF
  /\ phase' = "eof"
  /\ UNCHANGED <<pos, srcEOF, buf, sent>>

(* Mutant: the overflow is appended after the held-back tail. *)
CopyOutAfterHeld(restored, held) ==
  LET k == Min({Len(restored), ReadSize})
  IN /\ sent' = sent \o SubSeq(restored, 1, k)
     /\ buf' = held \o SubSeq(restored, k + 1, Len(restored))

(* copy(p, restored); what does not fit goes back in front of r.buf. *)
CopyOut(restored, held) ==
  LET k == Min({Len(restored), ReadSize})
  IN /\ sent' = sent \o SubSeq(restored, 1, k)
     /\ buf' = SubSeq(restored, k + 1, Len(restored)) \o held

(* src.Read returns n bytes, with io.EOF when eof.  A short chunk (at most *)
(* HoldBack bytes, not at EOF) is buffered and Read calls itself, which    *)
(* drains it at once.  Otherwise all but the last HoldBack bytes (all of   *)
(* them at EOF) are restored; the part that does not fit in p goes back   *)
(* to the front of r.buf, before the held-back tail.  (A src.Read of 0    *)
(* bytes and no error only makes Read call src.Read again.)               *)
ReadChunk(n, eof) ==
  LET chunk == SubSeq(Stream, pos + 1, pos + n)
      safe == IF eof THEN chunk ELSE SubSeq(chunk, 1, n - HoldBack)
      held == IF eof THEN <<>> ELSE SubSeq(chunk, n - HoldBack + 1, n)
  IN /\ phase = "copying"
     /\ buf = <<>>
     /\ ~srcEOF
     /\ pos' = pos + n
     /\ srcEOF' = eof
     /\ UNCHANGED phase
     /\ IF ~eof /\ n <= HoldBack
        THEN LET k == Min({n, ReadSize})
             IN /\ sent' = sent \o SubSeq(chunk, 1, k)
                /\ buf' = SubSeq(chunk, k + 1, n)
        ELSE \E restored \in RestoreBytesOutcomes(safe) : CopyOut(restored, held)

(* src.Read hands over n bytes together with an error other than io.EOF: *)
(* Read returns 0 and the error, so the n bytes are dropped (the upstream  *)
(* has delivered them, pos moves past them, nothing sends them), and the  *)
(* handler stops copying.                                                 *)
ReadError(n) ==
  /\ phase = "copying"
  /\ buf = <<>>
  /\ ~srcEOF
  /\ pos' = pos + n
  /\ phase' = "error"
  /\ UNCHANGED <<srcEOF, buf, sent>>

Remaining == Len(Stream) - pos

Next ==
  \/ DrainBuf
  \/ ReturnEOF
  \/ \E n \in 1..Min({2 * ReadSize, Remaining}) : ReadChunk(n, FALSE)
  \/ \E n \in 0..Min({2 * ReadSize, Remaining}) : n = Remaining /\ ReadChunk(n, TRUE)
  \/ \E n \in 0..Min({2 * ReadSize, Remaining}) : ReadError(n)
  \/ phase # "copying" /\ UNCHANGED rrVars   \* the handler has returned

Spec == Init /\ [][Next]_rrVars

-----------------------------------------------------------------------------
(* The texts the stream may become when any of its placeholders are       *)
(* restored and the others left as they are.                              *)
PartialRestorations(s) ==
  LET f[i \in 1..Len(s) + 1] ==
        IF i > Len(s) THEN {<<>>}
        ELSE {<<s[i]>> \o x : x \in f[i + 1]}
             \cup UNION {{From[n] \o x : x \in f[i + PhBytes]} :
                          n \in {m \in DOMAIN From :
                                   i + PhBytes - 1 <= Len(s)
                                   /\ SubSeq(s, i, i + PhBytes - 1) = PlaceholderBytes(m)}}
  IN f[1]

(* Nothing lost, duplicated or reordered: while the handler copies, and   *)
(* once the upstream has ended, what the client has received, then what   *)
(* Read holds in r.buf, then what the upstream has yet to send, is the     *)
(* upstream stream with some of its placeholders restored, however        *)
(* src.Read splits it and whatever overflows the handler's buffer (the    *)
(* overflow must come back before the held-back tail).  After an upstream *)
(* error the stream is cut short and the bytes of the failing src.Read    *)
(* are gone; what the client has then is still the beginning of such a    *)
(* restoration, with nothing in it duplicated or out of order.            *)
Conservation ==
  IF phase = "error"
  THEN \E x \in PartialRestorations(Stream) : IsPrefix(sent, x)
  ELSE sent \o buf \o SubSeq(Stream, pos + 1, Len(Stream)) \in PartialRestorations(Stream)

(* Stream parity (spec section 8): when the upstream stream ends, the     *)
(* client has received exactly the buffered restoration of it.            *)
StreamParity ==
  phase = "eof" => sent \in RestoreBytesOutcomes(Stream)
=============================================================================
