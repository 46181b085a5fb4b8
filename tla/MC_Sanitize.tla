---------------------------- MODULE MC_Sanitize ----------------------------
(***************************************************************************)
(* Two requests served concurrently.  r1 is a JSON body with a history    *)
(* message and a last user message that already carries a placeholder    *)
(* (id 0, never issued); r2 is a body that is not JSON and is redacted    *)
(* whole.  The classifier replies cover valid, overlapping, misaligned,   *)
(* mid-word and placeholder-covering spans and LLM values that are        *)
(* padded, prefixed with «TOKEN_ or occur only inside a word.             *)
(***************************************************************************)
EXTENDS Sanitize

CONSTANTS r1, r2

MCRequest == {r1, r2}

MCClassifiers == <<NER, LLM>>

(* The sidecar alone: main.go with NER_URL set and no LLM classifier. *)
MCNEROnly == <<NER>>

(* The id of the placeholder the client typed: 0 is never issued; 1 is    *)
(* the first id globalCounter hands out.                                 *)
LiteralId == 0
IssuedId == 1

(* "a,b" ; "a_bé_«TOKEN_0»" ; "b_a" *)
HistText == <<"a", ",", "b">>
UserText == <<"a", "_", "b", "é", "é'", "_">> \o Placeholder(LiteralId)
RawText == <<"b", "_", "a">>

MCBody ==
  r1 :> [json |-> TRUE, raw |-> <<>>,
         msgs |-> << [role |-> "assistant", parts |-> <<HistText>>],
                     [role |-> "user", parts |-> <<UserText>>] >>]
  @@ r2 :> [json |-> FALSE, raw |-> RawText, msgs |-> <<>>]

Sp(s, e) == [start |-> s, end |-> e]

MCNERReply(t) ==
  CASE t = UserText -> { <<Sp(0, 1), Sp(2, 5)>>, <<Sp(2, 5), Sp(0, 5)>>,
                         <<Sp(2, 4), Sp(6, 12)>>, <<Sp(3, 5), Sp(7, 12)>> }
    [] t = HistText -> { <<Sp(0, 1)>>, <<Sp(0, 3)>> }
    [] OTHER -> { <<Sp(2, 3)>> }

MCLLMReply(t) ==
  CASE t = UserText -> { << <<"a">>, <<"b", "é", "é'">> >>,
                         << <<"_", "a">>, <<"«", "«'", "T">> >>,
                         << <<"b">> >> }
    [] OTHER -> { << <<"a", "_">> >> }
=============================================================================
