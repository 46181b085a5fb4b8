---------------------------- MODULE Placeholders ----------------------------
(***************************************************************************)
(* The bytes the sanitizer looks at and the placeholder text              *)
(* (src/internal/sanitize/sanitize.go: register's fmt.Sprintf, the        *)
(* tokenPlaceholderRe regular expression, wordBoundaryBytes and           *)
(* isRuneBoundary; TokenMap.Restore's strings.ReplaceAll).                *)
(*                                                                         *)
(* Abstract bytes.  "_" stands for the whitespace word-boundary bytes and *)
(* "," for the others ( <>(),;[]{}"'` ), "a" and "b" for other ASCII      *)
(* bytes, "T" for the ASCII run TOKEN_ .  A multibyte UTF-8 character is  *)
(* a lead byte followed by a continuation byte: "«" and "«'" are the two  *)
(* bytes of U+00AB, "»" and "»'" those of U+00BB, "é" and "é'" those of   *)
(* any other two-byte character.  The six digits %06d of id n are one     *)
(* byte ToString(n): the formatting is injective, which is what matters.  *)
(***************************************************************************)
EXTENDS Naturals, Sequences, FiniteSets, TLC

CONSTANT MaxId   \* bound on globalCounter (uint64 in the code)

ASSUME MaxIdAssumption == MaxId \in Nat

BoundaryByte == {"_", ","}   \* "_" whitespace, "," any other delimiter
ContinuationByte == {"«'", "»'", "é'"}

(* The text of the placeholder with id n:  «TOKEN_ n » .                  *)
Placeholder(n) == <<"«", "«'", "T", ToString(n), "»", "»'">>
PhLen == 6

(* The regular expression «TOKEN_\d+» matches the text at position i.     *)
DigitRun == {ToString(n) : n \in 0..MaxId}
PlaceholderAt(s, i) ==
  /\ i + PhLen - 1 <= Len(s)
  /\ s[i] = "«" /\ s[i+1] = "«'" /\ s[i+2] = "T"
  /\ s[i+3] \in DigitRun
  /\ s[i+4] = "»" /\ s[i+5] = "»'"

Byte == BoundaryByte \cup ContinuationByte \cup DigitRun
          \cup {"a", "b", "T", "«", "»", "é"}

ContainsPlaceholder(s) == \E i \in 1..Len(s) : PlaceholderAt(s, i)

(* strings.ReplaceAll(s, pat, rep): leftmost, non-overlapping occurrences *)
(* of the non-empty  pat  replaced, scanning left to right.              *)
StringsReplaceAll(s, pat, rep) ==
  LET n == Len(s)
      k == Len(pat)
      f[i \in 1..n+1] ==
        IF i > n THEN <<>>
        ELSE IF i + k - 1 <= n /\ SubSeq(s, i, i + k - 1) = pat
             THEN rep \o f[i + k]
             ELSE <<s[i]>> \o f[i + 1]
  IN f[1]

(* Go randomises map iteration: every order is a possible outcome.        *)
IterationOrders(S) ==
  {f \in [1..Cardinality(S) -> S] : \A i, j \in 1..Cardinality(S) : i # j => f[i] # f[j]}
=============================================================================
