----------------------------- MODULE GoStrings -----------------------------
(***************************************************************************)
(* The Go string functions that applyLabels calls on one line of the      *)
(* OCS_METRICS_LABELS text (src/controllers/clusterversion_controller.go, *)
(* 397-399): strings.SplitN(line, ":", 2) and strings.TrimSpace, over     *)
(* texts as sequences of characters.  Beside them, the meaning of one     *)
(* line as the spec states it (section 4.6), written over positions of    *)
(* the whole text: the key before the first colon and the value after     *)
(* it, both trimmed of white space.                                       *)
(***************************************************************************)
EXTENDS Naturals, Sequences

Colon == ":"
Space == " "
NL    == "\n"

(* unicode.IsSpace, restricted to the alphabet.                           *)
WhiteSpace == {Space, NL}

(* The least and the greatest member of a non-empty set of positions.     *)
FirstOf(S) == CHOOSE m \in S : \A j \in S : m <= j
LastOf(S)  == CHOOSE m \in S : \A j \in S : j <= m

(* The positions of s that hold the character c.                          *)
IndicesOf(s, c) == {j \in 1..Len(s) : s[j] = c}

-----------------------------------------------------------------------------
(* The code's functions.                                                   *)

(* Mutant: SplitN cutting at the last separator (strings.LastIndex where   *)
(* strings.Index is meant), so a value with a colon loses its head.       *)
SplitNLast(s, sep) ==
    LET P == IndicesOf(s, sep)
    IN  IF P = {} THEN <<s>>
                  ELSE <<SubSeq(s, 1, LastOf(P) - 1),
                         SubSeq(s, LastOf(P) + 1, Len(s))>>

(* strings.SplitN(s, sep, 2): the text before the first separator and the *)
(* rest, or the whole text alone when there is no separator.              *)
SplitN(s, sep) ==
    LET P == IndicesOf(s, sep)
    IN  IF P = {} THEN <<s>>
                  ELSE <<SubSeq(s, 1, FirstOf(P) - 1),
                         SubSeq(s, FirstOf(P) + 1, Len(s))>>

(* strings.TrimSpace: the text from its first to its last character that  *)
(* is no white space; empty if there is none.                              *)
TrimSpace(s) ==
    LET I == {j \in 1..Len(s) : s[j] \notin WhiteSpace}
    IN  IF I = {} THEN <<>> ELSE SubSeq(s, FirstOf(I), LastOf(I))

-----------------------------------------------------------------------------
(* The spec's meaning of one line, the span sp = <<b, e>> of the text s.  *)

(* x with its white space on both sides removed: the infix that neither   *)
(* starts nor ends with white space, all the rest being white space.      *)
Trimmed(x) ==
    CHOOSE y \in {SubSeq(x, b, e) : b \in 1..Len(x) + 1, e \in 0..Len(x)} :
        \E b \in 1..Len(x) + 1 : \E e \in b - 1..Len(x) :
            /\ y = SubSeq(x, b, e)
            /\ y = <<>> \/ (y[1] \notin WhiteSpace /\ y[Len(y)] \notin WhiteSpace)
            /\ \A j \in (1..b - 1) \cup (e + 1..Len(x)) : x[j] \in WhiteSpace

(* The first colon of the span, 0 if it has none.                          *)
ColonOf(s, sp) ==
    LET C == {j \in sp[1]..sp[2] : s[j] = Colon}
    IN  IF C = {} THEN 0 ELSE FirstOf(C)

KeyOf(s, sp)   == Trimmed(SubSeq(s, sp[1], ColonOf(s, sp) - 1))
ValueOf(s, sp) == Trimmed(SubSeq(s, ColonOf(s, sp) + 1, sp[2]))
=============================================================================
