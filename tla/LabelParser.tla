---------------------------- MODULE LabelParser ----------------------------
(***************************************************************************)
(* applyLabels (src/controllers/clusterversion_controller.go, 386-404):   *)
(* the parser of the OCS_METRICS_LABELS text that the PrometheusRule      *)
(* mutate runs.  The text is a sequence of characters over a small        *)
(* alphabet; strings.Split, strings.SplitN and strings.TrimSpace are      *)
(* modelled by what they return, and the loop over the lines is one step  *)
(* per line, so that the parse can be compared with the text's meaning    *)
(* as the spec states it (section 4.6, "Label-text parsing").             *)
(***************************************************************************)
EXTENDS Naturals, Sequences, SequencesExt, GoStrings

CONSTANTS
    Letters,    \* the characters other than ':', ' ' and newline
    MaxLen      \* the longest label text considered

Chars   == Letters \cup {Colon, Space, NL}
Texts   == SeqOf(Chars, MaxLen)

(* A map[string]string with no entries.                                    *)
EmptyMap == [k \in {} |-> <<>>]

-----------------------------------------------------------------------------
(* The string functions the parser calls.                                 *)

(* Mutant: a split whose pieces run up to and including the next         *)
(* separator (an off-by-one in the end index).                            *)
SplitOffByOne(s, sep) ==
    LET P == <<0>> \o SetToSortSeq({j \in 1..Len(s) : s[j] = sep}, <)
                   \o <<Len(s) + 1>>
    IN  [k \in 1..Len(P) - 1 |->
            SubSeq(s, P[k] + 1, IF P[k + 1] > Len(s) THEN Len(s) ELSE P[k + 1])]

(* strings.Split(s, sep): the pieces between the separators, so that n    *)
(* separators give n + 1 pieces (the empty text gives one empty piece).   *)
Split(s, sep) ==
    LET P == <<0>> \o SetToSortSeq({j \in 1..Len(s) : s[j] = sep}, <)
                   \o <<Len(s) + 1>>
    IN  [k \in 1..Len(P) - 1 |-> SubSeq(s, P[k] + 1, P[k + 1] - 1)]

(* strings.SplitN and strings.TrimSpace are those of GoStrings.          *)

-----------------------------------------------------------------------------
VARIABLES
    text,       \* the label text handed to applyLabels
    lines,      \* strings.Split(label, "\n")
    i,          \* the index of the loop over the lines
    promLabel,  \* the map built by the loop
    labels,     \* t.Labels of the fetched PrometheusRule's ObjectMeta
    pc          \* "split", "loop", "done" or "panic"

vars == <<text, lines, i, promLabel, labels, pc>>

(* The labels the fetched object may carry already: none, or one label   *)
(* of the rule template, whose key a text can also set.                   *)
TemplateLabels == (<<"a">> :> <<"b">>)

TypeOK ==
    /\ text \in Texts
    /\ lines \in Seq(Seq(Chars \ {NL}))
    /\ i \in 1..MaxLen + 2
    /\ DOMAIN promLabel \subseteq Texts
    /\ DOMAIN labels \subseteq Texts
    /\ pc \in {"split", "loop", "done", "panic"}

Init ==
    /\ text \in Texts
    /\ lines = <<>>
    /\ i = 1
    /\ promLabel = EmptyMap
    /\ labels \in {EmptyMap, TemplateLabels}
    /\ pc = "split"

(* promLabel := make(map[string]string); labels := strings.Split(label,   *)
(* "\n").                                                                  *)
SplitLines ==
    /\ pc = "split"
    /\ lines' = Split(text, NL)
    /\ promLabel' = EmptyMap
    /\ pc' = "loop"
    /\ UNCHANGED <<text, i, labels>>

(* if len(line) == 0 { continue }                                          *)
SkipEmpty ==
    /\ pc = "loop"
    /\ i <= Len(lines)
    /\ Len(lines[i]) = 0
    /\ i' = i + 1
    /\ UNCHANGED <<text, lines, promLabel, labels, pc>>

(* parts := strings.SplitN(line, ":", 2); the trimmed key and value go    *)
(* into promLabel, a later line overwriting an earlier key.               *)
PutLabel ==
    /\ pc = "loop"
    /\ i <= Len(lines)
    /\ Len(lines[i]) > 0
    /\ LET parts == SplitN(lines[i], Colon) IN
         /\ Len(parts) = 2
         /\ promLabel' = (TrimSpace(parts[1]) :> TrimSpace(parts[2]))
                            @@ promLabel
    /\ i' = i + 1
    /\ UNCHANGED <<text, lines, labels, pc>>

(* A line without ':' has a single part: parts[1] is out of range and the *)
(* goroutine panics.                                                       *)
IndexPanic ==
    /\ pc = "loop"
    /\ i <= Len(lines)
    /\ Len(lines[i]) > 0
    /\ Len(SplitN(lines[i], Colon)) = 1
    /\ pc' = "panic"
    /\ UNCHANGED <<text, lines, i, promLabel, labels>>

(* t.Labels = promLabel, once every line is done.                          *)
Assign ==
    /\ pc = "loop"
    /\ i > Len(lines)
    /\ labels' = promLabel
    /\ pc' = "done"
    /\ UNCHANGED <<text, lines, i, promLabel>>

Next == SplitLines \/ SkipEmpty \/ PutLabel \/ IndexPanic \/ Assign

(* applyLabels runs to its end or to the panic; it then stops.            *)
Spec == Init /\ [][Next]_vars

-----------------------------------------------------------------------------
(***************************************************************************)
(* The meaning of a label text as the spec states it: a sequence of       *)
(* lines, each key:value split at the colon with both sides trimmed of    *)
(* surrounding white space, empty lines skipped.  Written over positions  *)
(* of the text, independently of the loop above.                          *)
(***************************************************************************)

(* The lines of s as spans <<b, e>> of positions (e = b - 1 for an empty *)
(* line): maximal runs without a newline.                                  *)
Spans(s) ==
    {sp \in (1..Len(s) + 1) \X (0..Len(s)) :
        /\ sp[1] <= sp[2] + 1
        /\ sp[1] = 1 \/ s[sp[1] - 1] = NL
        /\ sp[2] = Len(s) \/ s[sp[2] + 1] = NL
        /\ \A j \in sp[1]..sp[2] : s[j] # NL}

LabelSpans(s) == {sp \in Spans(s) : sp[1] <= sp[2]}

(* Every non-empty line holds a colon.                                     *)
WellFormed(s) == \A sp \in LabelSpans(s) : ColonOf(s, sp) > 0

(* The labels the text defines; of two lines with one key, the later one *)
(* counts (section 4.6, example "team: storage\nenv:  prod\n\n").         *)
RefLabels(s) ==
    LET Keys == {KeyOf(s, sp) : sp \in LabelSpans(s)}
        LastSpan(k) == CHOOSE sp \in LabelSpans(s) :
                      /\ KeyOf(s, sp) = k
                      /\ \A sq \in LabelSpans(s) : KeyOf(s, sq) = k => sq[1] <= sp[1]
    IN  [k \in Keys |-> ValueOf(s, LastSpan(k))]

-----------------------------------------------------------------------------
(* The parse agrees with the text's meaning: applyLabels ends normally    *)
(* exactly on the well-formed texts, and then sets the labels the text    *)
(* defines, values with colons and repeated keys included.                *)
ParseMatchesSpec ==
    /\ pc = "done" => WellFormed(text) /\ labels = RefLabels(text)
    /\ pc = "panic" => ~WellFormed(text)

(* The doc comment of applyLabels (line 386): it "adds labels to object  *)
(* meta, overwriting keys that are already defined", so a label the      *)
(* fetched object carries and the text does not set is kept.             *)
LabelsMerged ==
    [][pc' = "done" =>
         \A k \in DOMAIN labels \ DOMAIN promLabel :
             k \in DOMAIN labels' /\ labels'[k] = labels[k]]_vars
=============================================================================
