---------------------------- MODULE StringProofs ----------------------------
(***************************************************************************)
(* Proofs about the string functions of GoStrings that applyLabels calls  *)
(* on each line (src/controllers/clusterversion_controller.go, 397-399):  *)
(* that strings.TrimSpace computes the spec's trimmed text, and that the  *)
(* key and the value PutLabel takes from strings.SplitN of a line are the *)
(* spec's KeyOf and ValueOf of that line, for texts over any alphabet.    *)
(***************************************************************************)
EXTENDS GoStrings, SequenceTheorems, WellFoundedInduction, TLAPS

-----------------------------------------------------------------------------
(* Lemmas on the least and the greatest member of a set of positions.      *)

(* A non-empty set of naturals has a least member, and FirstOf is it.      *)
LEMMA LeastExists ==
    ASSUME NEW S, S \subseteq Nat, S # {}
    PROVE  /\ FirstOf(S) \in S
           /\ \A j \in S : FirstOf(S) <= j
<1>1. PICK m \in S : \A k \in S : <<k, m>> \notin OpToRel(<, Nat)
    BY WFMin, NatLessThanWellFounded, Zenon
<1>2. \A k \in S : ~(k < m)
    BY <1>1, Zenon DEF OpToRel
<1>3. \A k \in S : m <= k
    BY <1>2
<1>. QED
    BY <1>3, Zenon DEF FirstOf

(* Of two members each below all the others, one is the other.             *)
LEMMA LowestEqual ==
    ASSUME NEW S, S \subseteq Nat,
           NEW x \in S, \A j \in S : x <= j,
           NEW y \in S, \A j \in S : y <= j
    PROVE  x = y
OBVIOUS

(* Only the least member lies below all the others.                        *)
LEMMA LeastUnique ==
    ASSUME NEW S, S \subseteq Nat, NEW m \in S, \A j \in S : m <= j
    PROVE  FirstOf(S) = m
<1>1. FirstOf(S) \in S /\ \A j \in S : FirstOf(S) <= j
    BY LeastExists
<1>. QED
    BY <1>1, LowestEqual, Zenon

(* A non-empty set of naturals bounded by n has a greatest member, and     *)
(* LastOf is it: the least of the distances to n gives it.                 *)
LEMMA GreatestExists ==
    ASSUME NEW S, S \subseteq Nat, S # {}, NEW n \in Nat, \A j \in S : j <= n
    PROVE  /\ LastOf(S) \in S
           /\ \A j \in S : j <= LastOf(S)
<1>1. {n - j : j \in S} \subseteq Nat
    OBVIOUS
<1>2. {n - j : j \in S} # {}
    BY Zenon
<1>3. \E t \in {n - j : j \in S} : \A k \in {n - j : j \in S} : t <= k
    BY <1>1, <1>2, LeastExists, Zenon
<1>4. PICK m \in S : \A k \in {n - j : j \in S} : n - m <= k
    BY <1>3, Zenon
<1>5. \A j \in S : n - m <= n - j
    BY <1>4, Zenon
<1>6. \A j \in S : j <= m
    BY <1>5
<1>. QED
    BY <1>6, Zenon DEF LastOf

(* Of two members each above all the others, one is the other.            *)
LEMMA HighestEqual ==
    ASSUME NEW S, S \subseteq Nat,
           NEW x \in S, \A j \in S : j <= x,
           NEW y \in S, \A j \in S : j <= y
    PROVE  x = y
OBVIOUS

(* Only the greatest member lies above all the others.                     *)
LEMMA GreatestUnique ==
    ASSUME NEW S, S \subseteq Nat, NEW n \in Nat, \A j \in S : j <= n,
           NEW m \in S, \A j \in S : j <= m
    PROVE  LastOf(S) = m
<1>1. LastOf(S) \in S /\ \A j \in S : j <= LastOf(S)
    BY GreatestExists
<1>. QED
    BY <1>1, HighestEqual, Zenon

-----------------------------------------------------------------------------
(* strings.TrimSpace computes the spec's trimmed text.                     *)

(* The infixes of x, and what makes one of them x trimmed (the body of     *)
(* Trimmed), and the positions of x that hold no white space.              *)
TrimCand(x) == {SubSeq(x, b, e) : b \in 1..Len(x) + 1, e \in 0..Len(x)}
IsTrim(x, y) ==
    \E b \in 1..Len(x) + 1 : \E e \in b - 1..Len(x) :
        /\ y = SubSeq(x, b, e)
        /\ y = <<>> \/ (y[1] \notin WhiteSpace /\ y[Len(y)] \notin WhiteSpace)
        /\ \A j \in (1..b - 1) \cup (e + 1..Len(x)) : x[j] \in WhiteSpace
NonSpace(x) == {j \in 1..Len(x) : x[j] \notin WhiteSpace}

(* The infix from f to l is x trimmed when x[f] and x[l] are no white      *)
(* space and all that lies outside it is.                                  *)
LEMMA TrimAt ==
    ASSUME NEW Ch, NEW x \in Seq(Ch), NEW f \in 1..Len(x), NEW l \in f..Len(x),
           x[f] \notin WhiteSpace, x[l] \notin WhiteSpace,
           \A j \in (1..f - 1) \cup (l + 1..Len(x)) : x[j] \in WhiteSpace
    PROVE  SubSeq(x, f, l) \in TrimCand(x) /\ IsTrim(x, SubSeq(x, f, l))
<1>1. /\ Len(SubSeq(x, f, l)) = l - f + 1
      /\ \A i \in 1..l - f + 1 : SubSeq(x, f, l)[i] = x[f + i - 1]
    BY SubSeqProperties
<1>2. SubSeq(x, f, l)[1] = x[f] /\ SubSeq(x, f, l)[Len(SubSeq(x, f, l))] = x[l]
    BY <1>1
<1>3. SubSeq(x, f, l) \in TrimCand(x)
    BY DEF TrimCand
<1>4. f \in 1..Len(x) + 1 /\ l \in f - 1..Len(x)
    OBVIOUS
<1>5. /\ SubSeq(x, f, l)[1] \notin WhiteSpace
      /\ SubSeq(x, f, l)[Len(SubSeq(x, f, l))] \notin WhiteSpace
    BY <1>2
<1>6. IsTrim(x, SubSeq(x, f, l))
    BY <1>4, <1>5, Zenon DEF IsTrim
<1>. QED
    BY <1>3, <1>6

(* A text of white space only trims to the empty text.                     *)
LEMMA TrimAllSpace ==
    ASSUME NEW Ch, NEW x \in Seq(Ch), NonSpace(x) = {}
    PROVE  <<>> \in TrimCand(x) /\ IsTrim(x, <<>>)
<1>1. SubSeq(x, 1, 0) = <<>>
    BY SubSeqEmpty
<1>2. \A j \in 1..Len(x) : x[j] \in WhiteSpace
    BY DEF NonSpace
<1>3. <<>> \in TrimCand(x)
    BY <1>1 DEF TrimCand
<1>. QED
    BY <1>1, <1>2, <1>3 DEF IsTrim

(* Some infix of every text is the text trimmed.                           *)
LEMMA TrimExists ==
    ASSUME NEW Ch, NEW x \in Seq(Ch)
    PROVE  \E y \in TrimCand(x) : IsTrim(x, y)
<1>1. CASE NonSpace(x) = {}
    BY <1>1, TrimAllSpace
<1>2. CASE NonSpace(x) # {}
    <2>1. NonSpace(x) \subseteq Nat /\ Len(x) \in Nat /\ \A j \in NonSpace(x) : j <= Len(x)
        BY DEF NonSpace
    <2>2. PICK f \in NonSpace(x) : \A j \in NonSpace(x) : f <= j
        BY <1>2, <2>1, LeastExists, Zenon
    <2>3. PICK l \in NonSpace(x) : \A j \in NonSpace(x) : j <= l
        BY <1>2, <2>1, GreatestExists, Zenon
    <2>4. f \in 1..Len(x) /\ l \in f..Len(x) /\ x[f] \notin WhiteSpace /\ x[l] \notin WhiteSpace
        BY <2>2, <2>3 DEF NonSpace
    <2>5. \A j \in (1..f - 1) \cup (l + 1..Len(x)) : x[j] \in WhiteSpace
        BY <2>2, <2>3 DEF NonSpace
    <2>. QED
        BY <2>4, <2>5, TrimAt
<1>. QED
    BY <1>1, <1>2

(* strings.TrimSpace returns every infix that is the text trimmed: there   *)
(* is only one.                                                            *)
LEMMA TrimUnique ==
    ASSUME NEW Ch, NEW x \in Seq(Ch), NEW y, IsTrim(x, y)
    PROVE  y = TrimSpace(x)
<1>1. PICK b \in 1..Len(x) + 1 : \E e \in b - 1..Len(x) :
        /\ y = SubSeq(x, b, e)
        /\ y = <<>> \/ (y[1] \notin WhiteSpace /\ y[Len(y)] \notin WhiteSpace)
        /\ \A j \in (1..b - 1) \cup (e + 1..Len(x)) : x[j] \in WhiteSpace
    BY DEF IsTrim
<1>2. PICK e \in b - 1..Len(x) :
        /\ y = SubSeq(x, b, e)
        /\ y = <<>> \/ (y[1] \notin WhiteSpace /\ y[Len(y)] \notin WhiteSpace)
        /\ \A j \in (1..b - 1) \cup (e + 1..Len(x)) : x[j] \in WhiteSpace
    BY <1>1
<1>3. /\ Len(SubSeq(x, b, e)) = IF b <= e THEN e - b + 1 ELSE 0
      /\ \A i \in 1..e - b + 1 : SubSeq(x, b, e)[i] = x[b + i - 1]
    BY SubSeqProperties
<1>4. CASE y = <<>>
    <2>1. e = b - 1
        BY <1>2, <1>3, <1>4
    <2>2. NonSpace(x) = {}
        BY <1>2, <2>1 DEF NonSpace
    <2>. QED
        BY <1>4, <2>2 DEF TrimSpace, NonSpace
<1>5. CASE y # <<>>
    <2>1. b <= e
        BY <1>2, <1>3, <1>5, SubSeqEmpty
    <2>2. x[b] \notin WhiteSpace /\ x[e] \notin WhiteSpace
        <3>1. Len(y) = e - b + 1 /\ 1 \in 1..e - b + 1 /\ e - b + 1 \in 1..e - b + 1
            BY <1>2, <1>3, <2>1
        <3>2. y[1] = x[b] /\ y[Len(y)] = x[e]
            BY <1>2, <1>3, <3>1
        <3>3. y[1] \notin WhiteSpace /\ y[Len(y)] \notin WhiteSpace
            BY <1>2, <1>5
        <3>. QED
            BY <3>2, <3>3
    <2>3. /\ NonSpace(x) \subseteq Nat
          /\ b \in NonSpace(x) /\ e \in NonSpace(x)
          /\ \A j \in NonSpace(x) : b <= j /\ j <= e
        BY <1>2, <2>1, <2>2 DEF NonSpace
    <2>4. FirstOf(NonSpace(x)) = b
        BY <2>3, LeastUnique
    <2>5. LastOf(NonSpace(x)) = e
        BY <2>3, GreatestUnique
    <2>. QED
        BY <1>2, <2>3, <2>4, <2>5, Zenon DEF TrimSpace, NonSpace
<1>. QED
    BY <1>4, <1>5

(* For every text, strings.TrimSpace returns the text trimmed as the spec  *)
(* means it (section 4.6): the infix without white space at either end,    *)
(* all that lies outside it being white space.                             *)
THEOREM TrimSpaceIsTrimmed ==
    ASSUME NEW Ch, NEW x \in Seq(Ch)
    PROVE  TrimSpace(x) = Trimmed(x)
<1>1. Trimmed(x) = CHOOSE y \in TrimCand(x) : IsTrim(x, y)
    BY DEF Trimmed, TrimCand, IsTrim
<1>2. IsTrim(x, Trimmed(x))
    BY <1>1, TrimExists, Zenon
<1>. QED
    BY <1>2, TrimUnique

-----------------------------------------------------------------------------
(* strings.SplitN on one line of the text.                                 *)

(* A slice of a slice is a slice of the text, the empty ones at either end *)
(* included (SubSeqOfSubSeq leaves those out).                             *)
LEMMA SliceOfSlice ==
    ASSUME NEW Ch, NEW s \in Seq(Ch), NEW b \in 1..Len(s), NEW e \in b..Len(s),
           NEW m \in 1..e - b + 2, NEW n \in m - 1..e - b + 1
    PROVE  SubSeq(SubSeq(s, b, e), m, n) = SubSeq(s, b + m - 1, b + n - 1)
<1>1. /\ SubSeq(s, b, e) \in Seq(Ch)
      /\ Len(SubSeq(s, b, e)) = e - b + 1
      /\ \A i \in 1..e - b + 1 : SubSeq(s, b, e)[i] = s[b + i - 1]
    BY SubSeqProperties
<1>2. /\ SubSeq(SubSeq(s, b, e), m, n) \in Seq(Ch)
      /\ Len(SubSeq(SubSeq(s, b, e), m, n)) = n - m + 1
      /\ \A i \in 1..n - m + 1 :
            SubSeq(SubSeq(s, b, e), m, n)[i] = SubSeq(s, b, e)[m + i - 1]
    BY <1>1, SubSeqProperties
<1>3. /\ SubSeq(s, b + m - 1, b + n - 1) \in Seq(Ch)
      /\ Len(SubSeq(s, b + m - 1, b + n - 1)) = n - m + 1
      /\ \A i \in 1..n - m + 1 :
            SubSeq(s, b + m - 1, b + n - 1)[i] = s[b + m - 1 + i - 1]
    BY SubSeqProperties
<1>4. \A i \in 1..n - m + 1 :
        SubSeq(SubSeq(s, b, e), m, n)[i] = SubSeq(s, b + m - 1, b + n - 1)[i]
    BY <1>1, <1>2, <1>3
<1>. QED
    BY <1>2, <1>3, <1>4, SeqEqual

(* For every text and every non-empty line of it, from position b to e,    *)
(* strings.SplitN(line, ":", 2) of applyLabels (line 397) returns one part *)
(* exactly when the line has no colon, the case where parts[1] panics, and *)
(* otherwise two, which strings.TrimSpace (398-399) turns into the spec's  *)
(* key and value of the line: the text before its first colon and the     *)
(* text after it, trimmed, either of them possibly empty.                 *)
THEOREM SplitNLine ==
    ASSUME NEW Ch, NEW s \in Seq(Ch), NEW b \in 1..Len(s), NEW e \in b..Len(s)
    PROVE  /\ ColonOf(s, <<b, e>>) = 0 => Len(SplitN(SubSeq(s, b, e), Colon)) = 1
           /\ ColonOf(s, <<b, e>>) > 0 =>
                /\ Len(SplitN(SubSeq(s, b, e), Colon)) = 2
                /\ TrimSpace(SplitN(SubSeq(s, b, e), Colon)[1]) = KeyOf(s, <<b, e>>)
                /\ TrimSpace(SplitN(SubSeq(s, b, e), Colon)[2]) = ValueOf(s, <<b, e>>)
<1> DEFINE line == SubSeq(s, b, e)
           C    == {j \in b..e : s[j] = Colon}
           P    == IndicesOf(line, Colon)
<1>1. /\ line \in Seq(Ch)
      /\ Len(line) = e - b + 1
      /\ \A k \in 1..e - b + 1 : line[k] = s[b + k - 1]
    BY SubSeqProperties
<1>2. P \subseteq Nat /\ \A k \in P : k \in 1..e - b + 1 /\ s[b + k - 1] = Colon
    BY <1>1 DEF IndicesOf
<1>3. \A k \in 1..e - b + 1 : s[b + k - 1] = Colon => k \in P
    BY <1>1 DEF IndicesOf
<1>4. ColonOf(s, <<b, e>>) = IF C = {} THEN 0 ELSE FirstOf(C)
    BY DEF ColonOf
<1>5. CASE C = {}
    <2>1. P = {}
        BY <1>2, <1>5
    <2>2. SplitN(line, Colon) = <<line>>
        BY <2>1 DEF SplitN
    <2>. QED
        BY <1>4, <1>5, <2>2
<1>6. CASE C # {}
    <2>0. C \subseteq Nat
        OBVIOUS
    <2>1. PICK c \in C : \A j \in C : c <= j
        BY <1>6, <2>0, LeastExists, Zenon
    <2>2. FirstOf(C) = c
        BY <2>0, <2>1, LeastUnique
    <2>3. ColonOf(s, <<b, e>>) = c
        BY <1>4, <1>6, <2>2, Zenon
    <2>4. c > 0 /\ c # 0
        OBVIOUS
    <2>5. c - b + 1 \in P /\ \A k \in P : c - b + 1 <= k
        BY <1>2, <1>3, <2>1
    <2>6. FirstOf(P) = c - b + 1
        BY <1>2, <2>5, LeastUnique
    <2>7. SplitN(line, Colon) = <<SubSeq(line, 1, FirstOf(P) - 1),
                                  SubSeq(line, FirstOf(P) + 1, Len(line))>>
        BY <2>5 DEF SplitN
    <2>8. SplitN(line, Colon) = <<SubSeq(line, 1, c - b),
                                  SubSeq(line, c - b + 2, e - b + 1)>>
        BY <1>1, <2>6, <2>7
    <2>9. SubSeq(line, 1, c - b) = SubSeq(s, b, c - 1)
        BY SliceOfSlice
    <2>10. SubSeq(line, c - b + 2, e - b + 1) = SubSeq(s, c + 1, e)
        BY SliceOfSlice
    <2>11. /\ KeyOf(s, <<b, e>>) = Trimmed(SubSeq(s, b, c - 1))
           /\ ValueOf(s, <<b, e>>) = Trimmed(SubSeq(s, c + 1, e))
        BY <2>3 DEF KeyOf, ValueOf
    <2>12. SubSeq(s, b, c - 1) \in Seq(Ch) /\ SubSeq(s, c + 1, e) \in Seq(Ch)
        BY SubSeqProperties
    <2>13. /\ TrimSpace(SubSeq(s, b, c - 1)) = KeyOf(s, <<b, e>>)
           /\ TrimSpace(SubSeq(s, c + 1, e)) = ValueOf(s, <<b, e>>)
        BY <2>11, <2>12, TrimSpaceIsTrimmed
    <2>14. /\ Len(SplitN(line, Colon)) = 2
           /\ SplitN(line, Colon)[1] = SubSeq(s, b, c - 1)
           /\ SplitN(line, Colon)[2] = SubSeq(s, c + 1, e)
        BY <2>8, <2>9, <2>10
    <2>. QED
        BY <2>3, <2>4, <2>13, <2>14, Zenon
<1>. QED
    BY <1>5, <1>6
=============================================================================
