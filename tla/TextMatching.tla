---------------------------- MODULE TextMatching ----------------------------
(***************************************************************************)
(* Which classes a text asks for                                           *)
(* (src/src/detect_objects/voice_text_convert/parse_and_match_module.py).  *)
(*                                                                         *)
(* A text is a sequence of symbols: Space, those of Alnum (a-z and 0-9,    *)
(* lower case), and others, which stand for Korean syllables.              *)
(***************************************************************************)
EXTENDS Naturals, SequencesExt

CONSTANTS Space,
          Alnum,
          Other,
          Dictionary   (* aliases and their classes, in the order in which  *)
                       (* the two JSON files are read                       *)

Text(n) == UNION {[1..k -> Alnum \cup Other \cup {Space}] : k \in 0..n}

ASSUME TextMatchingAssumption ==
       /\ Space \notin Alnum \cup Other /\ Alnum \cap Other = {}
       /\ Len(Dictionary) \in Nat /\ DOMAIN Dictionary = 1..Len(Dictionary)
       /\ \A i \in DOMAIN Dictionary :
             /\ Dictionary[i].alias \in Seq(Alnum \cup Other \cup {Space})
             /\ \E k \in DOMAIN Dictionary[i].alias : Dictionary[i].alias[k] # Space

Stretches(text) == {p \in (DOMAIN text) \X (DOMAIN text) : p[1] <= p[2]}

(* The members of a finite set in a strict order, given by its pairs.       *)
(* Places are counted here, as the provers cannot expand SortSeq.           *)
InOrder(S, order) ==
    [n \in 1..Cardinality(S) |->
        CHOOSE x \in S : Cardinality({y \in S : <<y, x>> \in order}) = n - 1]

Ascending(places) == InOrder(places, {p \in places \X places : p[1] < p[2]})

(* What a text has at some places.                                          *)
Keep(text, places) ==
    LET at == Ascending(places) IN [n \in DOMAIN at |-> text[at[n]]]

Letters(text) == {k \in DOMAIN text : text[k] # Space}

(* _normalize *)
Normalize(text) == Keep(text, Letters(text))

(* split(), with the words joined by single spaces: of the space between    *)
(* two words the last one stays.                                            *)
Gaps(text) ==
    {k \in DOMAIN text : /\ text[k] = Space /\ k + 1 \in Letters(text)
                         /\ \E j \in Letters(text) : j < k}

Words(text) == Keep(text, Letters(text) \cup Gaps(text))

IsAscii(alias) == \A k \in DOMAIN alias : alias[k] \in Alnum \cup {Space}

(* Where the first of some stretches begins; 0: there is none.              *)
First(stretches) == IF stretches = {} THEN 0 ELSE Min({p[1] : p \in stretches})

(* Variant: the name is found inside other words, too.                      *)
FindAsciiInside(text, alias) ==
    First({p \in Stretches(text) :
              /\ text[p[1]] # Space
              /\ Words(SubSeq(text, p[1], p[2])) = Words(alias)})

(* An English name: its words, with any space between them, and no letter   *)
(* or digit around.                                                         *)
FindAscii(text, alias) ==
    First({p \in Stretches(text) :
              /\ text[p[1]] # Space
              /\ p[1] > 1 => text[p[1] - 1] \notin Alnum
              /\ p[2] < Len(text) => text[p[2] + 1] \notin Alnum
              /\ Words(SubSeq(text, p[1], p[2])) = Words(alias)})

(* A Korean name: anywhere, as Korean words carry their particles.          *)
FindKorean(text, alias) ==
    LET whole == Normalize(text)
    IN  First({p \in Stretches(whole) : SubSeq(whole, p[1], p[2]) = Normalize(alias)})

(* _find_alias *)
Find(text, alias) ==
    IF IsAscii(alias) THEN FindAscii(text, alias) ELSE FindKorean(text, alias)

(* The length of a name without its spaces.                                 *)
Length(alias) == Cardinality(Letters(alias))

(* Whether entry i is tried before entry k: longer names come first.        *)
Before(i, k) ==
    LET a == Length(Dictionary[i].alias)
        b == Length(Dictionary[k].alias)
    IN  a > b \/ (a = b /\ i < k)

(* Of the names of a class that are found, the one tried first counts.      *)
Found(text) ==
    {i \in DOMAIN Dictionary :
        /\ Find(text, Dictionary[i].alias) > 0
        /\ ~ \E k \in DOMAIN Dictionary :
                /\ Before(k, i) /\ Dictionary[k].class = Dictionary[i].class
                /\ Find(text, Dictionary[k].alias) > 0}

(* Whether a found name stands before another one; sort keeps the order of  *)
(* those at one place.                                                      *)
Earlier(text) ==
    {p \in Found(text) \X Found(text) :
        LET a == Find(text, Dictionary[p[1]].alias)
            b == Find(text, Dictionary[p[2]].alias)
        IN  a < b \/ (a = b /\ Before(p[1], p[2]))}

(* extract: the classes by the place where they were found.                 *)
Extract(text) ==
    LET found == InOrder(Found(text), Earlier(text))
    IN  [n \in DOMAIN found |-> Dictionary[found[n]].class]

-----------------------------------------------------------------------------
(* What a text mentions, word by word.                                      *)

(* The maximal runs of letters and digits in a text.                        *)
Runs(text) ==
    {p \in Stretches(text) :
        /\ \A k \in p[1]..p[2] : text[k] \in Alnum
        /\ p[1] > 1 => text[p[1] - 1] \notin Alnum
        /\ p[2] < Len(text) => text[p[2] + 1] \notin Alnum}

(* A mention in English is a run of such words with only space between      *)
(* them; one in Korean is the name itself, however it is spaced.            *)
Mentions(text, alias) ==
    \E p \in Stretches(text) :
        LET part == SubSeq(text, p[1], p[2]) IN
        IF IsAscii(alias)
        THEN /\ \E r, s \in Runs(text) : r[1] = p[1] /\ s[2] = p[2]
             /\ IsAscii(part) /\ Words(part) = Words(alias)
        ELSE Normalize(part) = Normalize(alias)

Mentioned(text) ==
    {Dictionary[i].class : i \in {k \in DOMAIN Dictionary : Mentions(text, Dictionary[k].alias)}}
=============================================================================
