--------------------------- MODULE KanjiMarkup ---------------------------
(***************************************************************************)
(* The marks in the texts of the kanji application: {name} for a value,     *)
(* {kanji|reading}, <a>..</a> for emphasis and <br>.  A text is read from   *)
(* left to right into segments, which are shown or made plain.              *)
(* Sources: src/web/src/kanji/i18n/markup.ts, MarkupView.tsx.               *)
(*                                                                         *)
(* A character is a value: "w" a letter of a name, "k" a kanji, "r" the     *)
(* mark of repetition, "-" any other one, "<" any lone angle bracket; the   *)
(* tags are one character each.  A text grows by a character at a time.     *)
(***************************************************************************)
EXTENDS Naturals, Sequences, SequencesExt, FiniteSets, FiniteSetsExt

CONSTANTS Chars,   \* the characters of a text
          Begins,  \* what texts begin with
          MaxMore  \* bound: characters that follow

KanjiMarkupAssumption ==
    Chars \subseteq {"w", "k", "r", "-", "{", "}", "|", "<", "<br>", "<a>", "</a>"} /\ MaxMore \in Nat

VARIABLE text

--------------------------------------------------------------------------
Txt(s) == [type |-> "text", value |-> s]
Br == [type |-> "br"]
Var(s) == [type |-> "var", name |-> s]
Furigana(b, r) == [type |-> "furigana", base |-> b, reading |-> r]
Accent(c) == [type |-> "accent", children |-> c]

AllIn(s, set) == s # <<>> /\ \A i \in DOMAIN s : s[i] \in set
Plain == Chars \ {"{", "}", "|", "<", "<br>", "<a>", "</a>"}

\* The segment that starts at position i and ends at j, if that is a mark.
IsVar(s, i, j) == s[i] = "{" /\ s[j] = "}" /\ AllIn(SubSeq(s, i + 1, j - 1), {"w"})
Bars(s, i, j) == {m \in i + 1 .. j - 1 : s[m] = "|"}
IsFurigana(s, i, j) ==
    /\ s[i] = "{" /\ s[j] = "}" /\ Cardinality(Bars(s, i, j)) = 1
    /\ \A m \in Bars(s, i, j) : AllIn(SubSeq(s, i + 1, m - 1), Plain) /\ AllIn(SubSeq(s, m + 1, j - 1), Plain)
IsMark(s, i, j) == (i = j /\ s[i] = "<br>") \/ IsVar(s, i, j) \/ IsFurigana(s, i, j)
MarkAt(s, i, j) ==
    IF s[i] = "<br>" THEN Br
    ELSE IF IsVar(s, i, j) THEN Var(SubSeq(s, i + 1, j - 1))
    ELSE LET m == CHOOSE b \in Bars(s, i, j) : TRUE
         IN  Furigana(SubSeq(s, i + 1, m - 1), SubSeq(s, m + 1, j - 1))

\* What lies between two marks is text.
Text(s, from, to) == IF from > to THEN <<>> ELSE <<Txt(SubSeq(s, from, to))>>

\* tokenizeSegments: the leftmost mark, then what follows it.
RECURSIVE Tokens(_, _)
Tokens(s, from) ==
    LET starts == {i \in from .. Len(s) : \E j \in i .. Len(s) : IsMark(s, i, j)}
    IN  IF starts = {} THEN Text(s, from, Len(s))
        ELSE LET i == Min(starts)
                 j == Min({e \in i .. Len(s) : IsMark(s, i, e)})
             IN  Text(s, from, i - 1) \o <<MarkAt(s, i, j)>> \o Tokens(s, j + 1)

\* parseMarkup: the first <a> and the first </a> after it, what is between them
\* and around them.
RECURSIVE Segments(_)
Segments(s) ==
    LET opens == {i \in DOMAIN s : s[i] = "<a>" /\ \E j \in i + 1 .. Len(s) : s[j] = "</a>"}
    IN  IF opens = {} THEN Tokens(s, 1)
        ELSE LET i == Min(opens)
                 j == Min({e \in i + 1 .. Len(s) : s[e] = "</a>"})
             IN  Tokens(SubSeq(s, 1, i - 1), 1)
                 \o <<Accent(Tokens(SubSeq(s, i + 1, j - 1), 1))>>
                 \o Segments(SubSeq(s, j + 1, Len(s)))

\* Every inline segment, those of an emphasis in its place.
Inline(s) ==
    FlattenSeq([i \in DOMAIN s |-> IF s[i].type = "accent" THEN s[i].children ELSE <<s[i]>>])

\* inlineToPlainText: a value is there ("v"), or is not.
PlainOf(seg, given) ==
    CASE seg.type = "text" -> seg.value
      [] seg.type = "br" -> <<" ">>
      [] seg.type = "furigana" -> seg.base
      [] seg.type = "var" -> IF given THEN <<"v">> ELSE <<>>
PlainText(s, given) ==
    LET all == Inline(Segments(s)) IN FlattenSeq([i \in DOMAIN all |-> PlainOf(all[i], given)])

\* needsRuby for a kanji that is learned, not learned or of no known level.
NeedsRuby(base, mode, level) ==
    /\ \E i \in DOMAIN base : base[i] \in {"k", "r"}
    /\ mode = "all" \/ (mode = "unlearned" /\ \E i \in DOMAIN base : base[i] = "k" /\ level # "learned")

\* What Markup shows of an inline segment: its characters, with a ruby or not.
Shown(seg, mode, level) ==
    [chars |-> PlainOf(seg, TRUE),
     ruby  |-> seg.type = "furigana" /\ NeedsRuby(seg.base, mode, level)]

--------------------------------------------------------------------------
Init == text \in Begins
Grow(c) ==
    /\ \E b \in Begins : IsPrefix(b, text) /\ Len(text) < Len(b) + MaxMore
    /\ text' = Append(text, c)
Next == \E c \in Chars : Grow(c)
Spec == Init /\ [][Next]_text

--------------------------------------------------------------------------
(* Properties.                                                             *)

Source(seg) ==
    CASE seg.type = "text" -> seg.value
      [] seg.type = "br" -> <<"<br>">>
      [] seg.type = "var" -> <<"{">> \o seg.name \o <<"}">>
      [] seg.type = "furigana" -> <<"{">> \o seg.base \o <<"|">> \o seg.reading \o <<"}">>
Written(segs) == FlattenSeq([i \in DOMAIN segs |-> Source(segs[i])])
Rewritten(s) ==
    LET segs == Segments(s)
    IN  FlattenSeq([i \in DOMAIN segs |->
            IF segs[i].type = "accent" THEN <<"<a>">> \o Written(segs[i].children) \o <<"</a>">>
            ELSE Source(segs[i])])

\* Reading loses nothing and adds nothing: the segments written out again are
\* the text (markup.ts 68-127).
NothingLost == Rewritten(text) = text

\* A text segment holds no <br>, and no value or reading that a reader would
\* see as braces, wherever the other marks are (markup.ts 50-67).
NoMarkIsShown ==
    \A k \in DOMAIN Inline(Segments(text)) :
      LET seg == Inline(Segments(text))[k]
      IN  seg.type = "text" =>
            \A i \in DOMAIN seg.value : \A j \in i .. Len(seg.value) : ~IsMark(seg.value, i, j)

Count(s, c) == Cardinality({i \in DOMAIN s : s[i] = c})

\* Every kanji is heard once, wherever the marks are, but those of a reading,
\* which is another spelling of what is heard (I18nProvider.tsx 34-46).
EachKanjiIsHeardOnce ==
    LET all == Inline(Segments(text))
        readings == FlattenSeq([i \in DOMAIN all |->
                        IF all[i].type = "furigana" THEN all[i].reading ELSE <<>>])
    IN  Count(PlainText(text, TRUE), "k") + Count(readings, "k") = Count(text, "k")

\* Who has not learned a kanji, or of whom nobody can tell, gets every reading
\* that a beginner gets, but above a lone mark of repetition (markup.ts 135-149).
UnlearnedGetReadings ==
    \A k \in DOMAIN Inline(Segments(text)) :
      LET seg == Inline(Segments(text))[k]
      IN  (Shown(seg, "all", "unlearned").ruby /\ ~Shown(seg, "unlearned", "unlearned").ruby)
            => \A i \in DOMAIN seg.base : seg.base[i] # "k"
==========================================================================
