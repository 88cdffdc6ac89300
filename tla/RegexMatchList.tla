--------------------------- MODULE RegexMatchList ---------------------------
(***************************************************************************)
(* The text of a file, its lines (navigator/File.cc) and the matches of an *)
(* expression in it (navigator/RegexMatchList.cc).                         *)
(*                                                                         *)
(* Offsets and line numbers count from 0, as in the code; a range includes *)
(* its start and not its end.  An expression is the set of the words it    *)
(* matches, which stands for the automaton re2 makes of it.                *)
(***************************************************************************)
EXTENDS Integers, Sequences, FiniteSets

LOCAL INSTANCE FiniteSetsExt

CONSTANTS RawContent,   \* RawContent[f]: the bytes of file f on disk
          CR, LF,       \* characters
          Language,     \* Language[r]: the words that expression r matches
          EmptyRegex    \* Regex(): matches nothing (Regex::empty)

Files == DOMAIN RawContent
Regexes == DOMAIN Language

ASSUME RegexAssumption == EmptyRegex \in Regexes /\ Language[EmptyRegex] = {}
-----------------------------------------------------------------------------
(* loadFile, first half: CRLF and CR become LF.                            *)
Canonical(raw) ==
    LET rest[i \in 1 .. Len(raw) + 2] ==
            IF i > Len(raw) THEN <<>>
            ELSE IF raw[i] # CR THEN <<raw[i]>> \o rest[i + 1]
            ELSE <<LF>> \o rest[IF i < Len(raw) /\ raw[i + 1] = LF THEN i + 2 ELSE i + 1]
    IN rest[1]

Content == [f \in Files |-> Canonical(RawContent[f])]
Size(f) == Len(Content[f])

(* loadFile, second half: a line starts at 0 and after every LF, except    *)
(* that nothing after the last LF is no line.  In order.                   *)
LineStarts ==
    [f \in Files |->
        LET starts == ({0} \cup {i \in 1 .. Size(f) : Content[f][i] = LF}) \ {Size(f)}
        IN [line \in 0 .. Cardinality(starts) - 1 |->
               CHOOSE s \in starts : Cardinality({t \in starts : t < s}) = line]]

LineCount(f) == Cardinality(DOMAIN LineStarts[f])

(* lineForOffset: binary search for the last line that starts at or before *)
(* the offset.                                                             *)
LineForOffset(f, offset) ==
    LET search[line1 \in Nat, line2 \in Int] ==
            LET midLine == line1 + (line2 - line1) \div 2 + 1 IN
            IF line1 >= line2 THEN line1
            ELSE IF offset < LineStarts[f][midLine]
            THEN search[line1, midLine - 1]
            ELSE search[midLine, line2]
    IN search[0, LineCount(f) - 1]

(* FileLocation(file, offset).line: the end of the file is a line more.    *)
LineOf(f, offset) == IF offset = Size(f) THEN LineCount(f) ELSE LineForOffset(f, offset)

(* The inverse, for the start of a line.                                   *)
OffsetOf(f, line) == IF line < LineCount(f) THEN LineStarts[f][line] ELSE Size(f)
-----------------------------------------------------------------------------
Occurs(f, r, start, end) == SubSeq(Content[f], start + 1, end) \in Language[r]

(* Prog::SearchDFA, forward: the end of the leftmost longest match from    *)
(* pos on, -1 when there is none.                                          *)
SearchEnd(f, r, pos) ==
    LET starts == {s \in pos .. Size(f) : \E e \in s .. Size(f) : Occurs(f, r, s, e)} IN
    IF starts = {} THEN -1
    ELSE LET s == Min(starts) IN Max({e \in s .. Size(f) : Occurs(f, r, s, e)})

(* Prog::SearchDFA, backward and anchored: the longest match that ends at  *)
(* `end` and starts at pos or later.                                       *)
SearchStart(f, r, pos, end) == Min({s \in pos .. end : Occurs(f, r, s, end)})

(* Mutant: an empty match right after a match is a match.                  *)
MatchList_empty(f, r) ==
    LET from[pos \in Nat] ==
            LET end == SearchEnd(f, r, pos) IN
            IF pos > Size(f) \/ end = -1 THEN <<>>
            ELSE <<<<SearchStart(f, r, pos, end), end>>>>
                 \o from[IF end > pos THEN end ELSE pos + 1]
    IN from[0]

(* RegexMatchList(content, regex): the matches as <<start, end>>, in order.*)
(* The search goes on where the last match ended, and at least one further *)
(* than it started; an (empty) match that ends where the last one did is   *)
(* left out.  operator[] finds the start of a match, when it is asked for, *)
(* by searching backwards in what the match was found in.                  *)
MatchList(f, r) ==
    LET from[pos \in Nat, lastMatchEnd \in Int] ==
            LET end == SearchEnd(f, r, pos) IN
            IF pos > Size(f) \/ end = -1 THEN <<>>
            ELSE (IF end > lastMatchEnd
                  THEN <<<<SearchStart(f, r, pos, end), end>>>> ELSE <<>>)
                 \o from[Max({end, pos + 1}), Max({end, lastMatchEnd})]
    IN from[0, -1]

(* Every list of matches there can be.                                     *)
Matches == [f \in Files |-> [r \in Regexes |-> MatchList(f, r)]]
=============================================================================
