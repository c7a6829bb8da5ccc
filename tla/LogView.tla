------------------------------ MODULE LogView ------------------------------
(***************************************************************************)
(* What the log viewer makes of its lines: the filter, the search, which   *)
(* lags 200 ms behind, and the coloured pieces of each visible line.       *)
(*                                                                         *)
(* A line is a sequence of cells, one of them the separator; the text of a *)
(* piece is the range of it, for the question is which cells are shown.    *)
(* Ranges count from 0 and leave out their end.                            *)
(***************************************************************************)
EXTENDS Undefined, Selection, Integers, Sequences, FiniteSets, SequencesExt

CONSTANTS
  LogLines,    \* the lines there may be
  Filters,     \* [filter -> the lines that pass it]
  Needles,     \* what is searched for: pairs of the cells and whether they are a regular expression
  Sizes,       \* the widths of time, level and target
  MaxShown     \* bound: lines in the log, and lines in the window

ASSUME LogViewAssumption ==
  /\ \A line \in LogLines : line \in Seq(ToSet(line))
  /\ \A size \in Sizes : size \in [1..3 -> Nat \ {0}]   \* no part is narrower than its title
  /\ None \notin Needles /\ \A needle \in Needles : needle[1] \in Seq(ToSet(needle[1])) /\ needle[1] # <<>>

VARIABLES
  logs,        \* the lines of the chosen log
  filtering,   \* the filter
  searching,   \* what is searched for, None for nothing
  search,      \* the matches, and the one that is current
  pending,     \* the search is to be done again
  partsShown,  \* the parts of a line that are shown
  partsSize,   \* their widths
  position     \* the first visible line

logViewVars == <<logs, filtering, searching, search, pending, partsShown, partsSize, position>>

Parts == <<"time", "level", "target", "message">>
NoSearch == [active |-> FALSE, index |-> 0, matches |-> <<>>]

LogViewInit ==
  /\ logs = <<>> /\ filtering \in DOMAIN Filters /\ searching = None
  /\ search = NoSearch /\ pending = FALSE
  /\ partsShown = ToSet(Parts) /\ partsSize \in Sizes
  /\ position = 0

Filtered == Selected(logs, Filters[filtering])

-----------------------------------------------------------------------------
(* Lines.                                                                  *)

Separator == "|"

\* indexOf from a place on; -1 when there is none.
IndexOf(line, from) ==
  LET places == {i \in from..(Len(line) - 1) : line[i + 1] = Separator}
  IN IF places = {} THEN -1 ELSE CHOOSE i \in places : \A j \in places : i <= j

Span(from, to) == [from |-> from, to |-> to]

\* A line that begins with a number and has three parts is structured; without a message the end of
\* the target is not found.
parseLine(line) ==
  LET timeEnd == IndexOf(line, 0)
      levelEnd == IndexOf(line, timeEnd + 1)
      targetEnd == IndexOf(line, levelEnd + 1)
      parts == <<timeEnd, levelEnd - timeEnd - 1, (IF targetEnd = -1 THEN Len(line) ELSE targetEnd) - levelEnd - 1>>
  IN IF line = <<>> \/ timeEnd <= 0 \/ levelEnd = -1 \/ line[1] # "1" \/ \E i \in 1..3 : parts[i] <= 0
     THEN [kind |-> "plain", full |-> Span(0, Len(line))]
     ELSE [kind |-> "structured",
           offsets |-> <<Span(0, timeEnd), Span(timeEnd + 1, levelEnd), Span(levelEnd + 1, targetEnd), Span(targetEnd + 1, Len(line))>>,
           message |-> IF targetEnd = -1 THEN 0 ELSE Len(line) - targetEnd - 1]

Token(kind, raw, start, length) == [kind |-> kind, raw |-> raw, start |-> start, length |-> length]

\* Where the tokens end that are there.
RenderCursor(tokens) == IF tokens = <<>> THEN 0 ELSE Last(tokens).start + Last(tokens).length

\* The parts that are shown, one after another; fitToWidth cuts or fills a part to its width.
tokenize(line) ==
  LET parsed == parseLine(line)
      length(n) == IF n = 4 THEN parsed.message ELSE partsSize[n]
      token(n, tokens) == Token(Parts[n], parsed.offsets[n], RenderCursor(tokens), length(n))
      pushed[n \in 0..4] ==
        IF n = 0 THEN <<>>
        ELSE IF Parts[n] \in partsShown /\ length(n) > 0 THEN Append(pushed[n - 1], token(n, pushed[n - 1]))
        ELSE pushed[n - 1]
  IN IF parsed.kind = "structured" THEN pushed[4]
     ELSE IF "message" \in partsShown THEN <<Token("message", parsed.full, 0, Len(line))>> ELSE <<>>

Least(a, b) == IF a <= b THEN a ELSE b
Greatest(a, b) == IF a >= b THEN a ELSE b

Segment(token, from, to, state) == [kind |-> token.kind, from |-> from, to |-> to, state |-> state]

\* Mutant of RenderedAt: what fitToWidth has cut off is marked, too.
RenderedUncut(token, raw) == token.start + raw - token.raw.from

\* Where a place of the raw line is in the token as it is shown.
RenderedAt(token, raw) == token.start + Least(raw - token.raw.from, token.length)

\* One match over one token.
Overlay(token, done, match, isCurrent) ==
  LET start == RenderedAt(token, Greatest(match.from, token.raw.from))
      end == RenderedAt(token, Least(match.to, token.raw.to))
  IN IF match.to <= token.raw.from \/ match.from >= token.raw.to THEN done
     ELSE [segments |-> done.segments
             \o (IF start > done.cursor THEN <<Segment(token, done.cursor, start, "none")>> ELSE <<>>)
             \o (IF end > start THEN <<Segment(token, start, end, IF isCurrent THEN "current" ELSE "found")>> ELSE <<>>),
           cursor |-> end]

\* The segments of a token, and those of a line, given the matches in it and which is the current one.
overlayToken(token, matches, index) ==
  LET done[k \in 0..Len(matches)] ==
        IF k = 0 THEN [segments |-> <<>>, cursor |-> token.start]
        ELSE Overlay(token, done[k - 1], matches[k], matches[k].globalIndex = index)
      all == done[Len(matches)]
      end == token.start + token.length
  IN all.segments \o (IF all.cursor < end THEN <<Segment(token, all.cursor, end, "none")>> ELSE <<>>)

overlaySearch(tokens, matches, index) ==
  LET drawn[i \in 0..Len(tokens)] ==
        IF i = 0 THEN <<>> ELSE drawn[i - 1] \o overlayToken(tokens[i], matches, index)
  IN drawn[Len(tokens)]

-----------------------------------------------------------------------------
(* Search.                                                                 *)

Occurs(line, needle, at) == at + Len(needle) <= Len(line) /\ SubSeq(line, at + 1, at + Len(needle)) = needle

\* compileMatcher: an expression finds matches that do not overlap; a text that is none, all places.
MatchesIn(line, needle) ==
  LET found[n \in 0..Len(line)] ==
        IF n = 0 THEN <<>>
        ELSE LET before == found[n - 1]
                 overlaps == needle[2] /\ before # <<>> /\ n <= Last(before) + Len(needle[1])
             IN IF Occurs(line, needle[1], n - 1) /\ ~overlaps THEN Append(before, n - 1) ELSE before
  IN found[Len(line)]

\* Every match of the list, in order.
FoundIn(list, needle) ==
  FlattenSeq([i \in DOMAIN list |->
    LET at == MatchesIn(list[i], needle)
    IN [k \in DOMAIN at |-> [line |-> i - 1, from |-> at[k], to |-> at[k] + Len(needle[1])]]])

\* The debounced watcher: the search begins anew at the first match.
Search ==
  /\ pending
  /\ pending' = FALSE
  /\ search' = IF searching = None THEN NoSearch
               ELSE LET found == FoundIn(Filtered, searching)
                    IN [active |-> TRUE, index |-> 0,
                        matches |-> [k \in DOMAIN found |-> [line |-> found[k].line, from |-> found[k].from,
                                                             to |-> found[k].to, globalIndex |-> k - 1]]]
  /\ UNCHANGED <<logs, filtering, searching, partsShown, partsSize, position>>

\* goTo, back and forth: the remainder is made positive.
goTo(step) ==
  /\ search.matches # <<>>
  /\ LET n == Len(search.matches) IN search' = [search EXCEPT !.index = (@ + step + n) % n]
  /\ UNCHANGED <<logs, filtering, searching, pending, partsShown, partsSize, position>>

\* reset is at once, and the watcher follows.
ResetSearch ==
  /\ searching # None
  /\ searching' = None /\ search' = NoSearch /\ pending' = TRUE
  /\ UNCHANGED <<logs, filtering, partsShown, partsSize, position>>

-----------------------------------------------------------------------------
(* Everything else.                                                        *)

\* The watcher's getter makes a new array whenever what it reads may have changed, so that another
\* list of the same length is searched, too.
Changed == pending' = TRUE

SearchFor(needle) ==
  /\ searching # needle
  /\ searching' = needle /\ pending' = TRUE
  /\ UNCHANGED <<logs, filtering, search, partsShown, partsSize, position>>

LogGrows(line) ==
  /\ Len(logs) < MaxShown
  /\ logs' = Append(logs, line)
  /\ UNCHANGED <<filtering, searching, search, partsShown, partsSize, position>> /\ Changed

\* Another log is chosen, or the log was cut.
LogChanges ==
  /\ logs # <<>> /\ logs' \in {<<line>> : line \in LogLines} /\ logs' # logs
  /\ UNCHANGED <<filtering, searching, search, partsShown, partsSize, position>> /\ Changed

Filter(filter) ==
  /\ filtering # filter
  /\ filtering' = filter
  /\ UNCHANGED <<logs, searching, search, partsShown, partsSize, position>> /\ Changed

\* The header's toggles, the drag of a border, and the scroll bar.
toggleSection(section) ==
  /\ partsShown' = IF section \in partsShown THEN partsShown \ {section} ELSE partsShown \cup {section}
  /\ UNCHANGED <<logs, filtering, searching, search, pending, partsSize, position>>

resizeSection ==
  /\ partsSize' \in Sizes
  /\ UNCHANGED <<logs, filtering, searching, search, pending, partsShown, position>>

updateView ==
  /\ position' \in 0..Len(Filtered)
  /\ UNCHANGED <<logs, filtering, searching, search, pending, partsShown, partsSize>>

LogViewNext ==
  \/ Search \/ ResetSearch \/ LogChanges \/ resizeSection \/ updateView
  \/ \E step \in {-1, 1} : goTo(step)
  \/ \E needle \in Needles : SearchFor(needle)
  \/ \E line \in LogLines : LogGrows(line)
  \/ \E filter \in DOMAIN Filters : Filter(filter)
  \/ \E section \in ToSet(Parts) : toggleSection(section)

\* The visible lines, each with its segments; matches of a line are those with its place in the list.
Segments ==
  [e \in 0..(Least(MaxShown, Len(Filtered)) - 1) |->
     IF position + e >= Len(Filtered) THEN <<>>
     ELSE overlaySearch(tokenize(Filtered[position + e + 1]),
                        Selected(search.matches, {m \in ToSet(search.matches) : m.line = position + e}), search.index)]

-----------------------------------------------------------------------------
(* Properties.                                                             *)

LogViewTypeOK ==
  /\ \A i \in DOMAIN logs : logs[i] \in LogLines
  /\ search.index \in 0..Greatest(0, Len(search.matches) - 1)
  /\ partsShown \subseteq ToSet(Parts)

\* A search that is not about to be repeated is of the lines that are there, whatever was filtered,
\* chosen or added since: the text is at each match, and no place where it is was missed.
SearchIsCurrent ==
  ~pending =>
    /\ searching = None => search.matches = <<>>
    /\ searching # None =>
         /\ \A k \in DOMAIN search.matches :
              LET m == search.matches[k] IN m.line + 1 \in DOMAIN Filtered /\ Occurs(Filtered[m.line + 1], searching[1], m.from)
         /\ \A i \in DOMAIN Filtered : \A at \in 0..(Len(Filtered[i]) - 1) :
              Occurs(Filtered[i], searching[1], at) =>
                \E k \in DOMAIN search.matches :
                  LET m == search.matches[k] IN m.line = i - 1 /\ m.from <= at /\ at < m.to

\* A match begins before one that was found earlier has ended.
MatchesOverlap(line) ==
  \E i, j \in DOMAIN search.matches :
    /\ i < j /\ search.matches[i].line = line /\ search.matches[j].line = line
    /\ search.matches[j].from < search.matches[i].to

\* Highlighting loses no text and doubles none: the segments of a line follow one another and make up
\* its tokens, cut parts and matches of lines that were there before included, unless matches overlap.
SegmentsTile ==
  \A e \in DOMAIN Segments :
    LET s == Segments[e]
        tokens == tokenize(Filtered[position + e + 1])
    IN position + e < Len(Filtered) /\ ~MatchesOverlap(position + e) =>
         /\ \A i \in DOMAIN tokens : tokens[i].start = IF i = 1 THEN 0 ELSE tokens[i - 1].start + tokens[i - 1].length
         /\ \A i \in DOMAIN s : s[i].from < s[i].to /\ s[i].from = (IF i = 1 THEN 0 ELSE s[i - 1].to)
         /\ (IF s = <<>> THEN 0 ELSE Last(s).to) = RenderCursor(tokens)
=============================================================================
