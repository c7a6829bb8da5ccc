----------------------------- MODULE LogStream -----------------------------
(***************************************************************************)
(* The log as the viewer follows it.  Opening the viewer asks the backend  *)
(* for a stream (use-log-stream.ts): what the log holds, then what is      *)
(* added, tick by tick, and a word when it was cut (logging.rs; the        *)
(* preview in a browser does the same over an array).  One stream runs at  *)
(* a time.  The page's calls are handled in any order, the messages of one *)
(* stream arrive in theirs.                                                *)
(*                                                                         *)
(* A line is named by how often the log was cut before it was written and  *)
(* its number since; all lines are of one length.                          *)
(***************************************************************************)
EXTENDS Undefined, Naturals, Sequences, FiniteSets, SequencesExt

CONSTANTS
  MaxLines,    \* bound: lines written
  MaxCuts,     \* bound: times the log is cut
  MaxViewers   \* bound: times the viewer is opened

ASSUME LogStreamAssumption == MaxLines \in Nat /\ MaxCuts \in Nat /\ MaxViewers \in Nat

Viewers == 1..MaxViewers

VARIABLES
  preview,    \* the page runs in a browser: its own array is the log
  logFile,    \* the whole lines in the log
  partial,    \* the log ends in the middle of a line
  journal,    \* history: the lines the log has held since each cut
  stream,     \* [viewer -> where its stream is, its offset and what it has measured]
  current,    \* the stream that is registered, or 0
  stops,      \* stop_log_stream calls that are not handled yet
  viewer,     \* [viewer -> whether it is open, its lines, the messages to it]
  missed      \* history: streams that could not see that the log was cut

logVars == <<logFile, partial, journal>>
streamVars == <<stream, current, stops, missed>>
logStreamVars == <<preview, logVars, streamVars, viewer>>

Written == FoldSeq(LAMBDA lines, n : n + Len(lines), 0, journal)
NextLine == <<Len(journal), Len(logFile) + 1>>

LogStreamInit ==
  /\ preview \in BOOLEAN
  /\ logFile = <<>> /\ partial = FALSE /\ journal = <<<<>>>>
  /\ stream = [v \in Viewers |-> [at |-> "none", offset |-> 0, length |-> 0, stopped |-> FALSE, cut |-> 1]]
  /\ current = 0 /\ stops = 0 /\ missed = {}
  /\ viewer = [v \in Viewers |-> [open |-> FALSE, lines |-> <<>>, channel |-> <<>>]]

-----------------------------------------------------------------------------
(* The log.                                                                *)

\* A write of the logger may be seen half way.
WriteHalf ==
  /\ ~preview /\ ~partial /\ Written < MaxLines
  /\ partial' = TRUE
  /\ UNCHANGED <<preview, logFile, journal, streamVars, viewer>>

\* plugin:log|log: the page's array, or the end of the line in the file.
WriteLog ==
  /\ partial \/ (preview /\ Written < MaxLines)
  /\ partial' = FALSE
  /\ logFile' = Append(logFile, NextLine)
  /\ journal' = [journal EXCEPT ![Len(journal)] = Append(@, NextLine)]
  /\ UNCHANGED <<preview, streamVars, viewer>>

CutLog ==
  /\ Len(journal) <= MaxCuts
  /\ logFile' = <<>> /\ partial' = FALSE
  /\ journal' = Append(journal, <<>>)
  /\ UNCHANGED <<preview, streamVars, viewer>>

-----------------------------------------------------------------------------
(* The streams.                                                            *)

Sends(v, type, lines) ==
  viewer' = [viewer EXCEPT ![v].channel = Append(@, [type |-> type, lines |-> lines])]

\* LogTail::begin: a new stream stops the one before.
StreamRegistered(v, at, offset) ==
  /\ stream' = [s \in Viewers |->
       IF s = v THEN [stream[v] EXCEPT !.at = at, !.offset = offset, !.cut = Len(journal)]
       ELSE IF s = current THEN [stream[s] EXCEPT !.stopped = TRUE] ELSE stream[s]]
  /\ current' = v

BeginStream(v) ==
  /\ ~preview /\ stream[v].at = "called"
  /\ StreamRegistered(v, "begun", 0)
  /\ UNCHANGED <<preview, logVars, stops, viewer, missed>>

\* The snapshot ends with the last whole line.
Snapshot(v) ==
  /\ stream[v].at = "begun"
  /\ stream' = [stream EXCEPT ![v].at = "tailing", ![v].offset = Len(logFile), ![v].cut = Len(journal)]
  /\ Sends(v, "snapshot", logFile)
  /\ UNCHANGED <<preview, logVars, current, stops, missed>>

\* streamBrowserLogs does both before it returns.
streamBrowserLogs(v) ==
  /\ preview /\ stream[v].at = "called"
  /\ StreamRegistered(v, "tailing", Len(logFile))
  /\ Sends(v, "snapshot", logFile)
  /\ UNCHANGED <<preview, logVars, stops, missed>>

\* The log was cut, and is as long again as it was: the offset is taken for one in the old log.
Unnoticed(v) ==
  IF stream[v].cut # Len(journal) /\ stream[v].offset > 0 /\ Len(logFile) >= stream[v].offset
  THEN missed \cup {v} ELSE missed

\* A stream at the beginning of the log follows whatever log there is.
Follows(v) == IF stream[v].offset = 0 THEN Len(journal) ELSE stream[v].cut

\* A tick: a stop, a log that is too short, nothing new, or something to read.
Tick(v) ==
  /\ ~preview /\ stream[v].at = "tailing"
  /\ stream' = [stream EXCEPT ![v] =
       IF @.stopped THEN [@ EXCEPT !.at = "ended"]
       ELSE IF Len(logFile) < @.offset THEN [@ EXCEPT !.offset = 0, !.cut = Len(journal)]
       ELSE IF Len(logFile) = @.offset /\ ~partial THEN @
       ELSE [@ EXCEPT !.at = "reading", !.length = Len(logFile)]]
  /\ IF ~stream[v].stopped /\ Len(logFile) < stream[v].offset THEN Sends(v, "truncated", <<>>) ELSE UNCHANGED viewer
  /\ missed' = Unnoticed(v)
  /\ UNCHANGED <<preview, logVars, current, stops>>

\* Where the next read begins: behind the last whole line.
NextOffset(v) == Len(logFile)

Unread(v) == SubSeq(logFile, stream[v].offset + 1, Len(logFile))

\* The log is read later than it was measured; without a whole line there is nothing to send.
ReadTail(v) ==
  /\ stream[v].at = "reading"
  /\ stream' = [stream EXCEPT ![v] =
       IF Unread(v) = <<>> THEN [@ EXCEPT !.at = "tailing", !.length = 0]
       ELSE [@ EXCEPT !.at = "tailing", !.length = 0, !.offset = NextOffset(v), !.cut = Follows(v)]]
  /\ IF Unread(v) = <<>> THEN UNCHANGED viewer ELSE Sends(v, "lines", Unread(v))
  /\ missed' = Unnoticed(v)
  /\ UNCHANGED <<preview, logVars, current, stops>>

\* An interval that is cleared has no more ticks.
TickInBrowser(v) ==
  /\ preview /\ stream[v].at = "tailing" /\ ~stream[v].stopped
  /\ IF Len(logFile) < stream[v].offset
     THEN stream' = [stream EXCEPT ![v].offset = 0, ![v].cut = Len(journal)] /\ Sends(v, "truncated", <<>>)
     ELSE /\ Len(logFile) > stream[v].offset
          /\ stream' = [stream EXCEPT ![v].offset = Len(logFile), ![v].cut = Follows(v)]
          /\ Sends(v, "lines", Unread(v))
  /\ missed' = Unnoticed(v)
  /\ UNCHANGED <<preview, logVars, current, stops>>

\* LogTail::stop, of whatever stream is registered when the call is handled.
stop_log_stream ==
  /\ stops > 0
  /\ stops' = stops - 1
  /\ stream' = [s \in Viewers |-> IF s = current THEN [stream[s] EXCEPT !.stopped = TRUE] ELSE stream[s]]
  /\ current' = 0
  /\ UNCHANGED <<preview, logVars, viewer, missed>>

-----------------------------------------------------------------------------
(* The viewer.                                                             *)

\* useLogStream, onMounted.
MountViewer(v) ==
  /\ stream[v].at = "none" /\ \A k \in 1..(v - 1) : stream[k].at # "none" /\ ~viewer[k].open
  /\ viewer' = [viewer EXCEPT ![v].open = TRUE]
  /\ stream' = [stream EXCEPT ![v].at = "called"]
  /\ UNCHANGED <<preview, logVars, current, stops, missed>>

\* onUnmounted: the call does not say which stream is meant.
UnmountViewer(v) ==
  /\ viewer[v].open
  /\ viewer' = [viewer EXCEPT ![v].open = FALSE]
  /\ stops' = stops + 1
  /\ UNCHANGED <<preview, logVars, stream, current, missed>>

\* channel.onmessage
Received(lines, event) ==
  CASE event.type = "snapshot" -> event.lines
    [] event.type = "lines" -> lines \o event.lines
    [] event.type = "truncated" -> <<>>

OnLogEvent(v) ==
  /\ viewer[v].channel # <<>>
  /\ viewer' = [viewer EXCEPT ![v].channel = Tail(@), ![v].lines = Received(@, Head(viewer[v].channel))]
  /\ UNCHANGED <<preview, logVars, streamVars>>

StreamStep(v) == BeginStream(v) \/ Snapshot(v) \/ streamBrowserLogs(v) \/ Tick(v) \/ ReadTail(v) \/ TickInBrowser(v) \/ OnLogEvent(v)

LogStreamNext ==
  \/ WriteHalf \/ WriteLog \/ CutLog \/ stop_log_stream
  \/ \E v \in Viewers : StreamStep(v) \/ MountViewer(v) \/ UnmountViewer(v)

-----------------------------------------------------------------------------
(* Properties.                                                             *)

LogStreamTypeOK ==
  /\ current \in Viewers \cup {0} /\ stops \in 0..MaxViewers
  /\ \A v \in Viewers : stream[v].at \in {"none", "called", "begun", "tailing", "reading", "ended"}
  /\ logFile = Last(journal)

\* What a viewer shows is how the log began at some time, with no line left out, shown twice or
\* halved, whatever is read while the log grows and is cut; unless it was cut and had as many lines
\* again before the stream looked.
ShownWasWritten ==
  \A v \in Viewers \ missed : \E cut \in DOMAIN journal : IsPrefix(viewer[v].lines, journal[cut])

\* One stream runs at most, and the stream of an open viewer is the one unless a call of an earlier
\* viewer was handled late.
OneStream ==
  /\ Cardinality({v \in Viewers : stream[v].at \in {"begun", "tailing", "reading"} /\ ~stream[v].stopped}) <= 1
  /\ \A v \in Viewers : stream[v].stopped => v # current
=============================================================================
