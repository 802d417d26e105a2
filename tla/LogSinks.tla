------------------------------ MODULE LogSinks ------------------------------
(***************************************************************************)
(* kout and its log file (src/logging): TeeBuf copies every character to   *)
(* its sinks and watches the colours, RotatingFileSink keeps the logs of   *)
(* the runs before.  kerr is another instance of the same.  The program is *)
(* started again and again, and may end at any point of a rotation; it     *)
(* calls setup_io before its first output, and perhaps again.              *)
(*                                                                         *)
(* A string is written character by character (xsputn, overflow): when one *)
(* fails, the ostream takes note and drops it with all that follows.       *)
(***************************************************************************)
EXTENDS Naturals, Sequences, SequencesExt, FiniteSetsExt

CONSTANTS
  MaxFiles, \* max_logs, the last number of a log: 10 in the code
  MaxLogs,  \* bound: logs ever created
  MaxChars, \* bound: characters between two calls of setup_io
  TextLogs  \* bound: logs that are written to

\* The characters that update_color_state tells apart: [ stands for all that
\* may end a sequence, 1 for all that may not, other than 0.
Chars == {"1", "0", "m", "[", "esc", "nl"}
\* 0 is the log itself, the others what rotation makes of it.
Places == 0..MaxFiles

ASSUME LogAssumption ==
  MaxFiles \in Nat \ {0} /\ {MaxLogs, MaxChars, TextLogs} \subseteq Nat

VARIABLES
  up,         \* the program runs
  pc, index,  \* where setup_io is, and the i of rotate_logs
  disk,       \* place |-> the log there, 0 for none; a log is its number, in
              \* the order in which they were begun
  newest,     \* the log begun last
  tee,        \* TeeBuf, with the badbit of its ostream and the at_line_start
              \* of the file
  broken,     \* the sinks whose sputc fails from now on
  sent, got,  \* history: characters given to the ostream, and to every sink,
              \* since the sinks were attached
  terminal,   \* history: what a terminal that shows the console would be in
  tangled,    \* history: an escape came inside a sequence, or a line end
              \* right behind an escape
  torn, lost, \* history: a rotation was broken off; a rename failed
  begun       \* history: the newest log when the rotation began

outVars  == <<tee, broken, sent, got, terminal, tangled>>
diskVars == <<disk, newest, torn, lost, begun>>
logVars  == <<up, pc, index, outVars, diskVars>>

FreshTee == [sinks |-> <<>>, state |-> "TEXT", buffer_fragment |-> <<>>,
             is_colored |-> FALSE, bad |-> FALSE, at_line_start |-> TRUE]
NoneGot  == [console |-> 0, file |-> 0, socket |-> 0]
Plain    == [seq |-> "text", one |-> FALSE, coloured |-> FALSE]

LogInit ==
  /\ up = FALSE /\ pc = "idle" /\ index = 0
  /\ disk = [p \in Places |-> 0]
  /\ newest = 0 /\ torn = FALSE /\ lost = FALSE /\ begun = 0
  /\ tee = FreshTee /\ broken = {}
  /\ sent = 0 /\ got = NoneGot /\ terminal = Plain /\ tangled = FALSE

-----------------------------------------------------------------------------
(* The program starts and ends.                                             *)

\* The stream log_file of io.cpp opens the log before main: where there is
\* none it begins an empty one, unless there is not even a directory for it,
\* which only RotatingFileSink makes.
Start ==
  /\ ~up
  /\ newest + 1 < MaxLogs
  /\ up' = TRUE
  /\ \/ disk[0] # 0 /\ UNCHANGED <<disk, newest>>
     \/ /\ disk[0] = 0
        /\ newest' = newest + 1
        /\ disk' = [disk EXCEPT ![0] = newest']
     \/ (\A p \in Places : disk[p] = 0) /\ UNCHANGED <<disk, newest>>
  /\ UNCHANGED <<pc, index, outVars, torn, lost, begun>>

\* At any point, also between two renames.
Stop ==
  /\ up
  /\ up' = FALSE /\ pc' = "idle" /\ index' = 0
  /\ torn' = (torn \/ pc # "idle")
  /\ tee' = FreshTee /\ broken' = {}
  /\ sent' = 0 /\ got' = NoneGot /\ terminal' = Plain /\ tangled' = FALSE
  /\ UNCHANGED <<disk, newest, lost, begun>>

-----------------------------------------------------------------------------
(* setup_io, with the constructor of RotatingFileSink.                      *)

\* The sinks are taken away first.  A log that is not there needs no room.
BeginSetup ==
  /\ up /\ pc = "idle"
  /\ newest < MaxLogs
  /\ tee' = [tee EXCEPT !.sinks = <<>>]
  /\ begun' = newest
  /\ IF disk[0] = 0 THEN pc' = "open" /\ index' = 0
     ELSE pc' = "rotate" /\ index' = MaxFiles - 1
  /\ UNCHANGED <<up, disk, newest, torn, lost, broken, sent, got, terminal,
                 tangled>>

\* The log at the one place takes the place of that at the other.
Rename(from, to) == disk' = [disk EXCEPT ![to] = disk[from], ![from] = 0]

\* Mutant of RotateOne: the loop runs the other way.
RotateUp ==
  /\ pc = "rotate" /\ index >= 1
  /\ LET i == MaxFiles - index
     IN  IF disk[i] # 0 THEN Rename(i, i + 1) ELSE UNCHANGED disk
  /\ index' = index - 1
  /\ UNCHANGED <<up, pc, outVars, newest, torn, lost, begun>>

\* Errors are ignored.
RotateOne ==
  /\ pc = "rotate" /\ index >= 1
  /\ \/ /\ IF disk[index] # 0 THEN Rename(index, index + 1) ELSE UNCHANGED disk
        /\ UNCHANGED lost
     \/ disk[index] # 0 /\ UNCHANGED disk /\ lost' = TRUE
  /\ index' = index - 1
  /\ UNCHANGED <<up, pc, outVars, newest, torn, begun>>

RotateLast ==
  /\ pc = "rotate" /\ index = 0
  /\ \/ Rename(0, 1) /\ UNCHANGED lost
     \/ UNCHANGED disk /\ lost' = TRUE
  /\ pc' = "open"
  /\ UNCHANGED <<up, index, outVars, newest, torn, begun>>

\* A log that is still there is truncated.
NewLog == [disk EXCEPT ![0] = newest + 1]

\* The object of an earlier call is destroyed; its file has moved.  The state
\* of the colours stays.
Open ==
  /\ pc = "open"
  /\ newest' = newest + 1
  /\ disk' = NewLog
  /\ \E out_socket \in BOOLEAN :
       tee' = [tee EXCEPT !.at_line_start = TRUE,
                          !.sinks = @ \o <<"console", "file">> \o
                            IF out_socket THEN <<"socket">> ELSE <<>>]
  /\ sent' = 0 /\ got' = NoneGot
  /\ pc' = "idle"
  /\ UNCHANGED <<up, index, broken, terminal, tangled, torn, lost, begun>>

-----------------------------------------------------------------------------
(* Output.                                                                  *)

NextState(c) ==
  CASE tee.state = "TEXT" /\ c = "esc" -> "ESCAPED"
    [] tee.state = "ESCAPED" /\ c = "[" -> "BRACKET"
    [] tee.state = "BRACKET" /\ c \notin {"m", "["} -> "BRACKET"
    [] OTHER -> "TEXT"

\* Mutant of UpdateColorState: a 0 anywhere in the sequence is a reset.
UpdateAnyReset(c) ==
  [tee EXCEPT
     !.state = NextState(c),
     !.buffer_fragment = IF NextState(c) = "TEXT" THEN <<>> ELSE Append(@, c),
     !.is_colored = IF tee.state = "BRACKET" /\ c = "m"
                    THEN ~Contains(tee.buffer_fragment, "0") ELSE @]

\* A letter, m or [ ends a sequence that has begun with a bracket.
UpdateColorState(c) ==
  [tee EXCEPT
     !.state = NextState(c),
     !.buffer_fragment = IF NextState(c) = "TEXT" THEN <<>> ELSE Append(@, c),
     !.is_colored = IF tee.state = "BRACKET" /\ c = "m"
                    THEN tee.buffer_fragment # <<"esc", "[", "0">> ELSE @]

\* The first of the sinks that refuses, or one place behind the last.
Refusing ==
  Min({n \in DOMAIN tee.sinks : tee.sinks[n] \in broken}
        \cup {Len(tee.sinks) + 1})

\* Mutant of Reached: the others get the character all the same.
ReachedAll == ToSet(tee.sinks) \ broken

Reached == {tee.sinks[n] : n \in 1..(Refusing - 1)}

\* A terminal: an m behind the bracket colours it if a digit other than 0
\* stands between them, and takes the colours back otherwise.  An escape
\* anywhere begins a sequence, and a line end inside one is obeyed and does not
\* end it.  (It is in no case plain where TeeBuf takes it for coloured without
\* reason: that is only too careful.)
Shows(t, c) ==
  CASE c = "esc" -> [t EXCEPT !.seq = "esc", !.one = FALSE]
    [] c # "esc" /\ (t.seq = "text" \/ c = "nl") -> t
    [] t.seq = "esc" /\ c \notin {"esc", "nl"} ->
         [t EXCEPT !.seq = IF c = "[" THEN "csi" ELSE "text"]
    [] t.seq = "csi" /\ c \in {"0", "1"} -> [t EXCEPT !.one = @ \/ c = "1"]
    [] t.seq = "csi" /\ c = "m" -> [Plain EXCEPT !.coloured = t.one]
    [] t.seq = "csi" /\ c = "[" -> [t EXCEPT !.seq = "text", !.one = FALSE]

\* RotatingFileSink puts a prefix before the first character of every line;
\* where it is after this one.  It refuses none.
FileOverflow(c) == c = "nl"

\* One character of a string; behind a line end that is still coloured the
\* buffer throws, which the ostream catches.
Put(c) ==
  /\ up /\ pc = "idle" /\ tee.sinks # <<>>
  /\ sent < MaxChars /\ newest <= TextLogs
  /\ sent' = sent + 1
  /\ IF tee.bad THEN UNCHANGED <<tee, got, terminal, tangled>>
     ELSE LET next == UpdateColorState(c)
          IN  /\ got' = [s \in DOMAIN got |->
                           got[s] + IF s \in Reached THEN 1 ELSE 0]
              /\ terminal' = IF "console" \in Reached THEN Shows(terminal, c)
                             ELSE terminal
              /\ tangled' = \/ tangled
                            \/ c = "esc" /\ tee.state # "TEXT"
                            \/ c = "nl" /\ tee.state = "ESCAPED"
              /\ tee' = [next EXCEPT
                   !.at_line_start = IF "file" \in Reached THEN FileOverflow(c)
                                     ELSE @,
                   !.bad = \/ Refusing <= Len(tee.sinks)
                           \/ c = "nl" /\ (next.is_colored
                                            \/ next.state # "TEXT")]
  /\ UNCHANGED <<up, pc, index, broken, diskVars>>

\* The console is closed, or the peer of the socket goes.
BreakSink ==
  /\ up
  /\ broken' \in {broken \cup {"console"}, broken \cup {"socket"}}
  /\ broken' # broken
  /\ UNCHANGED <<up, pc, index, tee, sent, got, terminal, tangled, diskVars>>

LogNext ==
  \/ Start \/ Stop \/ BeginSetup \/ RotateOne \/ RotateLast \/ Open
  \/ \E c \in Chars : Put(c)
  \/ BreakSink

LogSpec == LogInit /\ [][LogNext]_logVars

-----------------------------------------------------------------------------
(* Properties.                                                              *)

\* The sinks are in step: each has the same text, up to one character that
\* stopped at a sink that refuses it, and while nothing has gone wrong they
\* have all of it (TeeBuf::xsputn, TeeBuf::overflow).
SinksInStep ==
  LET sinks == tee.sinks
  IN  \A m, n \in DOMAIN sinks :
        m < n => /\ got[sinks[m]] \in {got[sinks[n]], got[sinks[n]] + 1}
                 /\ ~tee.bad => got[sinks[n]] = sent

\* As long as output goes on, no colour runs over the end of a line on the
\* console (teebuf.cpp:80, the immediate protection), for text in which no
\* sequence begins inside another and no line ends right behind an escape.
\* Without that it may: TeeBuf takes the second of two escapes, or the bracket
\* behind an escape inside a sequence, for the end of the first sequence, and
\* the digits and the m that colour the terminal for text.
LineEndsPlain ==
  ~tangled /\ ~tee.bad /\ tee.at_line_start /\ got.file > 0 =>
    ~terminal.coloured /\ terminal.seq = "text"

Kept == {disk[p] : p \in Places}

\* If every start was complete, the newest logs are all there, as many as there
\* are places.  Whatever was broken off or failed, the logs stay in order, the
\* newer at the lower number; and wherever the program ends, the log that was
\* the newest when it began to rotate is still there, unless it could not be
\* renamed (rotate_logs, RotatingFileSink).
LogsKept ==
  /\ ~torn /\ ~lost /\ pc = "idle" =>
       \A log \in 1..newest : log + MaxFiles >= newest => log \in Kept
  /\ \A p, q \in Places :
       p < q /\ disk[p] # 0 /\ disk[q] # 0 => disk[p] > disk[q]
  /\ ~lost /\ begun # 0 => begun \in Kept
=============================================================================
