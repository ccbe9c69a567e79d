---------------------------- MODULE PipeReaders -----------------------------
(***************************************************************************)
(* One pipe between a coordinator and its partitioner, with the reader     *)
(* that puts the lines together at its end: the Python class Partitioner   *)
(* (partitioner.py: receive_message, read_from_process, check_p_status)    *)
(* for the stdout of the C++ process, or read_line_from_coordinator        *)
(* (subpaving_t_def.h) for its stdin.  A line is a sequence of characters; *)
(* the pipe may cut it anywhere.  The C++ process may also crash, in the   *)
(* middle of a line or not.                                                *)
(***************************************************************************)
EXTENDS Naturals, Sequences, SequencesExt

CONSTANTS
    Chars,       \* the characters of a line
    Lines,       \* the lines that may be written, without their newline
    MaxLines,    \* bound on the lines written
    Room,        \* what the pipe holds
    ReadSize,    \* m_read_buffer_len - 1
    NoBuffer     \* self.buffer is None

NewLine == "newline"
Symbols == Chars \cup {NewLine}   \* what a pipe carries

ASSUME PipeConstants ==
    /\ Lines \subseteq Seq(Chars) \ {<<>>}
    /\ NewLine \notin Chars
    /\ NoBuffer \notin Seq(Symbols)
    /\ MaxLines \in Nat
    /\ Room \in Nat \ {0}
    /\ ReadSize \in Nat \ {0}

VARIABLES
    side,      \* who reads: "python" or "cpp"
    written,   \* the lines whose writing has begun
    left,      \* the rest of the last one, with its newline
    pipe,      \* the characters in the pipe
    proc,      \* the C++ process: "running", "closed" (its end of the pipe), "exited"
    crashed,   \* its return code is not 0
    buffer,    \* self.buffer from buffer_head on; m_read_buffer from head to tail
    partial,   \* self.partial_line; m_current_line
    status,    \* self.status
    raised,    \* a read of the closed stdout has raised ValueError
    lost,      \* check_p_status has closed stdout
    got        \* the lines handed to the caller

writerVars == <<side, written, left, proc, crashed>>
readerVars == <<buffer, partial, status, raised, lost, got>>
vars == <<writerVars, pipe, readerVars>>

Init ==
    /\ side \in {"python", "cpp"}
    /\ written = <<>> /\ left = <<>> /\ pipe = <<>>
    /\ proc = "running" /\ crashed = FALSE
    /\ buffer = IF side = "python" THEN NoBuffer ELSE <<>>
    /\ partial = <<>>
    /\ status = "running" /\ raised = FALSE /\ lost = FALSE
    /\ got = <<>>

-----------------------------------------------------------------------------
(* The writer.  cout is unit-buffered, so a line may reach the pipe in     *)
(* pieces; a full pipe makes the writer wait.                              *)
BeginLine ==
    /\ proc = "running"
    /\ left = <<>>
    /\ Len(written) < MaxLines
    /\ \E l \in Lines : written' = Append(written, l) /\ left' = Append(l, NewLine)
    /\ UNCHANGED <<side, proc, crashed, pipe, readerVars>>

WritePiece ==
    /\ proc = "running"
    /\ \E k \in 1 .. Len(left) :
          /\ Len(pipe) + k <= Room
          /\ pipe' = pipe \o SubSeq(left, 1, k)
          /\ left' = SubSeq(left, k + 1, Len(left))
    /\ UNCHANGED <<side, written, proc, crashed, readerVars>>

(* The end of the process: the pipe is closed first, poll() knows later.   *)
CloseOutput ==
    /\ side = "python"
    /\ proc = "running"
    /\ proc' = "closed"
    /\ crashed' \in IF left = <<>> THEN BOOLEAN ELSE {TRUE}
    /\ UNCHANGED <<side, written, left, pipe, readerVars>>

Exit ==
    /\ proc = "closed"
    /\ proc' = "exited"
    /\ UNCHANGED <<side, written, left, crashed, pipe, readerVars>>

-----------------------------------------------------------------------------
FirstNewLine(b) == SelectInSeq(b, LAMBDA c : c = NewLine)
Before(b) == SubSeq(b, 1, FirstNewLine(b) - 1)
After(b) == SubSeq(b, FirstNewLine(b) + 1, Len(b))

(* Faults: the part of a line read before is forgotten; a buffer that has  *)
(* been used up is not given back.                                         *)
TakeLineForgetful(b, none) ==
    IF Contains(b, NewLine)
    THEN /\ got' = Append(got, Before(b))
         /\ partial' = <<>>
         /\ buffer' = After(b)
    ELSE /\ partial' = b
         /\ buffer' = none
         /\ UNCHANGED got

TakeLineStuck(b, none) ==
    IF Contains(b, NewLine)
    THEN /\ got' = Append(got, partial \o Before(b))
         /\ partial' = <<>>
         /\ buffer' = After(b)
    ELSE /\ partial' = partial \o b
         /\ buffer' = <<>>
         /\ UNCHANGED got

(* One line out of the buffered characters b, or all of them kept for the  *)
(* next call; none says that the buffer is used up.                        *)
TakeLine(b, none) ==
    IF Contains(b, NewLine)
    THEN /\ got' = Append(got, partial \o Before(b))
         /\ partial' = <<>>
         /\ buffer' = After(b)
    ELSE /\ partial' = partial \o b
         /\ buffer' = none
         /\ UNCHANGED got

(* Fault: the end of the process is taken for the end of its output.       *)
CheckRunningFinal ==
    /\ side = "python"
    /\ status = "running"
    /\ proc = "exited"
    /\ status' = "receive_done"
    /\ UNCHANGED <<writerVars, pipe, buffer, partial, raised, lost, got>>

(* check_running at the beginning of a pass, or before a command is sent.  *)
(* After a crash communicate() takes what is in the pipe and closes it.    *)
CheckRunning ==
    /\ side = "python"
    /\ status = "running"
    /\ proc = "exited"
    /\ status' = "process_done"
    /\ lost' = crashed
    /\ pipe' = IF crashed THEN <<>> ELSE pipe
    /\ UNCHANGED <<writerVars, buffer, partial, raised, got>>

(* receive_message, by what read_from_process finds.  At the end of the    *)
(* pipe the answer '' of a process that poll() still calls running is an   *)
(* empty buffer; otherwise the part of a line that is left is the last     *)
(* message, which the caller ignores when it is empty.                     *)
MayReceive == side = "python" /\ status # "receive_done" /\ ~ raised

ReceiveBuffered ==
    /\ MayReceive
    /\ buffer # NoBuffer
    /\ TakeLine(buffer, NoBuffer)
    /\ UNCHANGED <<writerVars, pipe, status, raised, lost>>

ReceiveFresh ==
    /\ MayReceive
    /\ buffer = NoBuffer
    /\ ~ lost
    /\ pipe # <<>>
    /\ pipe' = <<>>
    /\ TakeLine(pipe, NoBuffer)
    /\ UNCHANGED <<writerVars, status, raised, lost>>

ReceiveEnd ==
    /\ MayReceive
    /\ buffer = NoBuffer
    /\ ~ lost
    /\ pipe = <<>>
    /\ proc = "exited"
    /\ status' = "receive_done"
    /\ lost' = (crashed /\ status = "running")
    /\ got' = IF partial = <<>> THEN got ELSE Append(got, partial)
    /\ UNCHANGED <<writerVars, pipe, buffer, partial, raised>>

ReceiveRaises ==
    /\ MayReceive
    /\ buffer = NoBuffer
    /\ lost
    /\ raised' = TRUE
    /\ UNCHANGED <<writerVars, pipe, buffer, partial, status, lost, got>>

(* read_line_from_coordinator: one read when the buffer is used up.        *)
ReadCommand ==
    /\ side = "cpp"
    /\ LET size == IF Len(pipe) < ReadSize THEN Len(pipe) ELSE ReadSize
           fresh == buffer = <<>>
       IN  /\ TakeLine(IF fresh THEN SubSeq(pipe, 1, size) ELSE buffer, <<>>)
           /\ pipe' = IF fresh THEN SubSeq(pipe, size + 1, Len(pipe)) ELSE pipe
    /\ UNCHANGED <<writerVars, status, raised, lost>>

Writer == BeginLine \/ WritePiece \/ CloseOutput \/ Exit
PythonReader == CheckRunning \/ ReceiveBuffered \/ ReceiveFresh \/ ReceiveEnd \/ ReceiveRaises

Next == Writer \/ PythonReader \/ ReadCommand

Spec == Init /\ [][Next]_vars

(* Both processes run: a line that was begun is written as long as there   *)
(* is room (or the process ends), an ended process is found by poll, and   *)
(* the reader keeps calling.                                               *)
FairSpec ==
    /\ Spec
    /\ WF_vars(WritePiece)
    /\ WF_vars(Exit)
    /\ WF_vars(PythonReader)
    /\ WF_vars(ReadCommand)

-----------------------------------------------------------------------------
(* Whatever the cuts, the reader hands out the lines of the writer, each   *)
(* once and in order; only a crash may cut the last one.                   *)
Channel == INSTANCE LineChannel WITH
    sent <- written, received <- got, dead <- crashed
ReaderIsChannel == Channel!Spec

(* A clean end is complete: when the reader reports receive_done, every    *)
(* character that was put into the pipe was handed out.  After a crash     *)
(* seen by check_running the unread lines are gone (communicate() at       *)
(* partitioner.py:90), but then the reader raises and never says so.       *)
CleanEndComplete ==
    status = "receive_done" =>
        /\ Len(got) \in {Len(written) - 1, Len(written)}
        /\ Len(got) < Len(written) => crashed /\ Len(left) = Len(written[Len(written)]) + 1
        /\ buffer = NoBuffer /\ pipe = <<>>

(* Every line that is written arrives, unless the process crashes: then    *)
(* the reader comes to the end of the pipe or raises.                      *)
EverythingArrives ==
    <>[](\/ left = <<>> /\ got = written
         \/ crashed /\ (status = "receive_done" \/ raised))
=============================================================================
