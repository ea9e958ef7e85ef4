------------------------------- MODULE Ingest -------------------------------
(***************************************************************************)
(* The two processes that read a source.  The pipeline (Python) walks the  *)
(* files, splits a log2timeline container into tables in a temporary       *)
(* directory, and for each file or table starts the parse engine (Go) and  *)
(* collects the event lines of its stdout; the engine's exit code is known *)
(* only after the last line.                                               *)
(*                                                                         *)
(* Between them are two bounded pipes.  The engine's stdout is buffered in *)
(* the engine as well, and the buffer is cut anywhere: an event line is    *)
(* two tokens, a buffer of events holds BufCap of them.  The buffer is     *)
(* written out token by token here, and as a whole by bufio.               *)
(*                                                                         *)
(* The engine may be killed, or refused a file by the system, at any time; *)
(* the reader may be interrupted while it collects (out of memory, ^C).    *)
(* At most MaxFaults of these happen.                                      *)
(***************************************************************************)
EXTENDS Reading

CONSTANTS
  Sources,    \* the sources a run may be given
  BufCap,     \* tokens in the engine's output buffer
  PipeCap,    \* tokens the stdout pipe holds
  ErrCap,     \* pieces of text the stderr pipe holds
  Diagnostic, \* pieces of text in an engine's last words
  MaxFaults

ASSUME CapsArePositive ==
  /\ BufCap \in Nat \ {0}
  /\ PipeCap \in Nat \ {0}
  /\ FdLimit \in Nat
  /\ MaxFaults \in Nat

\* a message and not a log: cmdParse prints one line
ASSUME DiagnosticFits == ErrCap \in Nat /\ Diagnostic \in 0..ErrCap

\* what is read is a list of lines, of maps, of entries
Listed(s) == s \in Seq(ToSet(s))
IsReadable(file) ==
  /\ Listed(file.lines)
  /\ \A n \in DOMAIN file.lines :
       LET rec == file.lines[n].rec
       IN {"parser", "entries"} \subseteq DOMAIN rec /\ Listed(rec.entries)

ASSUME RoutesAreListed ==
  /\ Listed(EvtxMaps) /\ Listed(Routes)
  /\ \A i \in DOMAIN Routes : Listed(Routes[i][2])

ASSUME SourcesAreReadable ==
  \A files \in Sources :
    Listed(files) /\ \A i \in DOMAIN files : IsReadable(files[i])

VARIABLES
  source,  \* the files of this source
  pc,      \* where the pipeline is
  cursor,  \* the file it is at
  dir,     \* the temporary directory of a container: [exists, files]
  tables,  \* the tables it still has to parse
  events,  \* the events of the calls that have returned
  got,     \* the events of the call under way
  half,    \* the first part of a line, read without its end
  raised,  \* the collecting loop was left by an exception
  job,     \* the engine process
  stdout, stderr,
  faults

pipeline == <<source, pc, cursor, tables, events, got, half, raised>>
pipes == <<stdout, stderr>>
vars == <<pipeline, dir, job, pipes, faults>>

NoDir == [exists |-> FALSE, files |-> <<>>]

\* status: "none", "running", "dying" (writing its last words), "exited",
\* "reaped"; pos is the next line, words the text of the message still to
\* write, open whether anyone can still read what it prints
NoJob == [verb |-> "none", file |-> [name |-> {}, jsonl |-> FALSE, lines |-> <<>>],
          maps |-> <<>>, status |-> "none", pos |-> 1, out |-> <<>>,
          words |-> 0, code |-> 0, open |-> TRUE]

Running(verb, file, maps) ==
  [NoJob EXCEPT !.verb = verb, !.file = file, !.maps = maps,
                !.status = "running"]

Init ==
  /\ source \in Sources
  /\ pc = "choose" /\ cursor = 1
  /\ dir = NoDir /\ tables = <<>>
  /\ events = <<>> /\ got = <<>> /\ half = <<>> /\ raised = FALSE
  /\ job = NoJob
  /\ stdout = <<>> /\ stderr = 0
  /\ faults = 0

(***************************************************************************)
(* The pipeline: process_file, _consume, parse_events and split_l2t.       *)
(***************************************************************************)
Spawn(verb, file, maps) ==
  /\ job' = Running(verb, file, maps)
  /\ stdout' = <<>> /\ stderr' = 0
  /\ got' = <<>> /\ half' = <<>> /\ raised' = FALSE

\* a file no route names costs nothing; every other is handed over once, to
\* all its maps
Consume(file) ==
  LET maps == Route(file.name)
  IN IF maps = <<>> THEN pc' = "choose" /\ UNCHANGED <<job, pipes, got, half, raised>>
                    ELSE pc' = "collect" /\ Spawn("parse", file, maps)

OpenFile ==
  /\ pc = "choose" /\ ~dir.exists /\ cursor <= Len(source)
  /\ ~IsRawL2t(source[cursor])
  /\ Consume(source[cursor])
  /\ cursor' = cursor + 1
  /\ UNCHANGED <<source, tables, events, dir, faults>>

OpenContainer ==
  /\ pc = "choose" /\ ~dir.exists /\ cursor <= Len(source)
  /\ IsRawL2t(source[cursor])
  /\ dir' = [exists |-> TRUE, files |-> <<>>]
  /\ Spawn("split", source[cursor], <<>>)
  /\ pc' = "communicate"
  /\ UNCHANGED <<source, cursor, tables, events, faults>>

NextTable ==
  /\ pc = "choose" /\ tables # <<>>
  /\ Consume(Head(tables))
  /\ tables' = Tail(tables)
  /\ UNCHANGED <<source, cursor, events, dir, faults>>

LeaveContainer ==
  /\ pc = "choose" /\ dir.exists /\ tables = <<>>
  /\ dir' = NoDir
  /\ cursor' = cursor + 1
  /\ UNCHANGED <<source, pc, tables, events, got, half, raised, job, pipes, faults>>

Return ==
  /\ pc = "choose" /\ ~dir.exists /\ cursor > Len(source)
  /\ pc' = "done"
  /\ UNCHANGED <<source, cursor, tables, events, got, half, raised, dir, job, pipes, faults>>

\* mutant: waiting for the engine before its output is read
ReadAfterWait ==
  /\ pc = "collect" /\ stdout # <<>> /\ job.status = "exited"
  /\ LET piece == Head(stdout)
     IN IF piece.part = 1 THEN half' = <<piece.event>> /\ got' = got
                          ELSE half' = <<>> /\ got' = Append(got, piece.event)
  /\ stdout' = Tail(stdout)
  /\ UNCHANGED <<source, pc, cursor, tables, events, raised, dir, job, stderr, faults>>

\* for line in proc.stdout: a line is decoded when its end has been read
ReadLine ==
  /\ pc = "collect" /\ stdout # <<>>
  /\ LET piece == Head(stdout)
     IN IF piece.part = 1 THEN half' = <<piece.event>> /\ got' = got
                          ELSE half' = <<>> /\ got' = Append(got, piece.event)
  /\ stdout' = Tail(stdout)
  /\ UNCHANGED <<source, pc, cursor, tables, events, raised, dir, job, stderr, faults>>

\* the end of the stream: what is left of a line is no JSON
EndOfStream ==
  /\ pc = "collect" /\ stdout = <<>> /\ job.status = "exited"
  /\ pc' = "reap"
  /\ raised' = (half # <<>>)
  /\ UNCHANGED <<source, cursor, tables, events, got, half, dir, job, pipes, faults>>

\* an exception in the loop closes the pipe under the engine
Interrupt ==
  /\ pc = "collect" /\ faults < MaxFaults
  /\ pc' = "reap"
  /\ raised' = TRUE
  /\ job' = [job EXCEPT !.open = FALSE]
  /\ stdout' = <<>>
  /\ faults' = faults + 1
  /\ UNCHANGED <<source, cursor, tables, events, got, half, dir, stderr>>

ReadStderr ==
  /\ pc \in {"reap", "communicate"} /\ stderr > 0
  /\ stderr' = 0
  /\ UNCHANGED <<pipeline, dir, job, stdout, faults>>

\* mutant: the directory removed after the last table, and only then
UnwindOnly ==
  /\ pc' = "failed"
  /\ UNCHANGED <<source, cursor, tables, events, got, half, raised, dir>>

\* an exception unwinds through the finally that removes the directory
Unwind ==
  /\ pc' = "failed"
  /\ dir' = NoDir
  /\ UNCHANGED <<source, cursor, tables, events, got, half, raised>>

\* mutant: an exit code that is not looked at
TakeTheLines ==
  /\ ~raised
  /\ pc' = "choose" /\ events' = events \o got
  /\ UNCHANGED <<source, cursor, tables, got, half, raised, dir>>

\* the finally of parse_events, then its verdict: only a call that ended well
\* hands its events over
Judge ==
  IF raised \/ job.code # 0 THEN Unwind
  ELSE /\ pc' = "choose" /\ events' = events \o got
       /\ UNCHANGED <<source, cursor, tables, got, half, raised, dir>>

ReapParse ==
  /\ pc = "reap" /\ stderr = 0 /\ job.status = "exited"
  /\ job' = [job EXCEPT !.status = "reaped"]
  /\ Judge
  /\ UNCHANGED <<pipes, faults>>

\* communicate: both pipes to their end, the exit code, then the summary
ReapSplit ==
  /\ pc = "communicate" /\ stderr = 0 /\ job.status = "exited"
  /\ job' = [job EXCEPT !.status = "reaped"]
  /\ stdout' = <<>>
  /\ IF job.code # 0 THEN Unwind
     ELSE /\ tables' = Head(stdout) /\ pc' = "choose"
          /\ UNCHANGED <<source, cursor, events, got, half, raised, dir>>
  /\ UNCHANGED <<stderr, faults>>

(***************************************************************************)
(* The engine: cmdParse, cmdSplitL2t.                                      *)
(***************************************************************************)
Line == job.file.lines[job.pos]
MoreInput == job.pos <= Len(job.file.lines)

\* an error: the message, then exit 1 -- what is in the buffer is not written
Die == [job EXCEPT !.status = "dying", !.words = Diagnostic]

Tokens(made) ==
  FlattenSeq([i \in DOMAIN made |->
    <<[event |-> made[i], part |-> 1], [event |-> made[i], part |-> 2]>>])

ParseLine ==
  /\ job.verb = "parse" /\ job.status = "running"
  /\ MoreInput /\ Len(job.out) < BufCap
  /\ job' =
       IF Raises(Line) THEN Die
       ELSE IF ~IsRecord(Line, job.pos) THEN [job EXCEPT !.pos = @ + 1]
       ELSE IF Unusable(job.maps, Line.rec) THEN Die
       ELSE [job EXCEPT !.pos = @ + 1,
                        !.out = @ \o Tokens(EventsOf(job.maps, Line.rec))]
  /\ UNCHANGED <<pipeline, dir, pipes, faults>>

\* a full buffer, or the last one; nobody left to read it is a SIGPIPE
WriteOut ==
  /\ job.verb = "parse" /\ job.status = "running" /\ job.out # <<>>
  /\ Len(job.out) >= BufCap \/ ~MoreInput
  /\ IF job.open
     THEN /\ Len(stdout) < PipeCap
          /\ stdout' = Append(stdout, Head(job.out))
          /\ job' = [job EXCEPT !.out = Tail(@)]
     ELSE /\ job' = [job EXCEPT !.status = "exited", !.code = -13]
          /\ UNCHANGED stdout
  /\ UNCHANGED <<pipeline, dir, stderr, faults>>

EndParse ==
  /\ job.verb = "parse" /\ job.status = "running"
  /\ ~MoreInput /\ job.out = <<>>
  /\ job' = [job EXCEPT !.status = "exited"]
  /\ UNCHANGED <<pipeline, dir, pipes, faults>>

\* the open files are found by the table they were opened for
Known(files, table) ==
  {i \in DOMAIN files : TableName(Head(files[i].lines).rec) = table}
Grown(file, row) == [file EXCEPT !.lines = Append(@, row)]
WithRow(files, table, row) ==
  [i \in DOMAIN files |->
    IF i \in Known(files, table) THEN Grown(files[i], row) ELSE files[i]]

\* a row goes to its table's file, which stays open; a new table needs one more
SplitLine ==
  /\ job.verb = "split" /\ job.status = "running" /\ MoreInput
  /\ LET table == TableName(Line.rec)
         row == Wrapped(Line.rec, job.pos)
         next == [job EXCEPT !.pos = @ + 1]
     IN IF Raises(Line) THEN job' = Die /\ UNCHANGED dir
        ELSE IF ~IsRow(Line) THEN job' = next /\ UNCHANGED dir
        ELSE IF Known(dir.files, table) # {}
        THEN job' = next /\ dir' = [dir EXCEPT !.files = WithRow(@, table, row)]
        ELSE IF Len(dir.files) = FdLimit THEN job' = Die /\ UNCHANGED dir
        ELSE /\ job' = next
             /\ dir' = [dir EXCEPT !.files =
                          Append(@, TableFile(job.file, table, <<row>>))]
  /\ UNCHANGED <<pipeline, pipes, faults>>

\* every file closed, then the summary: the tables in first-seen order
EndSplit ==
  /\ job.verb = "split" /\ job.status = "running" /\ ~MoreInput
  /\ stdout' = <<dir.files>>
  /\ job' = [job EXCEPT !.status = "exited"]
  /\ UNCHANGED <<pipeline, dir, stderr, faults>>

LastWords ==
  /\ job.status = "dying"
  /\ IF job.words > 0
     THEN /\ stderr < ErrCap /\ stderr' = stderr + 1
          /\ job' = [job EXCEPT !.words = @ - 1]
     ELSE /\ job' = [job EXCEPT !.status = "exited", !.code = 1]
          /\ UNCHANGED stderr
  /\ UNCHANGED <<pipeline, dir, stdout, faults>>

\* a file that vanished, a disk that is full
IoError ==
  /\ job.status = "running" /\ faults < MaxFaults
  /\ job' = Die
  /\ faults' = faults + 1
  /\ UNCHANGED <<pipeline, dir, pipes>>

Killed ==
  /\ job.status \in {"running", "dying"} /\ faults < MaxFaults
  /\ job' = [job EXCEPT !.status = "exited", !.code = -9]
  /\ faults' = faults + 1
  /\ UNCHANGED <<pipeline, dir, pipes>>

Pipeline ==
  \/ OpenFile \/ OpenContainer \/ NextTable \/ LeaveContainer \/ Return
  \/ ReadLine \/ EndOfStream \/ ReadStderr \/ ReapParse \/ ReapSplit
Engine == ParseLine \/ WriteOut \/ EndParse \/ SplitLine \/ EndSplit \/ LastWords
Fault == Interrupt \/ IoError \/ Killed

Next == Pipeline \/ Engine \/ Fault

\* two processes the operating system keeps running
Spec == Init /\ [][Next]_vars /\ WF_vars(Pipeline) /\ WF_vars(Engine)

(***************************************************************************)
(* What is promised of it.                                                 *)
(***************************************************************************)
Promise ==
  INSTANCE IngestSpec WITH
    outcome <- CASE pc = "done" -> "delivered"
                 [] pc = "failed" -> "failed"
                 [] OTHER -> "pending",
    delivered <- IF pc = "done" THEN events ELSE <<>>,
    disturbed <- faults > 0

\* The pipeline and the engine keep the promise of IngestSpec: a source is
\* delivered whole and in order or not at all, whatever was buffered, cut in
\* the middle of a line or still in a pipe when an engine died
\* (pipeline.py:183-224, main.go:104-175).
Implements == Promise!Spec

\* However it ends, the source leaves nothing behind: no temporary directory,
\* and no engine that was not waited for (pipeline.py:205-209, 294-300).
NothingLeftBehind ==
  pc \in {"done", "failed"} =>
    /\ ~dir.exists
    /\ job.status \in {"none", "reaped"}

\* Every source ends: no interleaving of the two processes over their bounded
\* pipes leaves each waiting for the other (pipeline.py:198-212).
EverySourceEnds == <>(pc \in {"done", "failed"})
=============================================================================
