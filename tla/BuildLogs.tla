----------------------------- MODULE BuildLogs ------------------------------
(***************************************************************************)
(* The log of one build (or of one installer: the code is the same): the   *)
(* executor appends chunks to a table while pages poll for those after the *)
(* last one they have seen, at most a batch at a time, until they are told *)
(* that the build is done.                                                 *)
(***************************************************************************)
EXTENDS Naturals, Sequences

CONSTANTS
  Pages,        \* open pages of the log
  BatchLimit,   \* buildLogBatchLimit: chunks of one answer
  MaxLines      \* bound: lines that nix writes

ASSUME BatchLimitAssumption == BatchLimit \in Nat \ {0}
ASSUME MaxLinesAssumption == MaxLines \in Nat

VARIABLES
  status,       \* builds.status
  printed,      \* how many lines nix has written
  buffer,       \* the lines in the buffer of persistentBuildLogWriter
  log,          \* table build_log_chunks, in the order of its ids
  page          \* what each page has seen and waits for

logVars == <<status, printed, buffer, log, page>>

Terminal == {"succeeded", "failed"}

\* after: the last id it was given; step: its request is on its way to the server,
\* or has read the status.
NewPage == [step |-> "wait", after |-> 0, shown |-> <<>>, terminal |-> FALSE]

LogInit ==
  /\ status = "queued" /\ printed = 0 /\ buffer = <<>> /\ log = <<>>
  /\ page = [v \in Pages |-> NewPage]

-----------------------------------------------------------------------------
StartBuild == status = "queued" /\ status' = "running" /\ UNCHANGED <<printed, buffer, log, page>>

\* A chunk that cannot be stored is lost, and the build goes on.
AppendBuildLogChunk(lines) == log' \in {Append(log, lines), log}

\* Write: text that ends a line or fills the buffer is stored at once; other text
\* waits.
WriteLine ==
  /\ status = "running" /\ printed < MaxLines
  /\ printed' = printed + 1
  /\ \/ buffer' = Append(buffer, printed') /\ UNCHANGED log
     \/ buffer' = <<>> /\ AppendBuildLogChunk(Append(buffer, printed'))
  /\ UNCHANGED <<status, page>>

\* Flush: at the end of the command, before the status changes.
Flush ==
  /\ status = "running" /\ buffer # <<>>
  /\ buffer' = <<>> /\ AppendBuildLogChunk(buffer)
  /\ UNCHANGED <<status, printed, page>>

EndBuild ==
  /\ status = "running" /\ buffer = <<>>
  /\ status' \in Terminal
  /\ UNCHANGED <<printed, buffer, log, page>>

\* The server dies: what was not stored is lost, and the next one fails the build.
Restart ==
  /\ status = "running"
  /\ status' = "failed" /\ buffer' = <<>>
  /\ UNCHANGED <<printed, log, page>>

-----------------------------------------------------------------------------
\* BuildLogLive: the status is read first,
ReadStatus(v) ==
  /\ page[v].step = "wait"
  /\ page' = [page EXCEPT ![v].step = "status", ![v].terminal = status \in Terminal]
  /\ UNCHANGED <<status, printed, buffer, log>>

\* ListBuildLogChunksSince: one more than a batch, to see whether there are more.
ListBuildLogChunksSince(after) ==
  SubSeq(log, after + 1, IF Len(log) < after + BatchLimit + 1 THEN Len(log) ELSE after + BatchLimit + 1)

\* Mutant: a terminal build is done.
DoneWhenTerminal(v, chunks) == page[v].terminal

PageIsDone(v, chunks) == page[v].terminal /\ Len(chunks) <= BatchLimit

Batch(chunks) == SubSeq(chunks, 1, IF Len(chunks) > BatchLimit THEN BatchLimit ELSE Len(chunks))

\* Mutant: the last chunk that was read.
LastRead(v, chunks) == page[v].after + Len(chunks)

\* The last chunk of the batch.
NextCursor(v, chunks) == page[v].after + Len(Batch(chunks))

\* then the chunks; buildLogPayload; the page appends what it is given.
BuildLogLive(v) ==
  LET chunks == ListBuildLogChunksSince(page[v].after)
  IN /\ page[v].step = "status"
     /\ page' = [page EXCEPT ![v] =
          [step |-> IF PageIsDone(v, chunks) THEN "done" ELSE "wait", terminal |-> FALSE,
           after |-> NextCursor(v, chunks), shown |-> @.shown \o Batch(chunks)]]
     /\ UNCHANGED <<status, printed, buffer, log>>

\* The request or its answer is lost, or fails: the page asks again.
Retry(v) ==
  /\ page[v].step = "status"
  /\ page' = [page EXCEPT ![v].step = "wait", ![v].terminal = FALSE]
  /\ UNCHANGED <<status, printed, buffer, log>>

\* The page is opened again.
BuildLogPage(v) ==
  /\ page[v].step = "done"
  /\ page' = [page EXCEPT ![v] = NewPage]
  /\ UNCHANGED <<status, printed, buffer, log>>

LogNext ==
  \/ StartBuild \/ WriteLine \/ Flush \/ EndBuild \/ Restart
  \/ \E v \in Pages : ReadStatus(v) \/ BuildLogLive(v) \/ Retry(v) \/ BuildLogPage(v)

-----------------------------------------------------------------------------
\* Types of the state above.
LogTypeOK ==
  /\ status \in {"queued", "running"} \cup Terminal
  /\ printed \in 0..MaxLines /\ Len(log) <= MaxLines
  /\ \A v \in Pages : page[v].step \in {"wait", "status", "done"} /\ page[v].after = Len(page[v].shown)

\* A page that was told the build is done has shown every chunk that is stored,
\* once and in order: none comes after the status it read, and none was beyond its
\* last batch. About the order of BuildLogLive and buildLogPayload, and about
\* Flush before UpdateBuild.
LogIsWhole == \A v \in Pages : page[v].step = "done" => page[v].shown = log

=============================================================================
