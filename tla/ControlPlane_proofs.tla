------------------------- MODULE ControlPlane_proofs -------------------------
(***************************************************************************)
(* Proofs about SecureBootMaterial, BuildLogs and Profiles, for any number *)
(* of goroutines, pages, lines, rows and requests, and about the           *)
(* composition of the control plane.                                       *)
(***************************************************************************)
EXTENDS MCControlPlane, Accounts_proofs, SequenceTheorems, TLAPS

-----------------------------------------------------------------------------
(* SecureBootMaterial.                                                     *)

\* What MCControlPlane says of it alone.
BootKeySpec == BootKeyInit /\ [][BootKeyNext]_bootKeyVars

Writing(u) == user[u].step \in {"cert", "guid", "key"}

\* Who writes holds the lock.
WriterHasLock == \A u \in Users : Writing(u) => holder = u

\* The key is written last: with one, all three files are of one generation, nobody
\* writes, and nobody uses material without it.
KeyIsLast ==
  /\ keyFile # 0 => certFile = keyFile /\ guidFile = keyFile
  /\ \A u \in Users :
       /\ user[u].step = "ready" => keyFile # 0
       /\ Writing(u) => keyFile = 0 /\ user[u].generation # 0
       /\ user[u].step \in {"guid", "key"} => certFile = user[u].generation
       /\ user[u].step = "key" => guidFile = user[u].generation

\* What was signed was signed with the files that are there.
SignedByFiles == signed # {} => keyFile # 0 /\ signed = {<<certFile, guidFile, keyFile>>}

BootKeyIInv == BootKeyTypeOK /\ WriterHasLock /\ KeyIsLast /\ SignedByFiles

\* Material that is there is whole.
LEMMA UseMaterialInv == ASSUME BootKeyIInv, NEW u \in Users, UseMaterial(u) PROVE BootKeyIInv'
<1> USE NobodyAssumption, MaxGenerationsAssumption DEF BootKeyIInv, BootKeyTypeOK, UseMaterial, Exists,
      Files
<1>1. BootKeyTypeOK'
  BY DEF Generation
<1>2. WriterHasLock'
  BY DEF WriterHasLock, Writing
<1>3. KeyIsLast'
  BY DEF KeyIsLast, WriterHasLock, Writing, Generation
<1>4. SignedByFiles'
  BY DEF SignedByFiles, KeyIsLast, Writing
<1> QED BY <1>1, <1>2, <1>3, <1>4

\* There is no key, so nobody uses material, and nobody else writes.
LEMMA GenerateMaterialInv == ASSUME BootKeyIInv, NEW u \in Users, GenerateMaterial(u) PROVE BootKeyIInv'
<1> USE NobodyAssumption, MaxGenerationsAssumption DEF BootKeyIInv, BootKeyTypeOK, GenerateMaterial,
      Lock, Exists, Files
<1>1. BootKeyTypeOK'
  BY DEF Generation
<1>2. WriterHasLock'
  BY DEF WriterHasLock, Writing
<1>3. KeyIsLast'
  BY DEF KeyIsLast, WriterHasLock, Writing, Generation
<1>4. SignedByFiles'
  BY DEF SignedByFiles, KeyIsLast, Writing
<1> QED BY <1>1, <1>2, <1>3, <1>4

\* The one that writes is the only one, and there is no key yet.
LEMMA WriteFileInv ==
  ASSUME BootKeyIInv, NEW u \in Users, WriteCert(u) \/ WriteGUID(u)
  PROVE  BootKeyIInv'
<1> USE NobodyAssumption, MaxGenerationsAssumption DEF BootKeyIInv, BootKeyTypeOK, WriteCert,
      WriteGUID, Files
<1>1. BootKeyTypeOK'
  BY DEF Generation
<1>2. WriterHasLock'
  BY DEF WriterHasLock, Writing
<1>3. KeyIsLast'
  BY DEF KeyIsLast, WriterHasLock, Writing, Generation
<1>4. SignedByFiles'
  BY DEF SignedByFiles, KeyIsLast, Writing
<1> QED BY <1>1, <1>2, <1>3, <1>4

\* The key completes the generation.
LEMMA WriteKeyInv == ASSUME BootKeyIInv, NEW u \in Users, WriteKey(u) PROVE BootKeyIInv'
<1> USE NobodyAssumption, MaxGenerationsAssumption DEF BootKeyIInv, BootKeyTypeOK, WriteKey, Unlock,
      Files
<1>1. BootKeyTypeOK'
  BY DEF Generation
<1>2. WriterHasLock'
  BY DEF WriterHasLock, Writing
<1>3. KeyIsLast'
  BY DEF KeyIsLast, WriterHasLock, Writing, Generation
<1>4. SignedByFiles'
  BY DEF SignedByFiles, KeyIsLast, Writing
<1> QED BY <1>1, <1>2, <1>3, <1>4

\* The files that were written stay without a key.
LEMMA WriteFailsInv == ASSUME BootKeyIInv, NEW u \in Users, WriteFails(u) PROVE BootKeyIInv'
<1> USE NobodyAssumption, MaxGenerationsAssumption DEF BootKeyIInv, BootKeyTypeOK, WriteFails, Unlock,
      Files
<1>1. BootKeyTypeOK'
  BY DEF Generation
<1>2. WriterHasLock'
  BY DEF WriterHasLock, Writing
<1>3. KeyIsLast'
  BY DEF KeyIsLast, WriterHasLock, Writing, Generation
<1>4. SignedByFiles'
  BY DEF SignedByFiles, KeyIsLast, Writing
<1> QED BY <1>1, <1>2, <1>3, <1>4

\* A build that signs has the key of every earlier signature.
LEMMA SignInv == ASSUME BootKeyIInv, NEW u \in Users, Sign(u) PROVE BootKeyIInv'
<1> USE NobodyAssumption, MaxGenerationsAssumption DEF BootKeyIInv, BootKeyTypeOK, Sign, Files
<1>1. BootKeyTypeOK'
  BY DEF Generation
<1>2. WriterHasLock'
  BY DEF WriterHasLock, Writing
<1>3. KeyIsLast'
  BY DEF KeyIsLast, WriterHasLock, Writing, Generation
<1>4. SignedByFiles'
  BY DEF SignedByFiles, KeyIsLast, Writing
<1> QED BY <1>1, <1>2, <1>3, <1>4

\* Nobody is left.
LEMMA RestartServerInv == ASSUME BootKeyIInv, RestartServer PROVE BootKeyIInv'
<1> USE NobodyAssumption, MaxGenerationsAssumption DEF BootKeyIInv, BootKeyTypeOK, RestartServer,
      Unlock, Exists, Files
<1>1. BootKeyTypeOK'
  BY DEF Generation
<1>2. WriterHasLock'
  BY DEF WriterHasLock, Writing
<1>3. KeyIsLast'
  BY DEF KeyIsLast, WriterHasLock, Writing, Generation
<1>4. SignedByFiles'
  BY DEF SignedByFiles, KeyIsLast, Writing
<1> QED BY <1>1, <1>2, <1>3, <1>4

\* The invariant holds in every reachable state.
LEMMA BootKeyInvariance == BootKeySpec => []BootKeyIInv
<1>1. BootKeyInit => BootKeyIInv
  BY NobodyAssumption, MaxGenerationsAssumption
     DEF BootKeyInit, BootKeyIInv, BootKeyTypeOK, Generation, WriterHasLock, KeyIsLast, SignedByFiles, Writing
<1>2. BootKeyIInv /\ [BootKeyNext]_bootKeyVars => BootKeyIInv'
  <2> SUFFICES ASSUME BootKeyIInv, [BootKeyNext]_bootKeyVars PROVE BootKeyIInv'
    OBVIOUS
  <2>1. CASE UNCHANGED bootKeyVars
    BY <2>1 DEF bootKeyVars, BootKeyIInv, BootKeyTypeOK, WriterHasLock, KeyIsLast, SignedByFiles,
          Writing
  <2> QED BY <2>1, UseMaterialInv, GenerateMaterialInv, WriteFileInv, WriteKeyInv, WriteFailsInv,
        SignInv,
             RestartServerInv DEF BootKeyNext
<1> QED BY <1>1, <1>2, PTL DEF BootKeySpec

\* Every reachable state of the key material is of the declared types.
THEOREM BootKeyTyped == BootKeySpec => []BootKeyTypeOK
<1>1. BootKeyIInv => BootKeyTypeOK
  BY DEF BootKeyIInv
<1> QED BY <1>1, BootKeyInvariance, PTL

\* Every signature of the profile's builds is by one key, with the certificate that
\* belongs to it, however many builds need the first key at once and wherever the
\* server dies or a write fails.
THEOREM SoleKey == BootKeySpec => []OneKeyPerProfile
<1>1. BootKeyIInv => OneKeyPerProfile
  BY DEF BootKeyIInv, SignedByFiles, KeyIsLast, OneKeyPerProfile
<1> QED BY <1>1, BootKeyInvariance, PTL

-----------------------------------------------------------------------------
(* BuildLogs.                                                              *)

\* What MCControlPlane says of it alone.
LogSpec == LogInit /\ [][LogNext]_logVars

Chunks == Seq(Seq(Nat))

LogTyped ==
  /\ status \in {"queued", "running"} \cup Terminal /\ printed \in 0..MaxLines
  /\ buffer \in Seq(Nat) /\ log \in Chunks
  /\ page \in [Pages -> [step : {"wait", "status", "done"}, after : Nat, shown : Chunks, terminal : BOOLEAN]]

\* No line is in two chunks.
LinesLeft == Len(log) + Len(buffer) <= printed

\* A page has shown the first chunks; what it knows of the end is so.
PageInStep ==
  \A v \in Pages :
    /\ page[v].after = Len(page[v].shown) /\ page[v].after <= Len(log)
    /\ \A i \in 1..page[v].after : page[v].shown[i] = log[i]
    /\ page[v].terminal \/ page[v].step = "done" => status \in Terminal
    /\ page[v].step = "done" => page[v].after = Len(log)

LogIInv == LogTyped /\ LinesLeft /\ PageInStep

\* The answer to a page: the next chunks after its last one, all that are left unless
\* they are more than a batch.
LEMMA NextBatch ==
  ASSUME log \in Chunks, NEW after \in 0..Len(log)
  PROVE  LET chunks == ListBuildLogChunksSince(after)
         IN /\ Batch(chunks) \in Chunks /\ chunks \in Chunks
            /\ after + Len(Batch(chunks)) <= Len(log)
            /\ \A i \in 1..Len(Batch(chunks)) : Batch(chunks)[i] = log[after + i]
            /\ Len(chunks) <= BatchLimit => after + Len(Batch(chunks)) = Len(log)
<1> USE BatchLimitAssumption
<1> DEFINE chunks == ListBuildLogChunksSince(after)
           last == IF Len(log) < after + BatchLimit + 1 THEN Len(log) ELSE after + BatchLimit + 1
           most == IF Len(chunks) > BatchLimit THEN BatchLimit ELSE Len(chunks)
<1>1. last \in Nat /\ after <= last /\ last <= Len(log)
  BY DEF Chunks
<1>2. /\ chunks \in Chunks /\ Len(chunks) = last - after
      /\ \A i \in 1..Len(chunks) : chunks[i] = log[after + i]
  <2>1. chunks = SubSeq(log, after + 1, last)
    BY DEF ListBuildLogChunksSince
  <2> HIDE DEF chunks, last
  <2> QED BY <1>1, <2>1 DEF Chunks
<1>3. /\ Batch(chunks) \in Chunks /\ Len(Batch(chunks)) = most
      /\ \A i \in 1..most : Batch(chunks)[i] = chunks[i]
  <2>1. Batch(chunks) = SubSeq(chunks, 1, most)
    BY DEF Batch
  <2>2. most \in Nat /\ most <= Len(chunks)
    <3> HIDE DEF chunks
    <3> QED BY <1>2 DEF Chunks
  <2> HIDE DEF chunks, most
  <2> QED BY <1>2, <2>1, <2>2 DEF Chunks
<1>4. most <= last - after /\ (Len(chunks) <= BatchLimit => most = last - after /\ last = Len(log))
  <2> HIDE DEF chunks
  <2> QED BY <1>1, <1>2 DEF Chunks
<1> HIDE DEF chunks, last, most
<1>5. /\ after + Len(Batch(chunks)) <= Len(log)
      /\ \A i \in 1..Len(Batch(chunks)) : Batch(chunks)[i] = log[after + i]
      /\ Len(chunks) <= BatchLimit => after + Len(Batch(chunks)) = Len(log)
  <2>1. Len(Batch(chunks)) = most /\ most \in Nat
    BY <1>3 DEF Chunks
  <2>2. after + most <= Len(log) /\ (Len(chunks) <= BatchLimit => after + most = Len(log))
    BY <1>1, <1>4, <2>1 DEF Chunks
  <2>3. ASSUME NEW i \in 1..most PROVE Batch(chunks)[i] = log[after + i]
    <3>1. i \in 1..Len(chunks)
      BY <1>1, <1>2, <1>4, <2>1 DEF Chunks
    <3> QED BY <1>2, <1>3, <3>1
  <2> QED BY <2>1, <2>2, <2>3
<1> QED BY <1>2, <1>3, <1>5 DEF chunks

\* The log stays as it is, and a build that has ended stays so.
LEMMA StatusesInv == ASSUME LogIInv, StartBuild \/ EndBuild \/ Restart PROVE LogIInv'
<1> USE BatchLimitAssumption, MaxLinesAssumption DEF LogIInv, LogTyped, StartBuild, EndBuild, Restart
<1>1. LogTyped'
  <2>1. status' \in {"queued", "running"} \cup Terminal
    BY DEF Terminal
  <2>2. printed' \in 0..MaxLines
    OBVIOUS
  <2>3. buffer' \in Seq(Nat)
    BY EmptySeq
  <2>4. log' \in Chunks
    OBVIOUS
  <2>5. page' \in [Pages -> [step : {"wait", "status", "done"}, after : Nat, shown : Chunks, terminal : BOOLEAN]]
    OBVIOUS
  <2> QED BY <2>1, <2>2, <2>3, <2>4, <2>5 DEF LogTyped
<1>2. LinesLeft'
  BY DEF LinesLeft, Chunks
<1>3. PageInStep'
  BY DEF PageInStep, Terminal, Chunks
<1> QED BY <1>1, <1>2, <1>3

\* While the build runs no page was told that it is done.
LEMMA WriteInv == ASSUME LogIInv, WriteLine \/ Flush PROVE LogIInv'
<1> USE BatchLimitAssumption, MaxLinesAssumption DEF LogIInv, LogTyped, WriteLine, Flush,
      AppendBuildLogChunk
<1>0. buffer' \in Seq(Nat) /\ \E lines \in Seq(Nat) : log' = Append(log, lines) \/ log' = log
  <2>1. CASE WriteLine
    <3>1. printed' \in Nat
      BY <2>1
    <3>2. Append(buffer, printed') \in Seq(Nat) /\ <<>> \in Seq(Nat)
      BY <3>1, EmptySeq
    <3>3. /\ buffer' = Append(buffer, printed') \/ buffer' = <<>>
          /\ log' = Append(log, Append(buffer, printed')) \/ log' = log
      BY <2>1
    <3> HIDE DEF WriteLine
    <3> QED BY <3>2, <3>3
  <2>2. CASE Flush
    BY <2>2, EmptySeq
  <2> QED BY <2>1, <2>2
<1>1. LogTyped'
  <2>1. status' \in {"queued", "running"} \cup Terminal
    BY DEF Terminal
  <2>2. printed' \in 0..MaxLines
    OBVIOUS
  <2>3. buffer' \in Seq(Nat)
    BY <1>0
  <2>4. log' \in Chunks
    <3>1. PICK lines \in Seq(Nat) : log' = Append(log, lines) \/ log' = log
      BY <1>0
    <3>2. log \in Chunks
      OBVIOUS
    <3> HIDE DEF LogIInv, WriteLine, Flush
    <3>3. Append(log, lines) \in Seq(Seq(Nat))
      BY <3>2, AppendProperties, Zenon DEF Chunks
    <3> QED BY <3>1, <3>2, <3>3 DEF Chunks
  <2>5. page' \in [Pages -> [step : {"wait", "status", "done"}, after : Nat, shown : Chunks, terminal : BOOLEAN]]
    OBVIOUS
  <2> QED BY <2>1, <2>2, <2>3, <2>4, <2>5 DEF LogTyped
<1>2. LinesLeft'
  BY DEF LinesLeft, Chunks
<1>3. PageInStep'
  <2>1. status = "running" /\ status' = "running" /\ page' = page
    OBVIOUS
  <2>2. Len(log) <= Len(log') /\ \A i \in 1..Len(log) : log'[i] = log[i]
    <3>1. PICK lines \in Seq(Nat) : log' = Append(log, lines) \/ log' = log
      BY <1>0
    <3>2. log \in Chunks
      OBVIOUS
    <3> HIDE DEF LogIInv, WriteLine, Flush
    <3>3. Len(log) \in Nat
      BY <3>2 DEF Chunks
    <3>4. CASE log' = Append(log, lines)
      <4>1. Len(log') = Len(log) + 1 /\ \A i \in 1..Len(log) : log'[i] = log[i]
        BY <3>2, <3>4, AppendProperties DEF Chunks
      <4> QED BY <3>3, <4>1
    <3> QED BY <3>1, <3>3, <3>4
  <2>3. Len(log) \in Nat /\ Len(log') \in Nat
    <3>1. log \in Chunks /\ log' \in Chunks
      BY <1>1 DEF LogTyped
    <3> HIDE DEF LogIInv, WriteLine, Flush
    <3> QED BY <3>1 DEF Chunks
  <2> HIDE DEF WriteLine, Flush
  <2> QED BY <2>1, <2>2, <2>3 DEF PageInStep, Terminal
<1> QED BY <1>1, <1>2, <1>3

\* No chunk is shown.
LEMMA RequestsInv ==
  ASSUME LogIInv, NEW v \in Pages, ReadStatus(v) \/ Retry(v) \/ BuildLogPage(v)
  PROVE  LogIInv'
<1> USE BatchLimitAssumption, MaxLinesAssumption DEF LogIInv, LogTyped, ReadStatus, Retry,
      BuildLogPage, NewPage
<1>0. <<>> \in Chunks
  BY EmptySeq DEF Chunks
<1>1. LogTyped'
  <2>1. status' \in {"queued", "running"} \cup Terminal
    BY DEF Terminal
  <2>2. printed' \in 0..MaxLines
    OBVIOUS
  <2>3. buffer' \in Seq(Nat)
    OBVIOUS
  <2>4. log' \in Chunks
    OBVIOUS
  <2>5. page' \in [Pages -> [step : {"wait", "status", "done"}, after : Nat, shown : Chunks, terminal : BOOLEAN]]
    <3>1. CASE ReadStatus(v)
      <4> DEFINE ended == status \in Terminal
      <4>1. page' = [page EXCEPT ![v].step = "status", ![v].terminal = ended]
        BY <3>1
      <4>2. ended \in BOOLEAN
        OBVIOUS
      <4>3. page \in [Pages -> [step : {"wait", "status", "done"}, after : Nat, shown : Chunks, terminal : BOOLEAN]]
        OBVIOUS
      <4> HIDE DEF ended, ReadStatus, LogIInv
      <4> QED BY <4>1, <4>2, <4>3
    <3>2. CASE Retry(v)
      BY <3>2
    <3>3. CASE BuildLogPage(v)
      BY <1>0, <3>3
    <3> QED BY <3>1, <3>2, <3>3
  <2> QED BY <2>1, <2>2, <2>3, <2>4, <2>5 DEF LogTyped
<1>2. LinesLeft'
  BY DEF LinesLeft, Chunks
<1>3. PageInStep'
  <2>1. CASE ReadStatus(v)
    <3>1. /\ page' = [page EXCEPT ![v].step = "status", ![v].terminal = (status \in Terminal)]
          /\ page[v].step = "wait" /\ UNCHANGED <<status, log>>
      BY <2>1
    <3> QED BY <3>1 DEF PageInStep
  <2>2. CASE Retry(v)
    BY <2>2 DEF PageInStep, Chunks
  <2>3. CASE BuildLogPage(v)
    BY <2>3 DEF PageInStep, Chunks
  <2> QED BY <2>1, <2>2, <2>3
<1> QED BY <1>1, <1>2, <1>3

\* The next batch is shown; a page is told the end only with the last one.
LEMMA AnswersInv == ASSUME LogIInv, NEW v \in Pages, BuildLogLive(v) PROVE LogIInv'
<1> USE BatchLimitAssumption, MaxLinesAssumption DEF LogIInv, LogTyped, BuildLogLive
<1> DEFINE chunks == ListBuildLogChunksSince(page[v].after)
           new == Batch(chunks)
<1>0. page[v].after \in 0..Len(log) /\ page[v].shown \in Chunks /\ log \in Chunks
  BY DEF PageInStep, Chunks
<1>1. /\ new \in Chunks /\ page[v].after + Len(new) <= Len(log)
      /\ \A i \in 1..Len(new) : new[i] = log[page[v].after + i]
      /\ Len(chunks) <= BatchLimit => page[v].after + Len(new) = Len(log)
  BY <1>0, NextBatch
<1>2. /\ page' = [page EXCEPT ![v] =
           [step |-> IF page[v].terminal /\ Len(chunks) <= BatchLimit THEN "done" ELSE "wait", terminal |-> FALSE,
            after |-> page[v].after + Len(new), shown |-> page[v].shown \o new]]
      /\ UNCHANGED <<status, printed, buffer, log>>
  BY DEF PageIsDone, NextCursor
<1> HIDE DEF chunks, new, BuildLogLive
<1>3. /\ page[v].shown \o new \in Chunks /\ Len(page[v].shown \o new) = page[v].after + Len(new)
      /\ \A i \in 1..(page[v].after + Len(new)) : (page[v].shown \o new)[i] = log[i]
  <2> DEFINE shown == page[v].shown
             after == page[v].after
  <2>1. shown \in Chunks /\ new \in Chunks /\ after = Len(shown)
    BY <1>0, <1>1 DEF PageInStep
  <2>2. shown \o new \in Chunks /\ Len(shown \o new) = after + Len(new)
    BY <2>1 DEF Chunks
  <2>3. ASSUME NEW i \in 1..after PROVE (shown \o new)[i] = log[i]
    <3>1. shown[i] = log[i]
      BY DEF PageInStep
    <3> HIDE DEF shown, after
    <3> QED BY <2>1, <3>1 DEF Chunks
  <2>4. ASSUME NEW i \in (after + 1)..(after + Len(new)) PROVE (shown \o new)[i] = log[i]
    <3>1. \A j \in 1..Len(new) : new[j] = log[after + j]
      BY <1>1
    <3> HIDE DEF shown, after
    <3>2. i - after \in 1..Len(new) /\ after + (i - after) = i
      BY <2>1 DEF Chunks
    <3>3. (shown \o new)[i] = new[i - after]
      BY <2>1, <3>2 DEF Chunks
    <3> QED BY <3>1, <3>2, <3>3
  <2>5. after \in Nat /\ Len(new) \in Nat
    BY <2>1 DEF Chunks
  <2>6. ASSUME NEW i \in 1..(after + Len(new)) PROVE (shown \o new)[i] = log[i]
    <3> HIDE DEF shown, after
    <3>1. i \in 1..after \/ i \in (after + 1)..(after + Len(new))
      BY <2>5
    <3> QED BY <2>3, <2>4, <3>1
  <2> QED BY <2>2, <2>6
<1>4. LogTyped' /\ LinesLeft'
  BY <1>1, <1>2, <1>3 DEF LinesLeft, Chunks
<1>5. PageInStep'
  BY <1>0, <1>1, <1>2, <1>3 DEF PageInStep
<1> QED BY <1>4, <1>5

\* The invariant holds in every reachable state.
LEMMA LogInvariance == LogSpec => []LogIInv
<1>1. LogInit => LogIInv
  BY MaxLinesAssumption DEF LogInit, NewPage, LogIInv, LogTyped, Chunks, LinesLeft, PageInStep
<1>2. LogIInv /\ [LogNext]_logVars => LogIInv'
  <2> SUFFICES ASSUME LogIInv, [LogNext]_logVars PROVE LogIInv'
    OBVIOUS
  <2>1. CASE UNCHANGED logVars
    BY <2>1 DEF logVars, LogIInv, LogTyped, LinesLeft, PageInStep
  <2> QED BY <2>1, StatusesInv, WriteInv, RequestsInv, AnswersInv DEF LogNext
<1> QED BY <1>1, <1>2, PTL DEF LogSpec

\* Every reachable state of the log is of the declared types.
THEOREM LogsTyped == LogSpec => []LogTypeOK
<1>1. LogIInv => LogTypeOK
  BY MaxLinesAssumption DEF LogIInv, LogTyped, LinesLeft, PageInStep, LogTypeOK, Chunks
<1> QED BY <1>1, LogInvariance, PTL

\* A page that was told the build is done has shown every chunk that is stored, once
\* and in order, whatever the size of a batch and however many lines nix writes.
THEOREM LogShownWhole == LogSpec => []LogIsWhole
<1>1. LogIInv => LogIsWhole
  <2> SUFFICES ASSUME LogIInv, NEW v \in Pages, page[v].step = "done" PROVE page[v].shown = log
    BY DEF LogIsWhole
  <2>1. page[v].shown \in Chunks /\ log \in Chunks
    BY DEF LogIInv, LogTyped
  <2>2. Len(page[v].shown) = Len(log) /\ \A i \in 1..Len(log) : page[v].shown[i] = log[i]
    BY DEF LogIInv, PageInStep
  <2> QED BY <2>1, <2>2, SeqEqual DEF Chunks
<1> QED BY <1>1, LogInvariance, PTL

-----------------------------------------------------------------------------
(* Profiles.                                                               *)

\* What MCControlPlane says of it, from any rows.
ProfileSpec == ProfileInit /\ [][ProfileNext]_profileVars

\* A call of a deletion is one of those above; the profiles on a list are profiles.
CallNames == DOMAIN Lists \cup {Lists[l] : l \in DOMAIN Lists} \cup Rows \cup {"save"}
CallData ==
  {c \in [do : CallNames, of : Ids, todo : SUBSET Ids, alone : SUBSET Ids] :
     IsCall(c) /\ (c.do = "profiles" => c.todo \subseteq Profiles)}

RequestData ==
  [step : Steps, on : Profiles \cup {None}, original : ProfileData, copy : ProfileData, stale : SUBSET Parts,
   fleet : Fleets \cup {None}, wizard : BOOLEAN, calls : Seq(CallData), quiet : BOOLEAN]

\* A deletion has a call left; what has checked a profile has one.
InStep(q) ==
  /\ q.step = "cascade" => q.calls # <<>>
  /\ q.step \in {"imports", "insert"} => q.on \in Profiles

ProfileTyped ==
  /\ db \in Tables
  /\ draft \in Draft \cup {None}
  /\ req \in [Handlers -> RequestData] /\ begun \in 0..MaxRequests
  /\ saved \in [Profiles -> ProfileData \cup {None}]
  /\ \A h \in Handlers : InStep(req[h])

\* The foreign keys of the tables d.
ForeignKeys(d) ==
  /\ d.devices \subseteq d.fleets
  /\ \A p \in Profiles : d.profiles[p] # None => d.profiles[p].fleets \subseteq d.fleets
  /\ \A b \in Builds :
       d.builds[b] # None => d.builds[b].fleet \in d.fleets /\ d.profiles[d.builds[b].profile] # None
  /\ d.rollouts \subseteq d.released /\ \A b \in d.released : d.builds[b] # None
  /\ d.access \subseteq d.fleets \cup {p \in Profiles : d.profiles[p] # None}

\* Profile p of the tables d, as far as there is one, is still as it was read, but for these parts.
Agrees(d, p, original, stale) ==
  p \in Profiles /\ d.profiles[p] # None => \A s \in Parts \ stale : d.profiles[p][s] = original[s]

\* What request q has read of a profile is stale at most in the parts it knows of;
\* a draft has no imports, until they are read again.
RequestAgrees(q) ==
  /\ q.step \in {"save", "cascade"} => Agrees(db, q.on, q.original, q.stale)
  /\ q.step \in {"chat", "imports"} => Agrees(db, q.on, q.original, q.stale \cup {"imports"})
DraftAgrees == draft # None => Agrees(db, draft.on, draft.original, draft.stale \cup {"imports"})
CopiesAgree == DraftAgrees /\ \A h \in Handlers : RequestAgrees(req[h])

ProfileIInv == ProfileTyped /\ ForeignKeys(db) /\ CopiesAgree /\ EditSurvives

-----------------------------------------------------------------------------
(* What the steps of Profiles have in common.                              *)

\* A request that is not there has nothing stale.
LEMMA NoRequestTyped ==
  /\ NoRequest \in RequestData /\ RequestAgrees(NoRequest) /\ InStep(NoRequest)
  /\ Blank \in ProfileData
<1>1. Blank \in ProfileData
  BY DEF Blank, ProfileData, Contents
<1>2. <<>> \in Seq(CallData)
  BY EmptySeq
<1> QED BY <1>1, <1>2 DEF NoRequest, RequestData, Steps, RequestAgrees, InStep

\* A step that changes one request and the draft only.
LEMMA GoesOn ==
  ASSUME ProfileIInv, NEW h \in Handlers, NEW mine \in RequestData, InStep(mine),
         RequestAgrees(mine), req' = [req EXCEPT ![h] = mine], UNCHANGED <<db, saved>>, begun' \in 0..MaxRequests,
         draft' \in Draft \cup {None}, DraftAgrees'
  PROVE  ProfileIInv'
<1>1. ProfileTyped'
  BY DEF ProfileIInv, ProfileTyped, InStep
<1>2. ForeignKeys(db)' /\ EditSurvives'
  BY DEF ProfileIInv, ForeignKeys, EditSurvives
<1>3. ASSUME NEW x \in Handlers PROVE RequestAgrees(req[x])'
  <2>1. req'[x] = IF x = h THEN mine ELSE req[x]
    BY DEF ProfileIInv, ProfileTyped
  <2>2. RequestAgrees(req[x])
    BY DEF ProfileIInv, CopiesAgree
  <2> QED BY <2>1, <2>2 DEF RequestAgrees, Agrees
<1> QED BY <1>1, <1>2, <1>3 DEF ProfileIInv, CopiesAgree

\* The draft that goes on is typed and stale where it knows.
LEMMA DraftStays ==
  ASSUME ProfileIInv, UNCHANGED <<db, draft>>
  PROVE  draft' \in Draft \cup {None} /\ DraftAgrees'
BY DEF ProfileIInv, ProfileTyped, CopiesAgree, DraftAgrees, Agrees

\* A profile with one part replaced is a profile.
LEMMA PartReplaced ==
  ASSUME NEW c \in ProfileData
  PROVE  /\ \A v \in Contents :
              /\ profileConfigWithPackages(c, v) \in ProfileData /\ profileConfigWithKernel(c, v) \in ProfileData
              /\ profileConfigWithSecurity(c, v) \in ProfileData
              /\ profileConfigWithOpenclawMicrovmEnabled(c, v) \in ProfileData
              /\ [c EXCEPT !.raw = v] \in ProfileData /\ [c EXCEPT !.imports = v] \in ProfileData
              /\ [c EXCEPT !.name = v] \in ProfileData
         /\ \A F \in SUBSET Fleets : [c EXCEPT !.fleets = F] \in ProfileData
         /\ c.packages \in Contents /\ c.kernel \in Contents /\ c.security \in Contents /\ c.openclaw \in Contents
         /\ c.raw \in Contents /\ c.imports \in Contents /\ c.name \in Contents /\ c.fleets \in SUBSET Fleets
BY DEF ProfileData, profileConfigWithPackages, profileConfigWithKernel, profileConfigWithSecurity,
       profileConfigWithOpenclawMicrovmEnabled

\* So is one with the two that the settings page has.
LEMMA SettingsReplaced ==
  ASSUME NEW c \in ProfileData, NEW F \in SUBSET Fleets, NEW v \in Contents
  PROVE  [c EXCEPT !.fleets = F, !.name = v] \in ProfileData
BY DEF ProfileData

\* Its parts can be flipped.
LEMMA Flipped == \A v \in Contents : 1 - v \in Contents
BY DEF Contents

\* A request about a profile that is there reads a profile.
LEMMA ProfileRead ==
  ASSUME ProfileTyped, NEW p \in Profiles, db.profiles[p] # None
  PROVE  GetProfileForEdit(p) \in ProfileData
BY DEF ProfileTyped, Tables, GetProfileForEdit

\* A request is received.
LEMMA ReceiveInv ==
  ASSUME ProfileIInv, NEW h \in Handlers, NEW mine \in RequestData, InStep(mine),
         RequestAgrees(mine), Receive(h, mine), draft' \in Draft \cup {None}, DraftAgrees'
  PROVE  ProfileIInv'
<1>1. begun' \in 0..MaxRequests
  BY MaxRequestsAssumption DEF Receive, ProfileIInv, ProfileTyped
<1> QED BY <1>1, GoesOn DEF Receive

\* One that edits a profile has just read it.
LEMMA EditInv ==
  ASSUME ProfileIInv, NEW h \in Handlers, NEW p \in Profiles, NEW new \in ProfileData,
         Edit(h, p, GetProfileForEdit(p), new)
  PROVE  ProfileIInv'
<1> DEFINE mine == [NoRequest EXCEPT !.step = "save", !.on = p, !.original = GetProfileForEdit(p), !.copy = new]
<1>1. GetProfileForEdit(p) \in ProfileData
  BY ProfileRead DEF ProfileIInv, Edit, resolveProfileAccessContext, GetProfileForEdit
<1>2. mine \in RequestData /\ mine.step = "save" /\ mine.on = p
      /\ mine.original = GetProfileForEdit(p) /\ mine.stale = {}
  BY <1>1, NoRequestTyped DEF RequestData, Steps, NoRequest
<1>3. Receive(h, mine) /\ UNCHANGED <<db, draft>>
  BY DEF Edit, Receive
<1>4. draft' \in Draft \cup {None} /\ DraftAgrees'
  BY <1>3, DraftStays
<1> HIDE DEF mine
<1>5. RequestAgrees(mine) /\ InStep(mine)
  BY <1>2 DEF InStep, RequestAgrees, Agrees, GetProfileForEdit
<1> QED BY <1>2, <1>3, <1>4, <1>5, ReceiveInv

-----------------------------------------------------------------------------
(* Requests that edit a profile.                                           *)

\* A form changes one part.
LEMMA FormInv ==
  ASSUME ProfileIInv, NEW h \in Handlers, NEW p \in Profiles,
         \/ AddProfilePackage(h, p) \/ RemoveProfilePackage(h, p) \/ UpdateProfileKernel(h, p)
         \/ UpdateProfileSecurity(h, p) \/ UpdateProfileOpenClaw(h, p) \/ UpdateProfileRawNix(h, p)
         \/ UpdateProfileForeignImports(h, p) \/ UpdateProfile(h, p)
  PROVE  ProfileIInv'
<1> DEFINE old == GetProfileForEdit(p)
<1>1. old # None
  BY DEF AddProfilePackage, RemoveProfilePackage, UpdateProfileKernel, UpdateProfileSecurity,
         UpdateProfileOpenClaw, UpdateProfileRawNix, UpdateProfileForeignImports, UpdateProfile
<1>2. old \in ProfileData
  BY <1>1, ProfileRead DEF ProfileIInv, GetProfileForEdit
<1>3. CASE UpdateProfile(h, p)
  <2>1. PICK F \in SUBSET Fleets, v \in Contents : Edit(h, p, old, [old EXCEPT !.fleets = F, !.name = v])
    BY <1>3 DEF UpdateProfile, selectedFleetIDsFromForm
  <2> HIDE DEF old
  <2>2. [old EXCEPT !.fleets = F, !.name = v] \in ProfileData
    BY <1>2, SettingsReplaced
  <2> QED BY <2>1, <2>2, EditInv DEF old
<1>4. CASE ~UpdateProfile(h, p)
  <2>1. PICK new \in {profileConfigWithPackages(old, 1), profileConfigWithPackages(old, 0),
                      profileConfigWithKernel(old, 1 - old.kernel),
                      profileConfigWithSecurity(old, 1 - old.security),
                      profileConfigWithOpenclawMicrovmEnabled(old, 1 - old.openclaw),
                      [old EXCEPT !.raw = 1 - @], [old EXCEPT !.imports = 1 - @]} : Edit(h, p, old, new)
    BY <1>4 DEF AddProfilePackage, RemoveProfilePackage, UpdateProfileKernel, UpdateProfileSecurity,
           UpdateProfileOpenClaw, UpdateProfileRawNix, UpdateProfileForeignImports
  <2> HIDE DEF old
  <2>2. [old EXCEPT !.raw = 1 - @] = [old EXCEPT !.raw = 1 - old.raw]
        /\ [old EXCEPT !.imports = 1 - @] = [old EXCEPT !.imports = 1 - old.imports]
    OBVIOUS
  <2>3. 1 \in Contents /\ 0 \in Contents
    BY DEF Contents
  <2>4. new \in ProfileData
    BY <1>2, <2>1, <2>2, <2>3, PartReplaced, Flipped
  <2> QED BY <2>1, <2>4, EditInv DEF old
<1> QED BY <1>3, <1>4

\* A configuration in which the fields are replaced is one.
LEMMA FieldsApplied ==
  ASSUME NEW config, NEW S, config \in S, NEW fields,
         \A c \in S : /\ profileConfigWithPackages(c, 1 - c.packages) \in S
                      /\ profileConfigWithKernel(c, 1 - c.kernel) \in S
                      /\ profileConfigWithOpenclawMicrovmEnabled(c, 1 - c.openclaw) \in S
  PROVE  applyAPIProfileMutationFields(config, fields) \in S
BY DEF applyAPIProfileMutationFields

\* What the API makes of a profile and a configuration is a profile.
LEMMA MutationTyped ==
  ASSUME NEW old \in ProfileData, NEW config, \A s \in ConfigParts : config[s] \in Contents, NEW fields
  PROVE  buildAPIProfileMutationInput(old, config, fields) \in ProfileData
BY DEF buildAPIProfileMutationInput, ProfileData, Parts, ConfigParts, Contents

\* The API changes a profile that it has read.
LEMMA APIInv ==
  ASSUME ProfileIInv, NEW h \in Handlers, NEW p \in Profiles, APIReplaceProfile(h, p) \/ APIPatchProfile(h, p)
  PROVE  ProfileIInv'
<1> DEFINE old == GetProfileForEdit(p)
<1>1. old # None
  BY DEF APIReplaceProfile, APIPatchProfile, handleAPIProfileMutation
<1>2. old \in ProfileData
  BY <1>1, ProfileRead DEF ProfileIInv, GetProfileForEdit
<1>3. PICK fields : Edit(h, p, old, buildAPIProfileReplaceInput(old, fields))
                    \/ Edit(h, p, old, buildAPIProfilePatchInput(old, fields))
  BY DEF APIReplaceProfile, APIPatchProfile, handleAPIProfileMutation
<1> HIDE DEF old
<1>4. buildAPIProfileReplaceInput(old, fields) \in ProfileData
  <2> DEFINE S == [ConfigParts -> Contents]
             config == [s \in ConfigParts |-> 1 - old[s]]
  <2>1. config \in S
    BY <1>2 DEF ConfigParts, ProfileData, Contents
  <2>2. \A c \in S : /\ profileConfigWithPackages(c, 1 - c.packages) \in S
                     /\ profileConfigWithKernel(c, 1 - c.kernel) \in S
                     /\ profileConfigWithOpenclawMicrovmEnabled(c, 1 - c.openclaw) \in S
    BY DEF ConfigParts, Contents, profileConfigWithPackages, profileConfigWithKernel,
           profileConfigWithOpenclawMicrovmEnabled
  <2> HIDE DEF config
  <2>3. applyAPIProfileMutationFields(config, fields) \in S
    <3> HIDE DEF S
    <3> QED BY <2>1, <2>2, FieldsApplied
  <2> QED BY <1>2, <2>3, MutationTyped DEF buildAPIProfileReplaceInput, config
<1>5. buildAPIProfilePatchInput(old, fields) \in ProfileData
  <2> DEFINE config == IF "config" \in fields THEN [old EXCEPT !.security = 1 - @] ELSE old
  <2>1. config \in ProfileData
    BY <1>2 DEF ProfileData, Contents
  <2>2. \A c \in ProfileData :
          /\ profileConfigWithPackages(c, 1 - c.packages) \in ProfileData
          /\ profileConfigWithKernel(c, 1 - c.kernel) \in ProfileData
          /\ profileConfigWithOpenclawMicrovmEnabled(c, 1 - c.openclaw) \in ProfileData
    BY PartReplaced, Flipped
  <2> HIDE DEF config
  <2>3. applyAPIProfileMutationFields(config, fields) \in ProfileData
    BY <2>1, <2>2, FieldsApplied
  <2>4. \A c \in ProfileData : \A s \in ConfigParts : c[s] \in Contents
    BY DEF ProfileData, ConfigParts
  <2> QED BY <1>2, <2>3, <2>4, MutationTyped DEF buildAPIProfilePatchInput, config
<1> QED BY <1>3, <1>4, <1>5, EditInv DEF old

-----------------------------------------------------------------------------
(* The wizard.                                                             *)

\* A draft of what is read, or the one in the session: typed, of profile p, and stale
\* where it knows.
LEMMA StateTyped ==
  ASSUME ProfileIInv, NEW p \in Profiles \cup {None}, MayUseWizard(p),
         NEW state \in {prepareProfileWizardState(p), newProfileWizardState(p)}
  PROVE  state \in Draft /\ state.on = p /\ Agrees(db, p, state.original, state.stale \cup {"imports"})
<1>1. newProfileWizardState(p) \in Draft
      /\ newProfileWizardState(p).on = p
      /\ Agrees(db, p, newProfileWizardState(p).original, newProfileWizardState(p).stale \cup {"imports"})
  <2> DEFINE old == IF p = None THEN Blank ELSE [GetProfileForEdit(p) EXCEPT !.imports = 0]
             new == newProfileWizardState(p)
  <2>1. new = [on |-> p, original |-> old, copy |-> old, stale |-> {}]
    BY DEF newProfileWizardState
  <2>2. CASE p = None
    <3>1. p \notin Profiles /\ old \in ProfileData
      BY <2>2, NoneAssumption, NoRequestTyped
    <3> HIDE DEF old, new
    <3> QED BY <2>1, <3>1 DEF Draft, Agrees, new
  <2>3. CASE p # None
    <3>1. p \in Profiles /\ GetProfileForEdit(p) \in ProfileData
      BY <2>3, ProfileRead DEF MayUseWizard, resolveProfileAccessContext, GetProfileForEdit, ProfileIInv
    <3>2. old \in ProfileData /\ \A s \in Parts \ {"imports"} : old[s] = db.profiles[p][s]
      BY <2>3, <3>1 DEF ProfileData, Contents, Parts, ConfigParts, GetProfileForEdit
    <3> HIDE DEF old, new
    <3>3. new \in Draft /\ new.on = p /\ new.original = old /\ new.stale = {}
      BY <2>1, <3>2 DEF Draft
    <3> QED BY <3>2, <3>3 DEF Agrees, new
  <2> QED BY <2>2, <2>3
<1>2. CASE state = draft /\ draft # None /\ draft.on = p
  BY <1>2 DEF ProfileIInv, ProfileTyped, CopiesAgree, DraftAgrees
<1> QED BY <1>1, <1>2 DEF prepareProfileWizardState, profileWizardStateMismatch

\* A draft that is put into the session while nothing else happens.
LEMMA DraftSet ==
  ASSUME ProfileIInv, UNCHANGED db, draft' \in Draft,
         Agrees(db, draft'.on, draft'.original, draft'.stale \cup {"imports"})
  PROVE  draft' \in Draft \cup {None} /\ DraftAgrees'
BY DEF DraftAgrees, Agrees

\* A page of the wizard makes a draft, or drops the one there is.
LEMMA WizardPageInv ==
  ASSUME ProfileIInv, NEW p \in Profiles \cup {None}, ProfileWizardPage(p) \/ ProfileWizardDiscard(p)
  PROVE  ProfileIInv'
<1>1. UNCHANGED <<db, req, begun, saved>>
  BY DEF ProfileWizardPage, ProfileWizardDiscard
<1>2. draft' \in Draft \cup {None} /\ DraftAgrees'
  <2>1. CASE ProfileWizardPage(p)
    BY <2>1, <1>1, StateTyped, DraftSet DEF ProfileWizardPage
  <2>2. CASE ProfileWizardDiscard(p)
    BY <2>2 DEF ProfileWizardDiscard, DraftAgrees
  <2> QED BY <2>1, <2>2
<1>3. \A h \in Handlers : RequestAgrees(req[h])'
  BY <1>1 DEF ProfileIInv, CopiesAgree, RequestAgrees, Agrees
<1>4. ForeignKeys(db)' /\ EditSurvives'
  BY <1>1 DEF ProfileIInv, ForeignKeys, EditSurvives
<1> QED BY <1>1, <1>2, <1>3, <1>4 DEF ProfileIInv, ProfileTyped, CopiesAgree

\* The draft goes to the assistant, or is to be saved.
LEMMA WizardRequestInv ==
  ASSUME ProfileIInv, NEW h \in Handlers, NEW p \in Profiles \cup {None},
         ProfileWizardChat(h, p) \/ ProfileWizardApply(h, p)
  PROVE  ProfileIInv'
<1> DEFINE state == prepareProfileWizardState(p)
<1>1. state \in Draft /\ state.on = p /\ Agrees(db, p, state.original, state.stale \cup {"imports"})
  BY StateTyped DEF ProfileWizardChat, ProfileWizardApply
<1>2. draft' = state /\ UNCHANGED db
  BY DEF ProfileWizardChat, ProfileWizardApply, Receive
<1>3. draft' \in Draft \cup {None} /\ DraftAgrees'
  <2> HIDE DEF state
  <2> QED BY <1>1, <1>2, DraftSet
<1>4. CASE ProfileWizardChat(h, p)
  <2> DEFINE mine == [NoRequest EXCEPT !.step = "chat", !.on = p, !.original = state.original, !.copy = state.copy,
                                       !.stale = state.stale]
  <2>1. Receive(h, mine)
    BY <1>4 DEF ProfileWizardChat
  <2> HIDE DEF state
  <2>2. mine \in RequestData /\ mine.step = "chat" /\ mine.on = p /\ mine.original = state.original
        /\ mine.stale = state.stale
    BY <1>1, NoRequestTyped DEF RequestData, Steps, NoRequest, Draft
  <2> HIDE DEF mine
  <2>3. RequestAgrees(mine) /\ InStep(mine)
    BY <1>1, <2>2 DEF RequestAgrees, InStep
  <2> QED BY <1>3, <2>1, <2>2, <2>3, ReceiveInv
<1>5. CASE ProfileWizardApply(h, p)
  <2> DEFINE step == IF p = None THEN "save" ELSE "imports"
             mine == [NoRequest EXCEPT !.step = step, !.on = p, !.wizard = TRUE, !.original = state.original,
                                       !.copy = state.copy, !.stale = state.stale]
  <2>1. Receive(h, mine)
    BY <1>5 DEF ProfileWizardApply
  <2> HIDE DEF state
  <2>2. mine \in RequestData /\ mine.step = step /\ mine.on = p /\ mine.original = state.original
        /\ mine.stale = state.stale
    BY <1>1, NoRequestTyped DEF RequestData, Steps, NoRequest, Draft
  <2> HIDE DEF mine
  <2>3. RequestAgrees(mine) /\ InStep(mine)
    BY <1>1, <2>2, NoneAssumption DEF RequestAgrees, Agrees, InStep
  <2> QED BY <1>3, <2>1, <2>2, <2>3, ReceiveInv
<1> QED BY <1>4, <1>5

\* The assistant's draft is of the profile it was asked about.
LEMMA ResolveDraftInv ==
  ASSUME ProfileIInv, NEW h \in Handlers, ResolveDraft(h)
  PROVE  ProfileIInv'
<1> DEFINE q == req[h]
<1>1. q \in RequestData /\ q.step = "chat" /\ Agrees(db, q.on, q.original, q.stale \cup {"imports"})
  BY DEF ResolveDraft, ProfileIInv, ProfileTyped, CopiesAgree, RequestAgrees
<1>2. UNCHANGED <<db, begun, saved>> /\ req' = [req EXCEPT ![h] = NoRequest]
  BY DEF ResolveDraft
<1>3. draft' \in Draft \cup {None} /\ DraftAgrees'
  <2>1. CASE UNCHANGED draft
    BY <1>2, <2>1, DraftStays
  <2>2. ASSUME NEW new \in executeProfileWizardTool(q.original, q.copy),
               draft' = [on |-> q.on, original |-> q.original, copy |-> new, stale |-> q.stale]
        PROVE  draft' \in Draft \cup {None} /\ DraftAgrees'
    <3>1. q.original \in ProfileData /\ q.copy \in ProfileData
      BY <1>1 DEF RequestData
    <3>2. [q.copy EXCEPT !.raw = 1 - @] = [q.copy EXCEPT !.raw = 1 - q.copy.raw]
          /\ [q.copy EXCEPT !.name = 1 - @] = [q.copy EXCEPT !.name = 1 - q.copy.name]
      OBVIOUS
    <3>3. new \in ProfileData
      <4> HIDE DEF q
      <4>1. CASE new \in applyProfileWizardDraftUpdate(q.copy)
        <5>1. PICK F \in SUBSET Fleets :
                \/ new = profileConfigWithPackages(q.copy, 1 - q.copy.packages)
                \/ new = profileConfigWithKernel(q.copy, 1 - q.copy.kernel)
                \/ new = profileConfigWithOpenclawMicrovmEnabled(q.copy, 1 - q.copy.openclaw)
                \/ new = [q.copy EXCEPT !.raw = 1 - q.copy.raw]
                \/ new = [q.copy EXCEPT !.name = 1 - q.copy.name]
                \/ new = [q.copy EXCEPT !.fleets = F]
          BY <3>2, <4>1 DEF applyProfileWizardDraftUpdate
        <5> QED BY <3>1, <5>1, PartReplaced, Flipped
      <4>2. CASE new \notin applyProfileWizardDraftUpdate(q.copy)
        BY <2>2, <3>1, <4>2 DEF executeProfileWizardTool
      <4> QED BY <4>1, <4>2
    <3>4. draft' \in Draft
      BY <1>1, <2>2, <3>3 DEF Draft, RequestData
    <3>5. Agrees(db, draft'.on, draft'.original, draft'.stale \cup {"imports"})
      BY <1>1, <2>2
    <3> QED BY <1>2, <3>4, <3>5, DraftSet
  <2> QED BY <2>1, <2>2 DEF ResolveDraft
<1>4. begun' \in 0..MaxRequests
  BY <1>2 DEF ProfileIInv, ProfileTyped
<1> QED BY <1>2, <1>3, <1>4, NoRequestTyped, GoesOn

\* The imports are read again: nothing is stale that the draft does not know of.
LEMMA PreserveImportsInv ==
  ASSUME ProfileIInv, NEW h \in Handlers, PreserveImports(h)
  PROVE  ProfileIInv'
<1> DEFINE q == req[h]
           p == q.on
           read == GetProfileForEdit(p)
           k1 == IF read = None THEN q.original.imports ELSE read.imports
           k2 == IF read = None THEN q.copy.imports ELSE read.imports
           mine == [q EXCEPT !.step = "save", !.original = [q.original EXCEPT !.imports = k1],
                             !.copy = [q.copy EXCEPT !.imports = k2], !.stale = q.stale \ {"imports"}]
<1>1. /\ q \in RequestData /\ q.step = "imports" /\ Agrees(db, p, q.original, q.stale \cup {"imports"})
      /\ q.original \in ProfileData /\ q.copy \in ProfileData /\ p \in Profiles
  BY DEF PreserveImports, ProfileIInv, ProfileTyped, InStep, CopiesAgree, RequestAgrees, RequestData
<1>2. UNCHANGED <<db, draft, begun, saved>>
  BY DEF PreserveImports
<1>3. req' = [req EXCEPT ![h] = mine]
  <2>1. req' = [req EXCEPT ![h].step = "save", ![h].original.imports = k1, ![h].copy.imports = k2,
                           ![h].stale = q.stale \ {"imports"}]
    BY DEF PreserveImports
  <2> HIDE DEF k1, k2
  <2> QED BY <1>1, <2>1 DEF ProfileIInv, ProfileTyped, RequestData
<1>4. read # None => read \in ProfileData
  BY <1>1, ProfileRead DEF ProfileIInv, GetProfileForEdit
<1>5. /\ mine \in RequestData /\ mine.step = "save" /\ mine.on = p /\ mine.stale = q.stale \ {"imports"}
      /\ mine.original = [q.original EXCEPT !.imports = k1]
  <2>1. [q.original EXCEPT !.imports = k1] \in ProfileData
        /\ [q.copy EXCEPT !.imports = k2] \in ProfileData
    BY <1>1, <1>4, PartReplaced
  <2> HIDE DEF k1, k2
  <2> QED BY <1>1, <2>1 DEF RequestData, Steps
<1> HIDE DEF mine, q
<1>6. InStep(mine) /\ RequestAgrees(mine)
  BY <1>1, <1>4, <1>5 DEF InStep, RequestAgrees, Agrees, GetProfileForEdit, ProfileData, Parts,
        ConfigParts
<1>7. draft' \in Draft \cup {None} /\ DraftAgrees' /\ begun' \in 0..MaxRequests
  BY <1>2, DraftStays DEF ProfileIInv, ProfileTyped
<1> QED BY <1>2, <1>3, <1>5, <1>6, <1>7, GoesOn

-----------------------------------------------------------------------------
(* Other requests that are received.                                       *)

\* The lists, and what they are lists of.
LEMMA ListNames ==
  /\ DOMAIN Lists = {"rolloutsIn", "rolloutsOf", "releasesOf", "buildsIn", "buildsOf", "profilesIn"}
  /\ {Lists[l] : l \in DOMAIN Lists} = {"rollouts", "releases", "builds", "profiles"}
<1>1. DOMAIN Lists = {"rolloutsIn", "rolloutsOf", "releasesOf", "buildsIn", "buildsOf", "profilesIn"}
  BY DEF Lists
<1>2. /\ Lists["rolloutsIn"] = "rollouts" /\ Lists["rolloutsOf"] = "rollouts" /\ Lists["releasesOf"] = "releases"
      /\ Lists["buildsIn"] = "builds" /\ Lists["buildsOf"] = "builds" /\ Lists["profilesIn"] = "profiles"
  BY DEF Lists
<1> QED BY <1>1, <1>2

\* The calls of a deletion are calls.
LEMMA CallTyped ==
  /\ \A f \in Fleets : deleteFleetCascade(f) \in Seq(CallData) /\ deleteFleetCascade(f) # <<>>
  /\ \A p \in Profiles : deleteProfileCascade(p) \in Seq(CallData) /\ deleteProfileCascade(p) # <<>>
  /\ \A b \in Builds : deleteBuildCascade(b) \in Seq(CallData) /\ deleteBuildCascade(b) # <<>>
  /\ \A b \in Builds : deleteReleaseCascade(b) \in Seq(CallData) /\ deleteReleaseCascade(b) # <<>>
  /\ \A do \in {"rolloutsIn", "rolloutsOf", "releasesOf", "buildsIn", "buildsOf", "profilesIn", "build", "release",
                "profile", "devices", "fleet", "save"}, x \in Ids : Call(do, x) \in CallData
<1>1. \A do \in {"rolloutsIn", "rolloutsOf", "releasesOf", "buildsIn", "buildsOf", "profilesIn", "build", "release",
                "profile", "devices", "fleet", "save"}, x \in Ids : Call(do, x) \in CallData
  <2> SUFFICES ASSUME NEW do \in {"rolloutsIn", "rolloutsOf", "releasesOf", "buildsIn", "buildsOf", "profilesIn", "build",
                                   "release", "profile", "devices", "fleet", "save"}, NEW x \in Ids
               PROVE  Call(do, x) \in CallData
    OBVIOUS
  <2>1. do # "profiles"
    OBVIOUS
  <2>2. do \in CallNames
    BY ListNames DEF Rows, CallNames
  <2> QED BY <2>1, <2>2 DEF CallNames, Call, CallData, IsCall
<1>2. Fleets \subseteq Ids /\ Profiles \subseteq Ids /\ Builds \subseteq Ids
  BY DEF Ids
<1> HIDE DEF CallData
<1>3. \A f \in Fleets : deleteFleetCascade(f) \in Seq(CallData) /\ deleteFleetCascade(f) # <<>>
  BY <1>1, <1>2 DEF deleteFleetCascade
<1>4. \A p \in Profiles : deleteProfileCascade(p) \in Seq(CallData) /\ deleteProfileCascade(p) # <<>>
  BY <1>1, <1>2 DEF deleteProfileCascade
<1>5. \A b \in Builds : /\ deleteBuildCascade(b) \in Seq(CallData) /\ deleteBuildCascade(b) # <<>>
                        /\ deleteReleaseCascade(b) \in Seq(CallData) /\ deleteReleaseCascade(b) # <<>>
  BY <1>1, <1>2 DEF deleteBuildCascade, deleteReleaseCascade
<1> QED BY <1>1, <1>3, <1>4, <1>5

\* A deletion has its calls before it.
LEMMA DeleteInv ==
  ASSUME ProfileIInv, NEW h \in Handlers,
         DeleteFleet(h) \/ DeleteProfile(h) \/ DeleteProfileBuild(h) \/ DeleteProfileRelease(h)
  PROVE  ProfileIInv'
<1>1. PICK calls \in Seq(CallData) : calls # <<>> /\ Delete(h, calls)
  <2>1. CASE DeleteFleet(h)
    BY <2>1, CallTyped DEF DeleteFleet
  <2>2. CASE DeleteProfile(h)
    BY <2>2, CallTyped DEF DeleteProfile, MyProfiles
  <2>3. CASE DeleteProfileBuild(h)
    BY <2>3, CallTyped DEF DeleteProfileBuild
  <2>4. CASE DeleteProfileRelease(h)
    <3>1. db.released \subseteq Builds
      BY DEF ProfileIInv, ProfileTyped, Tables
    <3> QED BY <2>4, <3>1, CallTyped DEF DeleteProfileRelease
  <2> QED BY <2>1, <2>2, <2>3, <2>4
<1> DEFINE mine == [NoRequest EXCEPT !.step = "cascade", !.calls = calls]
<1>2. mine \in RequestData /\ mine.step = "cascade" /\ mine.on = None /\ mine.calls = calls
  BY NoRequestTyped DEF RequestData, NoRequest, Steps
<1>3. Receive(h, mine) /\ UNCHANGED <<db, draft>>
  BY <1>1 DEF Delete, Receive
<1> HIDE DEF mine
<1>4. InStep(mine) /\ RequestAgrees(mine)
  BY <1>1, <1>2, NoneAssumption DEF InStep, RequestAgrees, Agrees
<1> QED BY <1>2, <1>3, <1>4, DraftStays, ReceiveInv

\* A new profile, or a build, has no copy of a profile.
LEMMA CreateInv ==
  ASSUME ProfileIInv, NEW h \in Handlers,
         CreateProfile(h) \/ \E p \in Profiles, f \in Fleets : CreateProfileBuild(h, p, f)
  PROVE  ProfileIInv'
<1>1. CASE CreateProfile(h)
  <2>1. PICK F \in SUBSET Fleets : Receive(h, [NoRequest EXCEPT !.step = "save", !.copy.fleets = F])
        /\ UNCHANGED draft
    BY <1>1 DEF CreateProfile, selectedFleetIDsFromForm
  <2> DEFINE mine == [NoRequest EXCEPT !.step = "save", !.copy.fleets = F]
  <2>2. mine \in RequestData /\ mine.step = "save" /\ mine.on = None
    <3>1. mine = [NoRequest EXCEPT !.step = "save", !.copy = [Blank EXCEPT !.fleets = F]]
      BY NoRequestTyped DEF RequestData, NoRequest
    <3>2. [Blank EXCEPT !.fleets = F] \in ProfileData
      BY NoRequestTyped, PartReplaced
    <3> HIDE DEF mine
    <3> QED BY <3>1, <3>2, NoRequestTyped DEF RequestData, NoRequest, Steps
  <2>3. UNCHANGED <<db, draft>>
    BY <2>1 DEF Receive
  <2> HIDE DEF mine
  <2>4. InStep(mine) /\ RequestAgrees(mine)
    BY <2>2, NoneAssumption DEF InStep, RequestAgrees, Agrees
  <2> QED BY <2>1, <2>2, <2>3, <2>4, DraftStays, ReceiveInv DEF mine
<1>2. ASSUME NEW p \in Profiles, NEW f \in Fleets, CreateProfileBuild(h, p, f) PROVE ProfileIInv'
  <2> DEFINE mine == [NoRequest EXCEPT !.step = "insert", !.on = p, !.fleet = f]
  <2>1. mine \in RequestData /\ mine.step = "insert" /\ mine.on = p
    BY NoRequestTyped DEF RequestData, NoRequest, Steps
  <2>2. Receive(h, mine) /\ UNCHANGED <<db, draft>>
    BY <1>2 DEF CreateProfileBuild, Receive
  <2> HIDE DEF mine
  <2>3. InStep(mine) /\ RequestAgrees(mine)
    BY <2>1 DEF InStep, RequestAgrees
  <2> QED BY <2>1, <2>2, <2>3, DraftStays, ReceiveInv
<1> QED BY <1>1, <1>2

\* A request that failed, was refused, or was answered, has nothing left.
LEMMA FailInv == ASSUME ProfileIInv, NEW h \in Handlers, Fail(h) \/ Refuse(h) \/ Answer(h) PROVE ProfileIInv'
<1> DEFINE refused == [NoRequest EXCEPT !.step = "refused"]
<1>1. Failed(h) \in RequestData /\ Failed(h).step = "failed"
  BY NoRequestTyped DEF Failed, RequestData, NoRequest, Steps, ProfileIInv, ProfileTyped
<1>2. InStep(Failed(h)) /\ RequestAgrees(Failed(h))
  BY <1>1 DEF InStep, RequestAgrees
<1>3. refused \in RequestData /\ refused.step = "refused"
  BY NoRequestTyped DEF RequestData, NoRequest, Steps
<1>4. UNCHANGED <<db, draft, saved, begun>>
      /\ \/ req' = [req EXCEPT ![h] = Failed(h)]
         \/ req' = [req EXCEPT ![h] = refused]
         \/ req' = [req EXCEPT ![h] = NoRequest]
  BY DEF Fail, Refuse, Answer
<1> HIDE DEF refused
<1>5. InStep(refused) /\ RequestAgrees(refused)
  BY <1>3 DEF InStep, RequestAgrees
<1>6. begun' \in 0..MaxRequests /\ draft' \in Draft \cup {None} /\ DraftAgrees'
  BY <1>4, DraftStays DEF ProfileIInv, ProfileTyped
<1> QED BY <1>1, <1>2, <1>3, <1>4, <1>5, <1>6, NoRequestTyped, GoesOn

-----------------------------------------------------------------------------
(* Writes to the tables.                                                   *)

\* Another request that is in flight knows what was changed.
LEMMA DisturbedTyped ==
  ASSUME NEW q \in RequestData, NEW p, NEW parts \in SUBSET Parts
  PROVE  /\ Disturbed(q, p, parts) \in RequestData
         /\ Disturbed(q, p, parts).step = q.step /\ Disturbed(q, p, parts).on = q.on
         /\ Disturbed(q, p, parts).original = q.original /\ Disturbed(q, p, parts).calls = q.calls
         /\ q.step \in {"idle", "failed", "refused"}
              \/ (p # None /\ q.on = p /\ Disturbed(q, p, parts).stale = q.stale \cup parts)
              \/ (~(p # None /\ q.on = p) /\ Disturbed(q, p, parts).stale = q.stale)
<1>1. CASE q.step \in {"idle", "failed", "refused"}
  BY <1>1 DEF Disturbed
<1>2. CASE q.step \notin {"idle", "failed", "refused"}
  BY <1>2 DEF Disturbed, RequestData
<1> QED BY <1>1, <1>2

\* What a change of the tables leaves of profile x, to a copy of it: x is gone, or as it
\* was but for the parts, or there is no copy of it.
RequestKept(x, new, p, parts) ==
  \/ new.profiles[x] = None
  \/ /\ db.profiles[x] # None
     /\ \A s \in Parts : new.profiles[x][s] = db.profiles[x][s] \/ (x = p /\ s \in parts)
  \/ (draft # None => draft.on # x) /\ \A y \in Handlers : req[y].on # x

LEMMA StillAgrees ==
  ASSUME NEW new, NEW p \in Profiles \cup {None}, NEW parts, NEW x, NEW original, NEW stale, NEW known,
         Agrees(db, x, original, stale), stale \subseteq known, x = p => parts \subseteq known,
         x \in Profiles => \/ new.profiles[x] = None
                          \/ /\ db.profiles[x] # None
                             /\ \A s \in Parts : new.profiles[x][s] = db.profiles[x][s] \/ (x = p /\ s \in parts)
  PROVE  Agrees(new, x, original, known)
BY DEF Agrees

\* The tables become new, and mine is left of the request that wrote them.
LEMMA TablesWritten ==
  ASSUME ProfileIInv, NEW h, NEW mine \in RequestData, NEW new \in Tables, NEW p \in Profiles \cup {None},
         NEW parts \in SUBSET Parts,
         ForeignKeys(new), Write(h, mine, new, p, parts), begun' \in 0..MaxRequests,
         mine.on = None, InStep(mine),
         saved' \in [Profiles -> ProfileData \cup {None}],
         \A x \in Profiles : new.profiles[x] = saved'[x] /\ RequestKept(x, new, p, parts),
         draft' \in Draft \cup {None},
         \/ draft' = draft /\ (draft # None /\ p # None => draft.on # p)
         \/ draft' = None
         \/ draft # None /\ draft.on = p /\ draft' = [draft EXCEPT !.stale = @ \cup parts]
  PROVE  ProfileIInv'
<1>1. db' = new /\ \A x \in Handlers : req'[x] = IF x = h THEN mine ELSE Disturbed(req[x], p, parts)
  BY DEF Write
<1>2. ASSUME NEW x \in Handlers
      PROVE  req'[x] \in RequestData /\ InStep(req[x])' /\ RequestAgrees(req[x])'
  <2>1. CASE x = h
    BY <1>1, <2>1, NoneAssumption DEF InStep, RequestAgrees, Agrees
  <2>2. CASE x # h
    <3> DEFINE q == req[x]
               d == req'[x]
    <3>1. q \in RequestData /\ InStep(q) /\ RequestAgrees(q) /\ req'[x] = Disturbed(q, p, parts)
      BY <1>1, <2>2 DEF ProfileIInv, ProfileTyped, CopiesAgree
    <3>2. /\ d \in RequestData /\ d.step = q.step /\ d.on = q.on /\ d.original = q.original /\ d.calls = q.calls
          /\ \/ q.step \in {"idle", "failed", "refused"}
             \/ p # None /\ q.on = p /\ d.stale = q.stale \cup parts
             \/ ~(p # None /\ q.on = p) /\ d.stale = q.stale
      <4> HIDE DEF q
      <4> QED BY <3>1, DisturbedTyped
    <3>3. InStep(req[x])'
      BY <3>1, <3>2 DEF InStep
    <3>4. q.on \in Profiles => \/ new.profiles[q.on] = None
                              \/ /\ db.profiles[q.on] # None
                                 /\ \A s \in Parts : \/ new.profiles[q.on][s] = db.profiles[q.on][s]
                                                     \/ q.on = p /\ s \in parts
      BY DEF RequestKept
    <3>5. \/ q.step \in {"idle", "failed", "refused"}
          \/ q.stale \subseteq d.stale /\ (q.on = p => q.on \notin Profiles \/ parts \subseteq d.stale)
      BY <3>2, NoneAssumption
    <3>6. RequestAgrees(req[x])'
      <4>1. CASE q.on \notin Profiles
        BY <3>2, <4>1 DEF RequestAgrees, Agrees
      <4>2. CASE q.on \in Profiles /\ q.step \in {"save", "cascade"}
        <5>1. Agrees(db, q.on, q.original, q.stale)
          BY <3>1, <4>2 DEF RequestAgrees
        <5>2. Agrees(new, q.on, q.original, d.stale)
          BY <1>1, <3>2, <3>4, <3>5, <4>2, <5>1, StillAgrees
        <5> QED BY <1>1, <3>2, <4>2, <5>2 DEF RequestAgrees
      <4>3. CASE q.on \in Profiles /\ q.step \in {"chat", "imports"}
        <5>1. Agrees(db, q.on, q.original, q.stale \cup {"imports"})
          BY <3>1, <4>3 DEF RequestAgrees
        <5>2. q.stale \cup {"imports"} \subseteq d.stale \cup {"imports"}
              /\ (q.on = p => parts \subseteq d.stale \cup {"imports"})
          BY <3>5, <4>3
        <5> HIDE DEF q, d
        <5>3. Agrees(new, q.on, q.original, d.stale \cup {"imports"})
          BY <3>4, <5>1, <5>2 DEF Agrees
        <5> USE DEF q, d
        <5> QED BY <1>1, <3>2, <4>3, <5>3 DEF RequestAgrees
      <4> QED BY <3>2, <4>1, <4>2, <4>3 DEF RequestAgrees
    <3> QED BY <3>1, <3>2, <3>3, <3>6
  <2> QED BY <2>1, <2>2
<1>3. DraftAgrees'
  <2> SUFFICES ASSUME draft' # None PROVE Agrees(db, draft.on, draft.original, draft.stale \cup {"imports"})'
    BY DEF DraftAgrees
  <2>1. draft # None /\ draft \in Draft
        /\ Agrees(db, draft.on, draft.original, draft.stale \cup {"imports"})
    <3>1. draft # None
      OBVIOUS
    <3> QED BY <3>1 DEF ProfileIInv, ProfileTyped, CopiesAgree, DraftAgrees
  <2>2. draft'.on = draft.on /\ draft'.original = draft.original /\ draft.stale \subseteq draft'.stale
        /\ (draft.on = p => draft.on \notin Profiles \/ parts \subseteq draft'.stale)
    BY <2>1, NoneAssumption DEF Draft
  <2>3. draft.on \in Profiles => \/ new.profiles[draft.on] = None
                                \/ /\ db.profiles[draft.on] # None
                                   /\ \A s \in Parts : \/ new.profiles[draft.on][s] = db.profiles[draft.on][s]
                                                       \/ draft.on = p /\ s \in parts
    BY <2>1 DEF RequestKept
  <2>4. CASE draft.on \notin Profiles
    BY <2>2, <2>4 DEF Agrees
  <2>5. CASE draft.on \in Profiles
    <3>1. Agrees(new, draft.on, draft.original, draft'.stale \cup {"imports"})
      <4>1. draft.stale \cup {"imports"} \subseteq draft'.stale \cup {"imports"}
            /\ (draft.on = p => parts \subseteq draft'.stale \cup {"imports"})
        BY <2>2, <2>5
      <4> QED BY <2>1, <2>3, <4>1 DEF Agrees
    <3> QED BY <1>1, <2>2, <3>1
  <2> QED BY <2>4, <2>5
<1>4. ProfileTyped'
  BY <1>1, <1>2 DEF ProfileTyped, Write
<1>5. ForeignKeys(db)' /\ EditSurvives'
  BY <1>1 DEF ForeignKeys, EditSurvives
<1> QED BY <1>2, <1>3, <1>4, <1>5 DEF ProfileIInv, CopiesAgree

-----------------------------------------------------------------------------
(* Saving.                                                                 *)

\* A profile is the function of its parts.
LEMMA ProfileParts == ASSUME NEW c \in ProfileData PROVE c = [s \in Parts |-> c[s]]
BY DEF ProfileData, Parts, ConfigParts

\* A save writes what was meant, and nothing else: a part that it does not mean to
\* change, and knows nothing of, is as it was read.
LEMMA UpdateRowInv ==
  ASSUME ProfileIInv, NEW h \in Handlers, NEW mine \in RequestData, mine.on = None, InStep(mine),
         req[h].step \in {"save", "cascade"}, UpdateProfileRow(h, mine)
  PROVE  ProfileIInv'
<1> DEFINE p == req[h].on
           new == req[h].copy
           changed == {s \in Parts : db.profiles[p][s] # new[s]}
           meant == req[h].stale \cup {s \in Parts : req[h].original[s] # new[s]}
           tables == [db EXCEPT !.profiles[p] = new]
           row == [s \in Parts |-> IF s \in meant THEN new[s] ELSE saved[p][s]]
<1>1. /\ db.profiles[p] # None /\ new.fleets # {} /\ new.fleets \subseteq db.fleets
      /\ Write(h, mine, tables, p, changed) /\ saved' = [saved EXCEPT ![p] = row] /\ UNCHANGED begun
      /\ draft' = IF req[h].wizard THEN None
                  ELSE IF draft # None /\ draft.on = p THEN [draft EXCEPT !.stale = @ \cup changed]
                  ELSE draft
  BY DEF UpdateProfileRow
<1>2. /\ p \in Profiles \cup {None} /\ new \in ProfileData /\ db \in Tables
      /\ saved \in [Profiles -> ProfileData \cup {None}]
      /\ new # None /\ begun \in 0..MaxRequests /\ changed \in SUBSET Parts
  BY NoneAssumption DEF ProfileIInv, ProfileTyped, RequestData
<1>3. draft' \in Draft \cup {None}
  <2>1. draft \in Draft \cup {None}
    BY DEF ProfileIInv, ProfileTyped
  <2> HIDE DEF changed, p
  <2>2. draft # None => [draft EXCEPT !.stale = @ \cup changed] \in Draft
    BY <1>2, <2>1 DEF Draft
  <2> QED BY <1>1, <2>1, <2>2
<1>4. \/ draft' = draft /\ (draft # None /\ p # None => draft.on # p)
      \/ draft' = None
      \/ draft # None /\ draft.on = p /\ draft' = [draft EXCEPT !.stale = @ \cup changed]
  BY <1>1
<1>5. CASE p \in Profiles
  <2>1. tables \in Tables /\ tables.fleets = db.fleets
        /\ tables.profiles = [db.profiles EXCEPT ![p] = new]
        /\ tables.builds = db.builds /\ tables.released = db.released /\ tables.rollouts = db.rollouts
        /\ tables.devices = db.devices /\ tables.access = db.access
    BY <1>2, <1>5 DEF Tables
  <2>2. \A x \in Profiles : tables.profiles[x] = IF x = p THEN new ELSE db.profiles[x]
    BY <1>2, <2>1 DEF Tables
  <2>3. row = new
    <3>1. \A s \in Parts : s \notin meant => new[s] = saved[p][s]
      <4>1. Agrees(db, p, req[h].original, req[h].stale) /\ db.profiles[p] = saved[p]
        BY <1>5 DEF ProfileIInv, CopiesAgree, RequestAgrees, EditSurvives
      <4> QED BY <1>1, <1>5, <4>1 DEF Agrees
    <3>2. row = [s \in Parts |-> new[s]]
      BY <3>1
    <3> HIDE DEF row, new
    <3> QED BY <1>2, <3>2, ProfileParts
  <2> HIDE DEF tables, row
  <2>4. saved' \in [Profiles -> ProfileData \cup {None}]
        /\ \A x \in Profiles : saved'[x] = IF x = p THEN new ELSE saved[x]
    BY <1>1, <1>2, <1>5, <2>3
  <2>5. \A x \in Profiles : tables.profiles[x] = saved'[x]
    BY <2>2, <2>4 DEF ProfileIInv, EditSurvives
  <2>6. ASSUME NEW x \in Profiles PROVE RequestKept(x, tables, p, changed)
    BY <1>1, <2>2 DEF RequestKept
  <2>7. ForeignKeys(tables)
    <3>1. ForeignKeys(db)
      BY DEF ProfileIInv
    <3>2. \A x \in Profiles : tables.profiles[x] # None => tables.profiles[x].fleets \subseteq tables.fleets
      BY <1>1, <2>1, <2>2, <3>1 DEF ForeignKeys
    <3>3. \A x : x \in Profiles => (db.profiles[x] # None => tables.profiles[x] # None)
      BY <1>2, <2>2
    <3>4. \A b \in Builds : db.builds[b] # None => db.builds[b].profile \in Profiles
      BY <1>2 DEF Tables, BuildData
    <3> HIDE DEF p, new
    <3> QED BY <2>1, <3>1, <3>2, <3>3, <3>4 DEF ForeignKeys
  <2> HIDE DEF p, changed, new
  <2> QED BY <1>1, <1>2, <1>3, <1>4, <2>1, <2>4, <2>5, <2>6, <2>7, TablesWritten
<1>6. CASE p \notin Profiles
  <2>1. tables = db
    BY <1>2, <1>6 DEF Tables
  <2>2. saved' = saved
    BY <1>1, <1>2, <1>6
  <2>3. ASSUME NEW x \in Profiles PROVE db.profiles[x] = saved'[x] /\ RequestKept(x, db, p, changed)
    BY <2>2 DEF RequestKept, ProfileIInv, EditSurvives
  <2>4. ForeignKeys(db)
    BY DEF ProfileIInv
  <2> HIDE DEF p, changed, new, tables
  <2> QED BY <1>1, <1>2, <1>3, <1>4, <2>1, <2>2, <2>3, <2>4, TablesWritten
<1> QED BY <1>5, <1>6

\* Save, of a handler.
LEMMA SaveInv == ASSUME ProfileIInv, NEW h \in Handlers, Save(h) PROVE ProfileIInv'
<1>1. CASE UpdateProfileRow(h, NoRequest) /\ req[h].step = "save"
  <2>1. NoRequest.on = None
    BY DEF NoRequest
  <2> QED BY <1>1, <2>1, UpdateRowInv, NoRequestTyped
<1> QED BY <1>1, FailInv DEF Save, NameIsTaken

\* A new profile has an id that no copy is of.
LEMMA CreateRowInv == ASSUME ProfileIInv, NEW h \in Handlers, CreateProfileRow(h) PROVE ProfileIInv'
<1>1. CASE Fail(h) \/ Refuse(h)
  BY <1>1, FailInv
<1>2. CASE ~Fail(h) /\ ~Refuse(h)
  <2>1. PICK p \in NewProfiles :
          /\ Write(h, NoRequest, [db EXCEPT !.profiles[p] = req[h].copy, !.access = @ \cup {p}], None, {})
          /\ saved' = [saved EXCEPT ![p] = req[h].copy]
    BY <1>2 DEF CreateProfileRow
  <2>2. /\ req[h].copy.fleets \subseteq db.fleets /\ UNCHANGED begun
        /\ draft' = IF req[h].wizard THEN None ELSE draft
    BY <1>2 DEF CreateProfileRow
  <2> DEFINE new == req[h].copy
             tables == [db EXCEPT !.profiles[p] = new, !.access = @ \cup {p}]
  <2>3. /\ p \in Profiles /\ db.profiles[p] = None /\ (draft # None => draft.on # p)
        /\ \A y \in Handlers : req[y].on # p
    BY DEF NewProfiles, Unused, Mentioned
  <2>4. /\ new \in ProfileData /\ new # None /\ db \in Tables /\ saved \in [Profiles -> ProfileData \cup {None}]
        /\ begun \in 0..MaxRequests /\ draft \in Draft \cup {None}
    BY NoneAssumption DEF ProfileIInv, ProfileTyped, RequestData
  <2>5. tables \in Tables /\ tables.fleets = db.fleets
        /\ tables.profiles = [db.profiles EXCEPT ![p] = new]
        /\ tables.builds = db.builds /\ tables.released = db.released /\ tables.rollouts = db.rollouts
        /\ tables.devices = db.devices /\ tables.access = db.access \cup {p}
    <3> HIDE DEF new
    <3> QED BY <2>3, <2>4 DEF Tables
  <2>6. \A x \in Profiles : tables.profiles[x] = IF x = p THEN new ELSE db.profiles[x]
    BY <2>4, <2>5 DEF Tables
  <2> HIDE DEF tables
  <2>7. saved' \in [Profiles -> ProfileData \cup {None}]
        /\ \A x \in Profiles : saved'[x] = IF x = p THEN new ELSE saved[x]
    BY <2>1, <2>3, <2>4
  <2>8. ASSUME NEW x \in Profiles PROVE tables.profiles[x] = saved'[x] /\ RequestKept(x, tables, None, {})
    BY <2>3, <2>6, <2>7 DEF ProfileIInv, EditSurvives, RequestKept
  <2>9. ForeignKeys(tables)
    <3>1. ForeignKeys(db)
      BY DEF ProfileIInv
    <3>2. \A x : x \in Profiles => (db.profiles[x] # None => tables.profiles[x] # None)
      BY <2>4, <2>6
    <3>3. \A x \in Profiles : tables.profiles[x] # None => tables.profiles[x].fleets \subseteq tables.fleets
      BY <2>2, <2>5, <2>6, <3>1 DEF ForeignKeys
    <3>4. \A b \in Builds : db.builds[b] # None => db.builds[b].profile \in Profiles
      BY <2>4 DEF Tables, BuildData
    <3>5. tables.access \subseteq tables.fleets \cup {x \in Profiles : tables.profiles[x] # None}
      BY <2>3, <2>4, <2>5, <2>6, <3>1, <3>2 DEF ForeignKeys
    <3> HIDE DEF new
    <3> QED BY <2>5, <3>1, <3>2, <3>3, <3>4, <3>5 DEF ForeignKeys
  <2>10. NoRequest.on = None
    BY DEF NoRequest
  <2>11. Write(h, NoRequest, tables, None, {})
    BY <2>1 DEF tables
  <2> HIDE DEF new
  <2> QED BY <2>2, <2>4, <2>5, <2>7, <2>8, <2>9, <2>10, <2>11, NoRequestTyped, TablesWritten
<1> QED BY <1>1, <1>2

-----------------------------------------------------------------------------
(* Writes that keep every profile as it is, or delete one.                 *)

\* Nothing is written to a profile.
LEMMA RowsInv ==
  ASSUME ProfileIInv, NEW h, NEW mine \in RequestData, mine.on = None, InStep(mine),
         NEW new \in Tables, ForeignKeys(new),
         Write(h, mine, new, None, {}), begun' \in 0..MaxRequests, UNCHANGED draft,
         \A x \in Profiles : new.profiles[x] \in {db.profiles[x], None},
         \/ saved' = saved /\ new.profiles = db.profiles
         \/ saved' = [x \in Profiles |-> IF new.profiles[x] = None THEN None ELSE saved[x]]
  PROVE  ProfileIInv'
<1>1. saved \in [Profiles -> ProfileData \cup {None}] /\ draft \in Draft \cup {None} /\ EditSurvives
  BY DEF ProfileIInv, ProfileTyped
<1>2. saved' \in [Profiles -> ProfileData \cup {None}]
  BY <1>1
<1>3. ASSUME NEW x \in Profiles PROVE new.profiles[x] = saved'[x] /\ RequestKept(x, new, None, {})
  BY <1>1 DEF EditSurvives, RequestKept
<1> QED BY <1>1, <1>2, <1>3, TablesWritten

\* A request of one statement.
LEMMA SingleInv ==
  ASSUME ProfileIInv, NEW new \in Tables, ForeignKeys(new), new.profiles = db.profiles, Single(new)
  PROVE  ProfileIInv'
<1>1. NoRequest.on = None
  BY DEF NoRequest
<1>2. begun' \in 0..MaxRequests /\ Write(None, NoRequest, new, None, {}) /\ UNCHANGED <<draft, saved>>
  BY MaxRequestsAssumption DEF Single, ProfileIInv, ProfileTyped
<1> QED BY <1>1, <1>2, NoRequestTyped, RowsInv

\* Rows of fleets, releases, rollouts and devices, and access.
LEMMA RowRequestInv ==
  ASSUME ProfileIInv,
         \/ CreateFleet \/ ClaimEnrollment \/ AddFleetUser \/ RemoveFleetUser \/ AddProfileUser \/ RemoveProfileUser
         \/ \E p \in Profiles : CreateProfileRelease(p) \/ CreateProfileRollout(p) \/ DeleteProfileRollout(p)
  PROVE  ProfileIInv'
<1>1. db \in Tables /\ ForeignKeys(db)
  BY DEF ProfileIInv, ProfileTyped
<1>2. \A x : /\ [db EXCEPT !.access = x].profiles = db.profiles
             /\ [db EXCEPT !.devices = x].profiles = db.profiles
             /\ [db EXCEPT !.released = x].profiles = db.profiles
             /\ [db EXCEPT !.rollouts = x].profiles = db.profiles
             /\ \A y : [db EXCEPT !.fleets = x, !.access = y].profiles = db.profiles
  BY <1>1 DEF Tables
<1>3. \A f \in db.fleets \cup ListProfiles :
        /\ [db EXCEPT !.access = @ \cup {f}] \in Tables /\ ForeignKeys([db EXCEPT !.access = @ \cup {f}])
        /\ [db EXCEPT !.access = @ \ {f}] \in Tables /\ ForeignKeys([db EXCEPT !.access = @ \ {f}])
  BY <1>1 DEF Tables, ForeignKeys, ListProfiles
<1>4. CASE CreateFleet
  <2>1. PICK f \in Fleets : Single([db EXCEPT !.fleets = @ \cup {f}, !.access = @ \cup {f}])
    BY <1>4 DEF CreateFleet, NewFleets, Unused
  <2> DEFINE new == [db EXCEPT !.fleets = @ \cup {f}, !.access = @ \cup {f}]
  <2>2. new \in Tables /\ ForeignKeys(new) /\ new.profiles = db.profiles
    BY <1>1 DEF Tables, ForeignKeys
  <2> HIDE DEF new
  <2> QED BY <2>1, <2>2, SingleInv DEF new
<1>5. CASE ClaimEnrollment
  <2>1. PICK f \in Fleets : UserCanManageFleet(f) /\ Single([db EXCEPT !.devices = @ \cup {f}])
    BY <1>5 DEF ClaimEnrollment
  <2> DEFINE new == [db EXCEPT !.devices = @ \cup {f}]
  <2>2. new \in Tables /\ ForeignKeys(new) /\ new.profiles = db.profiles
    BY <1>1, <2>1 DEF Tables, ForeignKeys, UserCanManageFleet
  <2> HIDE DEF new
  <2> QED BY <2>1, <2>2, SingleInv DEF new
<1>6. CASE AddFleetUser \/ RemoveFleetUser \/ AddProfileUser \/ RemoveProfileUser
  <2>1. PICK f \in db.fleets \cup ListProfiles :
          Single([db EXCEPT !.access = @ \cup {f}]) \/ Single([db EXCEPT !.access = @ \ {f}])
    BY <1>6 DEF AddFleetUser, RemoveFleetUser, AddProfileUser, RemoveProfileUser, GrantFleetViewer,
          RevokeFleetViewer,
                GrantProfileViewer, RevokeProfileViewer
  <2>2. [db EXCEPT !.access = @ \cup {f}] = [db EXCEPT !.access = db.access \cup {f}]
        /\ [db EXCEPT !.access = @ \ {f}] = [db EXCEPT !.access = db.access \ {f}]
    OBVIOUS
  <2> DEFINE more == [db EXCEPT !.access = db.access \cup {f}]
             less == [db EXCEPT !.access = db.access \ {f}]
  <2>3. more \in Tables /\ ForeignKeys(more) /\ more.profiles = db.profiles
        /\ less \in Tables /\ ForeignKeys(less) /\ less.profiles = db.profiles
    BY <1>2, <1>3, <2>2
  <2>4. Single(more) \/ Single(less)
    BY <2>1, <2>2
  <2> HIDE DEF more, less
  <2> QED BY <2>3, <2>4, SingleInv
<1>7. CASE \E p \in Profiles : CreateProfileRelease(p) \/ CreateProfileRollout(p) \/ DeleteProfileRollout(p)
  <2> DEFINE Released(b) == [db EXCEPT !.released = @ \cup {b}]
             More(b) == [db EXCEPT !.rollouts = @ \cup {b}]
             Less(b) == [db EXCEPT !.rollouts = @ \ {b}]
  <2>1. PICK b \in Builds : \/ db.builds[b] # None /\ Single(Released(b))
                            \/ b \in db.released /\ Single(More(b))
                            \/ Single(Less(b))
    BY <1>1, <1>7 DEF CreateProfileRelease, CreateProfileRollout, DeleteProfileRollout, ListBuilds,
          CreateRelease,
                      CreateRollout, Tables
  <2>2. /\ Released(b) \in Tables /\ Released(b).profiles = db.profiles
        /\ db.builds[b] # None => ForeignKeys(Released(b))
        /\ More(b) \in Tables /\ More(b).profiles = db.profiles /\ (b \in db.released => ForeignKeys(More(b)))
        /\ Less(b) \in Tables /\ Less(b).profiles = db.profiles /\ ForeignKeys(Less(b))
    BY <1>1 DEF Tables, ForeignKeys
  <2> HIDE DEF Released, More, Less
  <2> QED BY <2>1, <2>2, SingleInv
<1> QED BY <1>4, <1>5, <1>6, <1>7

\* The row of a build refers to the profile that was checked, if it is still there.
LEMMA CreateBuildInv == ASSUME ProfileIInv, NEW h \in Handlers, CreateBuild(h) PROVE ProfileIInv'
<1>1. CASE Fail(h) \/ Refuse(h)
  BY <1>1, FailInv
<1>2. CASE ~Fail(h) /\ ~Refuse(h)
  <2> DEFINE p == req[h].on
             f == req[h].fleet
  <2>1. PICK b \in Builds : Write(h, NoRequest, [db EXCEPT !.builds[b] = [profile |-> p, fleet |-> f]], None, {})
    BY <1>2 DEF CreateBuild, NewBuilds, Unused
  <2>2. db.profiles[p] # None /\ f \in db.fleets /\ UNCHANGED <<draft, saved, begun>>
        /\ req[h].step = "insert"
    BY <1>2 DEF CreateBuild
  <2>3. p \in Profiles /\ db \in Tables /\ ForeignKeys(db) /\ begun \in 0..MaxRequests
    BY <2>2 DEF ProfileIInv, ProfileTyped, InStep
  <2> DEFINE row == [profile |-> p, fleet |-> f]
             new == [db EXCEPT !.builds[b] = row]
  <2>4. row \in BuildData /\ row.profile = p /\ row.fleet = f
    BY <2>2, <2>3 DEF BuildData, Tables
  <2>5. Write(h, NoRequest, new, None, {})
    BY <2>1
  <2> HIDE DEF row, p, f
  <2>6. new \in Tables /\ new.profiles = db.profiles
    BY <2>3, <2>4 DEF Tables
  <2>7. ForeignKeys(new)
    <3>1. \A x \in Builds : new.builds[x] = IF x = b THEN row ELSE db.builds[x]
      BY <2>3 DEF Tables
    <3>2. /\ new.fleets = db.fleets /\ new.released = db.released /\ new.rollouts = db.rollouts
          /\ new.devices = db.devices /\ new.access = db.access
      BY <2>3 DEF Tables
    <3>3. db.profiles[row.profile] # None /\ row.fleet \in db.fleets /\ row # None
      BY <2>2, <2>4, NoneAssumption DEF p, f
    <3> HIDE DEF new
    <3>4. \A x \in Builds : new.builds[x] # None => new.builds[x].fleet \in new.fleets
          /\ new.profiles[new.builds[x].profile] # None
      <4> SUFFICES ASSUME NEW x \in Builds, new.builds[x] # None
                   PROVE  new.builds[x].fleet \in new.fleets /\ new.profiles[new.builds[x].profile] # None
        OBVIOUS
      <4>1. CASE x = b
        BY <2>6, <3>1, <3>2, <3>3, <4>1
      <4>2. CASE x # b
        BY <2>3, <2>6, <3>1, <3>2, <4>2 DEF ForeignKeys
      <4> QED BY <4>1, <4>2
    <3>5. \A x \in new.released : new.builds[x] # None
      BY <2>3, <3>1, <3>2, <3>3 DEF ForeignKeys, Tables
    <3> QED BY <2>3, <2>6, <3>2, <3>4, <3>5 DEF ForeignKeys
  <2>8. NoRequest.on = None
    BY DEF NoRequest
  <2> HIDE DEF new
  <2> QED BY <2>2, <2>3, <2>5, <2>6, <2>7, <2>8, NoRequestTyped, RowsInv
<1> QED BY <1>1, <1>2

-----------------------------------------------------------------------------
(* Deletions.                                                              *)

\* What is left of a deletion is a request.
LEMMA LeftTyped ==
  ASSUME ProfileIInv, NEW h \in Handlers, NEW calls \in Seq(CallData)
  PROVE  Left(h, calls) \in RequestData /\ Left(h, calls).on = None /\ InStep(Left(h, calls))
<1>1. req[h].quiet \in BOOLEAN
  BY DEF ProfileIInv, ProfileTyped, RequestData
<1>2. NoRequest.on = None
  BY DEF NoRequest
<1>3. CASE calls # <<>>
  <2> DEFINE mine == [NoRequest EXCEPT !.step = "cascade", !.calls = calls, !.quiet = req[h].quiet]
  <2>1. mine \in RequestData /\ mine.on = None /\ mine.step = "cascade" /\ mine.calls = calls
    BY <1>1, NoRequestTyped DEF RequestData, NoRequest, Steps
  <2> QED BY <1>3, <2>1 DEF Left, InStep
<1> QED BY <1>2, <1>3, NoRequestTyped DEF Left

\* A deletion goes on with the calls that are left.
LEMMA GoOnInv ==
  ASSUME ProfileIInv, NEW h \in Handlers, NEW calls \in Seq(CallData), GoOn(h, calls)
  PROVE  ProfileIInv'
<1>1. Left(h, calls) \in RequestData /\ InStep(Left(h, calls)) /\ RequestAgrees(Left(h, calls))
  <2>1. Left(h, calls).on \notin Profiles
    BY LeftTyped, NoneAssumption
  <2> QED BY <2>1, LeftTyped DEF RequestAgrees, Agrees
<1>2. UNCHANGED <<db, draft, saved, begun>> /\ req' = [req EXCEPT ![h] = Left(h, calls)]
  BY DEF GoOn
<1>3. begun' \in 0..MaxRequests
  BY <1>2 DEF ProfileIInv, ProfileTyped
<1> QED BY <1>1, <1>2, <1>3, DraftStays, GoesOn

\* A row goes that nothing refers to.
LEMMA RemoveInv ==
  ASSUME ProfileIInv, NEW h \in Handlers, NEW possible, NEW new, NEW rest \in Seq(CallData),
         Remove(h, possible, new, rest),
         possible => /\ new \in Tables /\ ForeignKeys(new)
                     /\ \A x \in Profiles : new.profiles[x] \in {db.profiles[x], None}
  PROVE  ProfileIInv'
<1>1. CASE Fail(h)
  BY <1>1, FailInv
<1>2. CASE ~Fail(h)
  <2>1. /\ possible /\ Write(h, Left(h, rest), new, None, {}) /\ UNCHANGED <<draft, begun>>
        /\ saved' = [p \in Profiles |-> IF new.profiles[p] = None THEN None ELSE saved[p]]
    BY <1>2 DEF Remove
  <2>2. begun' \in 0..MaxRequests
    BY <2>1 DEF ProfileIInv, ProfileTyped
  <2> QED BY <2>1, <2>2, LeftTyped, RowsInv
<1> QED BY <1>1, <1>2

\* The calls of a deletion that goes on.
LEMMA TopTyped ==
  ASSUME ProfileIInv, NEW h \in Handlers, req[h].step = "cascade"
  PROVE  Top(h) \in CallData /\ Rest(h) \in Seq(CallData)
<1>1. req[h].calls \in Seq(CallData) /\ req[h].calls # <<>>
  BY DEF ProfileIInv, ProfileTyped, InStep, RequestData
<1> QED BY <1>1 DEF Top, Rest

LEMMA LoopTyped ==
  ASSUME NEW c \in CallData, NEW rest \in Seq(CallData)
  PROVE  Loop(c, rest) \in Seq(CallData)
<1>1. <<c>> \o rest \in Seq(CallData)
  OBVIOUS
<1> QED BY <1>1 DEF Loop

\* What a list holds.
LEMMA ListThenTyped ==
  ASSUME ProfileIInv, NEW c \in CallData, c.do \in DOMAIN Lists, NEW rest \in Seq(CallData)
  PROVE  ListThen(c, rest) \in Seq(CallData)
<1> DEFINE rows == Listed(c.do, c.of)
           loop == [do |-> Lists[c.do], of |-> c.of, todo |-> rows,
                    alone |-> IF c.do = "profilesIn" THEN {p \in rows : Alone(p)} ELSE {}]
<1>1. db.released \subseteq Builds /\ db.rollouts \subseteq Builds
  BY DEF ProfileIInv, ProfileTyped, Tables
<1>2. rows \subseteq Ids /\ (c.do = "profilesIn" => rows \subseteq Profiles)
  BY <1>1, ListNames DEF Listed, ListRollouts, ListReleases, ListBuilds, ListProfiles, Ids
<1>3. Lists[c.do] \in CallNames /\ (Lists[c.do] = "profiles" => c.do = "profilesIn")
  BY ListNames DEF CallNames, Lists
<1> HIDE DEF rows
<1>4. loop \in CallData
  BY <1>2, <1>3 DEF CallData, IsCall, CallNames
<1> HIDE DEF loop
<1> QED BY <1>4, LoopTyped DEF ListThen, loop, rows

LEMMA OthersTyped ==
  ASSUME ProfileIInv, NEW h \in Handlers, req[h].step = "cascade", NEW x
  PROVE  Others(h, x) \in Seq(CallData)
<1>1. [Top(h) EXCEPT !.todo = @ \ {x}, !.alone = @ \ {x}] \in CallData
  BY TopTyped DEF CallData, IsCall, CallNames
<1> QED BY <1>1, TopTyped, LoopTyped DEF Others

\* A list is read, and a release or a build on one is gone through.
LEMMA ListInv ==
  ASSUME ProfileIInv, NEW h \in Handlers, List(h) \/ EachRelease(h) \/ EachBuild(h)
  PROVE  ProfileIInv'
<1>1. req[h].step = "cascade"
  BY DEF List, EachRelease, EachBuild, At
<1>2. Top(h) \in CallData /\ Rest(h) \in Seq(CallData) /\ Top(h).todo \subseteq Ids
  BY <1>1, TopTyped DEF CallData
<1>3. CASE List(h)
  <2>1. ListThen(Top(h), Rest(h)) \in Seq(CallData)
    BY <1>2, <1>3, ListThenTyped DEF List
  <2> QED BY <1>3, <2>1, GoOnInv DEF List
<1>4. ASSUME NEW b \in Ids PROVE
      /\ ListThen(Call("rolloutsOf", b), <<Call("release", b)>> \o Others(h, b)) \in Seq(CallData)
      /\ ListThen(Call("releasesOf", b), <<Call("build", b)>> \o Others(h, b)) \in Seq(CallData)
  <2>1. /\ Call("rolloutsOf", b) \in CallData /\ Call("releasesOf", b) \in CallData
        /\ Call("release", b) \in CallData /\ Call("build", b) \in CallData
    BY CallTyped
  <2>2. Others(h, b) \in Seq(CallData)
    BY <1>1, OthersTyped
  <2>3. <<Call("release", b)>> \o Others(h, b) \in Seq(CallData)
        /\ <<Call("build", b)>> \o Others(h, b) \in Seq(CallData)
    BY <2>1, <2>2
  <2>4. Call("rolloutsOf", b).do \in DOMAIN Lists /\ Call("releasesOf", b).do \in DOMAIN Lists
    BY ListNames DEF Call
  <2> QED BY <2>1, <2>3, <2>4, ListThenTyped
<1>5. CASE EachRelease(h)
  BY <1>2, <1>4, <1>5, GoOnInv DEF EachRelease
<1>6. CASE EachBuild(h)
  BY <1>2, <1>4, <1>6, GoOnInv DEF EachBuild
<1> QED BY <1>3, <1>5, <1>6

\* A profile on the list of a fleet goes with it, or has just been read and loses it.
LEMMA EachProfileInv == ASSUME ProfileIInv, NEW h \in Handlers, EachProfile(h) PROVE ProfileIInv'
<1> DEFINE f == Top(h).of
           Remaining(p) == removeString(GetProfileForEdit(p).fleets, f)
           DeleteIt(p) == GoOn(h, ListThen(Call("buildsOf", p), <<Call("profile", p)>> \o Others(h, p)))
           Saved(p) == [Left(h, <<Call("save", f)>> \o Others(h, p)) EXCEPT
                          !.on = p, !.original = GetProfileForEdit(p),
                          !.copy = [GetProfileForEdit(p) EXCEPT !.fleets = removeString(@, f)]]
<1>1. req[h].step = "cascade" /\ Top(h).do = "profiles"
  BY DEF EachProfile, At
<1>2. Top(h) \in CallData /\ f \in Ids /\ Top(h).todo \subseteq Profiles
  BY <1>1, TopTyped DEF CallData
<1>3. PICK p \in Profiles :
        \/ DeleteIt(p) \/ Fail(h) \/ GoOn(h, deleteProfileCascade(p) \o Others(h, p))
        \/ /\ db.profiles[p] # None /\ req' = [req EXCEPT ![h] = Saved(p)]
           /\ UNCHANGED <<db, draft, saved, begun>>
  BY <1>2 DEF EachProfile
<1>4. Others(h, p) \in Seq(CallData) /\ p \in Ids
  BY <1>1, OthersTyped DEF Ids
<1>5. CASE Fail(h)
  BY <1>5, FailInv
<1>6. CASE DeleteIt(p)
  <2>1. Call("buildsOf", p) \in CallData /\ Call("profile", p) \in CallData
    BY <1>4, CallTyped
  <2>2. <<Call("profile", p)>> \o Others(h, p) \in Seq(CallData)
    BY <1>4, <2>1
  <2>3. Call("buildsOf", p).do \in DOMAIN Lists
    BY ListNames DEF Call
  <2> QED BY <1>6, <2>1, <2>2, <2>3, ListThenTyped, GoOnInv
<1>7. CASE GoOn(h, deleteProfileCascade(p) \o Others(h, p))
  <2>1. deleteProfileCascade(p) \o Others(h, p) \in Seq(CallData)
    <3>1. deleteProfileCascade(p) \in Seq(CallData)
      BY CallTyped
    <3> QED BY <1>4, <3>1
  <2> QED BY <1>7, <2>1, GoOnInv
<1>8. CASE db.profiles[p] # None /\ req' = [req EXCEPT ![h] = Saved(p)]
      /\ UNCHANGED <<db, draft, saved, begun>>
  <2> DEFINE calls == <<Call("save", f)>> \o Others(h, p)
             old == GetProfileForEdit(p)
             mine == Saved(p)
  <2>1. calls \in Seq(CallData) /\ calls # <<>>
    <3>1. Call("save", f) \in CallData
      BY <1>2, CallTyped
    <3> QED BY <1>4, <3>1
  <2>2. Left(h, calls) \in RequestData /\ InStep(Left(h, calls))
        /\ Left(h, calls).step = "cascade" /\ Left(h, calls).stale = {}
    <3>1. Left(h, calls) \in RequestData /\ InStep(Left(h, calls))
      BY <2>1, LeftTyped
    <3> HIDE DEF calls
    <3>2. Left(h, calls).step = "cascade" /\ Left(h, calls).stale = {}
      BY <2>1 DEF Left, NoRequest
    <3> QED BY <3>1, <3>2
  <2>3. old \in ProfileData
    BY <1>8, ProfileRead DEF ProfileIInv
  <2>4. mine = [Left(h, calls) EXCEPT !.on = p, !.original = old,
                                      !.copy = [old EXCEPT !.fleets = removeString(old.fleets, f)]]
    OBVIOUS
  <2>5. [old EXCEPT !.fleets = removeString(old.fleets, f)] \in ProfileData
    BY <2>3, PartReplaced DEF removeString
  <2> HIDE DEF calls, mine
  <2>6. mine \in RequestData /\ InStep(mine) /\ mine.step = "cascade" /\ mine.on = p
        /\ mine.original = old
    BY <2>2, <2>3, <2>4, <2>5 DEF RequestData, InStep
  <2>7. RequestAgrees(mine)
    BY <2>6 DEF RequestAgrees, Agrees, GetProfileForEdit
  <2>8. begun' \in 0..MaxRequests
    BY <1>8 DEF ProfileIInv, ProfileTyped
  <2> QED BY <1>8, <2>6, <2>7, <2>8, DraftStays, GoesOn DEF mine
<1> QED BY <1>3, <1>5, <1>6, <1>7, <1>8

\* The profile without the fleet is saved.
LEMMA SaveWithoutFleetInv ==
  ASSUME ProfileIInv, NEW h \in Handlers, SaveWithoutFleet(h)
  PROVE  ProfileIInv'
<1>1. req[h].step = "cascade"
  BY DEF SaveWithoutFleet, At
<1>2. Left(h, Rest(h)) \in RequestData /\ Left(h, Rest(h)).on = None /\ InStep(Left(h, Rest(h)))
  BY <1>1, TopTyped, LeftTyped
<1> QED BY <1>1, <1>2, UpdateRowInv, FailInv DEF SaveWithoutFleet, NameIsTaken

\* Rollouts, releases, builds and devices go.
LEMMA DeleteRowInv ==
  ASSUME ProfileIInv, NEW h \in Handlers,
         DeleteRollout(h) \/ DeleteReleaseRow(h) \/ DeleteBuildRow(h) \/ DeleteDevicesByFleet(h)
  PROVE  ProfileIInv'
<1>1. req[h].step = "cascade"
  BY DEF DeleteRollout, DeleteReleaseRow, DeleteBuildRow, DeleteDevicesByFleet, At
<1>2. Rest(h) \in Seq(CallData) /\ db \in Tables /\ ForeignKeys(db)
  BY <1>1, TopTyped DEF ProfileIInv, ProfileTyped
<1> DEFINE x == Top(h).of
           Rollouts(b) == [db EXCEPT !.rollouts = @ \ {b}]
           released == [db EXCEPT !.released = @ \ {x}]
           builds == [db EXCEPT !.builds[x] = None]
           devices == [db EXCEPT !.devices = @ \ {x}]
<1>3. CASE DeleteRollout(h)
  <2>1. PICK b : Remove(h, b \in db.rollouts, Rollouts(b), Others(h, b))
    BY <1>3 DEF DeleteRollout
  <2>2. Rollouts(b) \in Tables /\ ForeignKeys(Rollouts(b))
        /\ \A p \in Profiles : Rollouts(b).profiles[p] \in {db.profiles[p], None}
    BY <1>2 DEF Tables, ForeignKeys
  <2>3. Others(h, b) \in Seq(CallData)
    BY <1>1, OthersTyped
  <2> HIDE DEF Rollouts
  <2> QED BY <2>1, <2>2, <2>3, RemoveInv
<1>4. CASE DeleteReleaseRow(h)
  <2>1. Remove(h, x \in db.released /\ x \notin db.rollouts, released, Rest(h))
    BY <1>4 DEF DeleteReleaseRow
  <2> HIDE DEF x
  <2>2. x \notin db.rollouts => released \in Tables /\ ForeignKeys(released)
                                /\ \A p \in Profiles : released.profiles[p] \in {db.profiles[p], None}
    BY <1>2 DEF Tables, ForeignKeys
  <2> HIDE DEF released
  <2> QED BY <1>2, <2>1, <2>2, RemoveInv
<1>5. CASE DeleteBuildRow(h)
  <2>1. Remove(h, db.builds[x] # None /\ x \notin db.released, builds, Rest(h))
    BY <1>5 DEF DeleteBuildRow
  <2> HIDE DEF x
  <2>2. x \notin db.released => builds \in Tables /\ ForeignKeys(builds)
                                /\ \A p \in Profiles : builds.profiles[p] \in {db.profiles[p], None}
    BY <1>2 DEF Tables, ForeignKeys
  <2> HIDE DEF builds
  <2> QED BY <1>2, <2>1, <2>2, RemoveInv
<1>6. CASE DeleteDevicesByFleet(h)
  <2>1. Remove(h, TRUE, devices, Rest(h))
    BY <1>6 DEF DeleteDevicesByFleet
  <2> HIDE DEF x
  <2>2. devices \in Tables /\ ForeignKeys(devices)
        /\ \A p \in Profiles : devices.profiles[p] \in {db.profiles[p], None}
    BY <1>2 DEF Tables, ForeignKeys
  <2> HIDE DEF devices
  <2> QED BY <1>2, <2>1, <2>2, RemoveInv
<1> QED BY <1>3, <1>4, <1>5, <1>6

\* A profile that has no builds goes, and a fleet that nothing is in.
LEMMA DeleteOwnerInv ==
  ASSUME ProfileIInv, NEW h \in Handlers, DeleteProfileRow(h) \/ DeleteFleetRow(h)
  PROVE  ProfileIInv'
<1>1. req[h].step = "cascade"
  BY DEF DeleteProfileRow, DeleteFleetRow, At
<1>2. Rest(h) \in Seq(CallData) /\ db \in Tables /\ ForeignKeys(db)
  BY <1>1, TopTyped DEF ProfileIInv, ProfileTyped
<1> DEFINE x == Top(h).of
           profiles == [db EXCEPT !.profiles[x] = None, !.access = @ \ {x}]
           fleets == [db EXCEPT !.fleets = @ \ {x}, !.access = @ \ {x}]
<1>3. CASE DeleteProfileRow(h)
  <2>1. Remove(h, db.profiles[x] # None /\ Listed("buildsOf", x) = {}, profiles, Rest(h))
    BY <1>3 DEF DeleteProfileRow
  <2> HIDE DEF x
  <2>2. ASSUME Listed("buildsOf", x) = {}
        PROVE  /\ profiles \in Tables /\ ForeignKeys(profiles)
               /\ \A p \in Profiles : profiles.profiles[p] \in {db.profiles[p], None}
    <3>1. \A b \in Builds : db.builds[b] # None => db.builds[b].profile # x
      BY <2>2 DEF Listed, ListBuilds
    <3>2. profiles \in Tables
          /\ \A p \in Profiles : profiles.profiles[p] = IF p = x THEN None ELSE db.profiles[p]
      BY <1>2 DEF Tables
    <3>3. /\ profiles.fleets = db.fleets /\ profiles.builds = db.builds /\ profiles.released = db.released
          /\ profiles.rollouts = db.rollouts /\ profiles.devices = db.devices /\ profiles.access = db.access \ {x}
      BY <1>2 DEF Tables
    <3>4. \A b \in Builds : db.builds[b] # None => db.builds[b].profile \in Profiles
      BY <1>2 DEF Tables, BuildData
    <3> HIDE DEF profiles
    <3> QED BY <1>2, <3>1, <3>2, <3>3, <3>4 DEF ForeignKeys
  <2> HIDE DEF profiles
  <2> QED BY <1>2, <2>1, <2>2, RemoveInv
<1>4. CASE DeleteFleetRow(h)
  <2>1. Remove(h, x \in db.fleets \ db.devices /\ Listed("profilesIn", x) = {}
        /\ Listed("buildsIn", x) = {}, fleets, Rest(h))
    BY <1>4 DEF DeleteFleetRow
  <2> HIDE DEF x
  <2>2. ASSUME x \notin db.devices, Listed("profilesIn", x) = {}, Listed("buildsIn", x) = {}
        PROVE  /\ fleets \in Tables /\ ForeignKeys(fleets)
               /\ \A p \in Profiles : fleets.profiles[p] \in {db.profiles[p], None}
    <3>1. /\ \A b \in Builds : db.builds[b] # None => db.builds[b].fleet # x
          /\ \A p \in Profiles : db.profiles[p] # None => x \notin db.profiles[p].fleets
      BY <2>2 DEF Listed, ListBuilds, ListProfiles, getProfileFleetAssignments
    <3>2. fleets \in Tables
      BY <1>2 DEF Tables
    <3>3. /\ fleets.fleets = db.fleets \ {x} /\ fleets.builds = db.builds /\ fleets.released = db.released
          /\ fleets.rollouts = db.rollouts /\ fleets.devices = db.devices /\ fleets.access = db.access \ {x}
          /\ fleets.profiles = db.profiles
      BY <1>2 DEF Tables
    <3> HIDE DEF fleets
    <3> QED BY <1>2, <2>2, <3>1, <3>2, <3>3 DEF ForeignKeys
  <2> HIDE DEF fleets
  <2> QED BY <1>2, <2>1, <2>2, RemoveInv
<1> QED BY <1>3, <1>4

-----------------------------------------------------------------------------
(* The theorems about Profiles.                                            *)

\* The database that others have filled is in order.
LEMMA ProfileInitInv == ProfileInit => ProfileIInv
<1> SUFFICES ASSUME ProfileInit PROVE ProfileIInv
  OBVIOUS
<1>1. PICK assigned \in [Profiles -> SUBSET Fleets], built \in [Builds -> (Profiles \X Fleets) \cup {None}],
           R \in SUBSET Builds, O \in SUBSET Builds, D \in SUBSET Fleets :
        /\ \A b \in Builds : built[b] # None => assigned[built[b][1]] # {}
        /\ R \subseteq {b \in Builds : built[b] # None} /\ O \subseteq R
        /\ db = [fleets |-> Fleets,
                 profiles |-> [p \in Profiles |-> IF assigned[p] = {} THEN None
                                                  ELSE [Blank EXCEPT !.fleets = assigned[p], !.imports = 1]],
                 builds |-> [b \in Builds |-> IF built[b] = None THEN None
                                              ELSE [profile |-> built[b][1], fleet |-> built[b][2]]],
                 released |-> R, rollouts |-> O, devices |-> D,
                 access |-> Fleets \cup {p \in Profiles : assigned[p] # {}}]
  BY DEF ProfileInit
<1>2. saved = db.profiles /\ draft = None /\ begun = 0 /\ req = [h \in Handlers |-> NoRequest]
  BY DEF ProfileInit
<1>3. \A F \in SUBSET Fleets : /\ [Blank EXCEPT !.fleets = F, !.imports = 1] \in ProfileData
                               /\ [Blank EXCEPT !.fleets = F, !.imports = 1].fleets = F
  <2> SUFFICES ASSUME NEW F \in SUBSET Fleets
               PROVE  /\ [Blank EXCEPT !.fleets = F, !.imports = 1] \in ProfileData
                      /\ [Blank EXCEPT !.fleets = F, !.imports = 1].fleets = F
    OBVIOUS
  <2> DEFINE new == [Blank EXCEPT !.fleets = F]
  <2>1. new \in ProfileData /\ new.fleets = F
    BY NoRequestTyped, PartReplaced DEF ProfileData
  <2>2. [new EXCEPT !.imports = 1] \in ProfileData /\ [new EXCEPT !.imports = 1].fleets = F
    <3> HIDE DEF new
    <3> QED BY <2>1 DEF ProfileData, Contents
  <2> QED BY <2>2
<1>4. \A b \in Builds : built[b] # None =>
        [profile |-> built[b][1], fleet |-> built[b][2]] \in BuildData /\ built[b][1] \in Profiles
  BY <1>1 DEF BuildData
<1>5. db \in Tables
  <2>1. db.profiles \in [Profiles -> ProfileData \cup {None}]
        /\ db.builds \in [Builds -> BuildData \cup {None}]
    BY <1>1, <1>3, <1>4
  <2> QED BY <1>1, <2>1 DEF Tables
<1>6. ForeignKeys(db)
  <2>1. /\ db.fleets = Fleets /\ db.released = R /\ db.rollouts = O /\ db.devices = D
        /\ db.access = Fleets \cup {p \in Profiles : assigned[p] # {}}
    BY <1>1
  <2>2. \A p \in Profiles : db.profiles[p] = IF assigned[p] = {} THEN None
                                            ELSE [Blank EXCEPT !.fleets = assigned[p], !.imports = 1]
    BY <1>1
  <2>3. \A b \in Builds : db.builds[b] = IF built[b] = None THEN None
                                        ELSE [profile |-> built[b][1], fleet |-> built[b][2]]
    BY <1>1
  <2>4. ASSUME NEW p \in Profiles
        PROVE  /\ assigned[p] # {} <=> db.profiles[p] # None
               /\ db.profiles[p] # None => db.profiles[p].fleets \subseteq Fleets
    <3> DEFINE row == [Blank EXCEPT !.fleets = assigned[p], !.imports = 1]
    <3>1. row \in ProfileData /\ row.fleets = assigned[p] /\ assigned[p] \subseteq Fleets
      BY <1>3
    <3>2. db.profiles[p] = IF assigned[p] = {} THEN None ELSE row
      BY <2>2
    <3> HIDE DEF row
    <3> QED BY <3>1, <3>2, NoneAssumption
  <2>5. ASSUME NEW b \in Builds, db.builds[b] # None
        PROVE  db.builds[b].fleet \in Fleets /\ db.profiles[db.builds[b].profile] # None
    <3>1. built[b] # None /\ db.builds[b] = [profile |-> built[b][1], fleet |-> built[b][2]]
      BY <2>3, <2>5
    <3>2. built[b][1] \in Profiles /\ built[b][2] \in Fleets /\ assigned[built[b][1]] # {}
      BY <1>1, <3>1
    <3> QED BY <2>4, <3>1, <3>2
  <2>6. ASSUME NEW b \in R PROVE db.builds[b] # None
    <3> DEFINE row == [profile |-> built[b][1], fleet |-> built[b][2]]
    <3>1. built[b] # None
      BY <1>1
    <3>2. row \in BuildData /\ db.builds[b] = row
      BY <1>4, <2>3, <3>1
    <3> HIDE DEF row
    <3> QED BY <3>2, NoneAssumption
  <2> QED BY <1>1, <2>1, <2>4, <2>5, <2>6 DEF ForeignKeys
<1>7. ProfileTyped
  BY <1>2, <1>5, NoRequestTyped, MaxRequestsAssumption DEF ProfileTyped, Tables
<1> QED BY <1>2, <1>6, <1>7, NoRequestTyped DEF ProfileIInv, CopiesAgree, DraftAgrees, EditSurvives

LEMMA ProfileStepInv == ProfileIInv /\ [ProfileNext]_profileVars => ProfileIInv'
<1> SUFFICES ASSUME ProfileIInv, [ProfileNext]_profileVars PROVE ProfileIInv'
  OBVIOUS
<1>1. CASE UNCHANGED profileVars
  BY <1>1 DEF profileVars, ProfileIInv, ProfileTyped, InStep, ForeignKeys, CopiesAgree, DraftAgrees,
        RequestAgrees, Agrees,
              EditSurvives
<1>2. ASSUME NEW h \in Handlers, Saving(h) PROVE ProfileIInv'
  BY <1>2, SaveInv, CreateRowInv, PreserveImportsInv, ResolveDraftInv, CreateBuildInv DEF Saving
<1>3. ASSUME NEW h \in Handlers, Deleting(h) PROVE ProfileIInv'
  BY <1>3, ListInv, EachProfileInv, SaveWithoutFleetInv, DeleteRowInv, DeleteOwnerInv DEF Deleting
<1>4. ASSUME NEW h \in Handlers, NEW p \in Profiles,
             \/ AddProfilePackage(h, p) \/ RemoveProfilePackage(h, p) \/ UpdateProfileKernel(h, p)
             \/ UpdateProfileSecurity(h, p) \/ UpdateProfileOpenClaw(h, p) \/ UpdateProfileRawNix(h, p)
             \/ UpdateProfileForeignImports(h, p) \/ UpdateProfile(h, p)
             \/ APIReplaceProfile(h, p) \/ APIPatchProfile(h, p)
             \/ \E f \in Fleets : CreateProfileBuild(h, p, f)
      PROVE  ProfileIInv'
  BY <1>4, FormInv, APIInv, CreateInv
<1>5. ASSUME NEW h \in Handlers,
             \/ CreateProfile(h)
             \/ \E p \in Profiles \cup {None} : ProfileWizardChat(h, p) \/ ProfileWizardApply(h, p)
             \/ DeleteFleet(h) \/ DeleteProfile(h) \/ DeleteProfileBuild(h) \/ DeleteProfileRelease(h)
             \/ Saving(h) \/ Deleting(h) \/ Answer(h)
      PROVE  ProfileIInv'
  BY <1>2, <1>3, <1>5, CreateInv, WizardRequestInv, DeleteInv, FailInv
<1> QED BY <1>1, <1>4, <1>5, WizardPageInv, RowRequestInv DEF ProfileNext

\* The invariant holds in every reachable state.
LEMMA ProfileInvariance == ProfileSpec => []ProfileIInv
<1> QED BY ProfileInitInv, ProfileStepInv, PTL DEF ProfileSpec

\* Every reachable state is of the declared types, and every foreign key of the tables
\* holds: deletions that go through them a statement at a time, beside requests that
\* insert, leave no row that refers to one that is gone.
THEOREM ProfilesTyped == ProfileSpec => []ProfileTypeOK
<1>1. ProfileIInv => ProfileTypeOK
  <2> SUFFICES ASSUME ProfileIInv PROVE ProfileTypeOK
    OBVIOUS
  <2>1. db \in Tables /\ ForeignKeys(db) /\ draft \in Draft \cup {None} /\ begun \in 0..MaxRequests
    BY DEF ProfileIInv, ProfileTyped
  <2>2. ASSUME NEW h \in Handlers
        PROVE  /\ req[h].step \in Steps /\ req[h].on \in Profiles \cup {None} /\ req[h].copy \in ProfileData
               /\ req[h].original \in ProfileData /\ req[h].stale \subseteq Parts
               /\ \A i \in DOMAIN req[h].calls : IsCall(req[h].calls[i])
    <3>1. req[h] \in RequestData
      BY DEF ProfileIInv, ProfileTyped
    <3>2. req[h].calls \in Seq(CallData)
      BY <3>1 DEF RequestData
    <3>3. ASSUME NEW i \in DOMAIN req[h].calls PROVE IsCall(req[h].calls[i])
      <4>1. req[h].calls[i] \in CallData
        BY <3>2
      <4> QED BY <4>1 DEF CallData
    <3> QED BY <3>1, <3>3 DEF RequestData
  <2>3. \A p \in Profiles : db.profiles[p] # None => db.profiles[p] \in ProfileData
    BY <2>1 DEF Tables
  <2> QED BY <2>1, <2>2, <2>3 DEF ProfileTypeOK, ForeignKeys, Tables
<1> QED BY <1>1, ProfileInvariance, PTL

\* However handlers that read a whole profile and write it back overlap: a save changes
\* no part of a profile but those it is about and those that others have saved since
\* its copy was read. What these others meant may be lost, the last save wins; every
\* other part stays what it was meant to be.
THEOREM EditsSurvive == ProfileSpec => []EditSurvives
<1>1. ProfileIInv => EditSurvives
  BY DEF ProfileIInv
<1> QED BY <1>1, ProfileInvariance, PTL

-----------------------------------------------------------------------------
(* A deletion that nobody disturbs goes through.                           *)

\* The tables in the order in which a deletion empties them.
Rank(do) ==
  CASE do \in {"rolloutsIn", "rolloutsOf", "rollouts"} -> 1
    [] do \in {"releasesOf", "releases", "release"} -> 2
    [] do \in {"buildsIn", "buildsOf", "builds", "build"} -> 3
    [] do \in {"profilesIn", "profiles", "profile", "save"} -> 4
    [] do = "devices" -> 5
    [] do = "fleet" -> 6

\* What a list would hold in the tables d.
ListedIn(d, do, x) ==
  CASE do = "rolloutsIn" -> {b \in d.rollouts : d.builds[b].fleet = x}
    [] do = "rolloutsOf" -> {b \in d.rollouts : b = x}
    [] do = "releasesOf" -> {b \in d.released : b = x}
    [] do = "buildsIn" -> {b \in Builds : d.builds[b] # None /\ d.builds[b].fleet = x}
    [] do = "buildsOf" -> {b \in Builds : d.builds[b] # None /\ d.builds[b].profile = x}
    [] do = "profilesIn" -> {p \in Profiles : d.profiles[p] # None /\ x \in d.profiles[p].fleets}

\* Rows, by their table and id. The devices of a fleet go in one statement, which
\* is fine with none.
Present(d) ==
  ({1} \X d.rollouts) \cup ({2} \X d.released) \cup ({3} \X {b \in Builds : d.builds[b] # None})
    \cup ({4} \X {p \in Profiles : d.profiles[p] # None}) \cup ({5} \X Fleets) \cup ({6} \X d.fleets)

\* The rows that a call, and those it leads to, will have dealt with: what its list
\* holds by then, or held, or the one it is about. A save is of profile on.
RowsOf(d, on, c) ==
  {Rank(c.do)} \X (IF c.do \in DOMAIN Lists THEN ListedIn(d, c.do, c.of)
                   ELSE IF c.do \in {"rollouts", "releases", "builds", "profiles"} THEN c.todo
                   ELSE IF c.do = "save" THEN {on} ELSE {c.of})

\* The rows that refer to what the call deletes.
RefersTo(d, c) ==
  CASE c.do = "release" -> {1} \X ListedIn(d, "rolloutsOf", c.of)
    [] c.do = "build" -> {2} \X ListedIn(d, "releasesOf", c.of)
    [] c.do = "profile" -> {3} \X ListedIn(d, "buildsOf", c.of)
    [] c.do = "fleet" -> ({3} \X ListedIn(d, "buildsIn", c.of)) \cup ({4} \X ListedIn(d, "profilesIn", c.of))
                           \cup ({5} \X (d.devices \cap {c.of}))
    [] OTHER -> {}

\* Calls that take a profile out of a fleet, which is the one the deletion is about.
OutOf == {"profilesIn", "profiles", "save"}

\* Call c before call e: the tables come in order, those to be listed before any row
\* of them is dealt with; no row is dealt with twice; profiles leave the fleet that goes.
Before(d, on, c, e) ==
  /\ Rank(c.do) <= Rank(e.do) /\ (c.do \in DOMAIN Lists => Rank(c.do) < Rank(e.do))
  /\ RowsOf(d, on, c) \cap RowsOf(d, on, e) = {}
  /\ c.do \in OutOf /\ e.do = "fleet" => c.of = e.of

\* The calls a deletion has left can be made in the tables d: the rows they are
\* about are there, and those that refer to them are dealt with, or owed.
Passable(d, on, owed, calls) ==
  /\ \A i \in DOMAIN calls :
       /\ RowsOf(d, on, calls[i]) \subseteq Present(d)
       /\ \A j \in DOMAIN calls : i < j => Before(d, on, calls[i], calls[j])
  /\ \A j \in DOMAIN calls : \A r \in RefersTo(d, calls[j]) :
       r \in owed \/ \E i \in DOMAIN calls : r \in RowsOf(d, on, calls[i])

\* A save comes first. It takes the profile out of the fleet, and does no more to its
\* fleets or its name.
NoSave(calls) == \A i \in DOMAIN calls : calls[i].do # "save"
SaveIsFirst(d, q) ==
  /\ NoSave(Tail(q.calls))
  /\ q.calls[1].do = "save" => /\ q.on \in Profiles
                               /\ q.copy.fleets \subseteq d.profiles[q.on].fleets \ {q.calls[1].of}
                               /\ q.copy.name = d.profiles[q.on].name

\* A request that brings no name keeps the one that its profile has.
KeepsName(d, q) == BringsName(q) \/ d.profiles[q.on].name = q.copy.name

\* What a request that nobody has disturbed relies on is so in the tables d.
Undisturbed(d, q) ==
  q.quiet =>
    /\ q.step # "failed"
    /\ q.step \in {"save", "imports"} => /\ q.copy.fleets \subseteq d.fleets
                                         /\ q.on \in Profiles => d.profiles[q.on] # None /\ KeepsName(d, q)
    /\ q.step = "insert" => /\ d.profiles[q.on] # None
                            /\ q.fleet \in d.fleets \cap d.profiles[q.on].fleets
    /\ q.step = "cascade" => Passable(d, q.on, {}, q.calls) /\ SaveIsFirst(d, q)

AllUndisturbed == \A h \in Handlers : Undisturbed(db, req[h])

-----------------------------------------------------------------------------
(* Calls and stacks of calls.                                              *)

\* The tables have an order.
LEMMA RankRange == \A do \in CallNames : Rank(do) \in 1 .. 6
BY ListNames DEF CallNames, Rank, Rows

\* A list and the loop over what it holds are of the same table.
LEMMA ListRanks ==
  ASSUME NEW do \in DOMAIN Lists
  PROVE  /\ Rank(Lists[do]) = Rank(do) /\ Lists[do] \in {"rollouts", "releases", "builds", "profiles"}
         /\ Lists[do] \notin DOMAIN Lists /\ (do \in OutOf <=> Lists[do] \in OutOf)
         /\ do \in {"rolloutsIn", "rolloutsOf", "releasesOf", "buildsIn", "buildsOf", "profilesIn"}
<1>1. do \in {"rolloutsIn", "rolloutsOf", "releasesOf", "buildsIn", "buildsOf", "profilesIn"}
  BY ListNames
<1>2. /\ Lists["rolloutsIn"] = "rollouts" /\ Lists["rolloutsOf"] = "rollouts" /\ Lists["releasesOf"] = "releases"
      /\ Lists["buildsIn"] = "builds" /\ Lists["buildsOf"] = "builds" /\ Lists["profilesIn"] = "profiles"
  BY DEF Lists
<1> QED BY <1>1, <1>2, ListNames DEF Rank, OutOf

\* What a list returns is what it would hold in the tables as they are.
LEMMA ListedNow == \A do \in DOMAIN Lists : \A x : Listed(do, x) = ListedIn(db, do, x)
BY ListNames DEF Listed, ListedIn, ListRollouts, ListReleases, ListBuilds, ListProfiles, getProfileFleetAssignments

\* What a call is about is in the table of its rank.
LEMMA RowsRank ==
  ASSUME NEW d, NEW on, NEW c, NEW r \in RowsOf(d, on, c)
  PROVE  r[1] = Rank(c.do) /\ r = <<r[1], r[2]>>
BY DEF RowsOf

\* What refers to the rows of a call is of a table before.
LEMMA RefersBelow ==
  ASSUME NEW d, NEW c, NEW r \in RefersTo(d, c)
  PROVE  r[1] < Rank(c.do)
BY DEF RefersTo, Rank

\* The rows of a call other than a save do not depend on the profile being saved.
LEMMA OnlySavesNameOn ==
  ASSUME NEW d, NEW on, NEW other, NEW c, c.do # "save"
  PROVE  RowsOf(d, on, c) = RowsOf(d, other, c)
BY DEF RowsOf

\* Of stacks of calls.
LEMMA Push ==
  ASSUME NEW d, NEW on, NEW owed, NEW c, NEW s, NEW CS, s \in Seq(CS), c \in CS,
         Passable(d, on, owed \cup RowsOf(d, on, c), s),
         RowsOf(d, on, c) \subseteq Present(d),
         \A i \in DOMAIN s : Before(d, on, c, s[i]),
         RefersTo(d, c) \subseteq owed
  PROVE  Passable(d, on, owed, <<c>> \o s)
<1> DEFINE t == <<c>> \o s
<1>1. /\ t \in Seq(CS) /\ Len(t) = Len(s) + 1 /\ t[1] = c /\ Len(s) \in Nat
      /\ DOMAIN t = 1 .. Len(s) + 1 /\ DOMAIN s = 1 .. Len(s)
      /\ \A i \in DOMAIN s : t[i + 1] = s[i]
  OBVIOUS
<1> HIDE DEF t
<1>2. \A i \in DOMAIN t : i = 1 \/ (i - 1 \in DOMAIN s /\ t[i] = s[i - 1])
  <2> SUFFICES ASSUME NEW i \in DOMAIN t, i # 1 PROVE i - 1 \in DOMAIN s /\ t[i] = s[i - 1] OBVIOUS
  <2>1. i - 1 \in DOMAIN s /\ (i - 1) + 1 = i BY <1>1
  <2> QED BY <1>1, <2>1
<1>3. ASSUME NEW i \in DOMAIN t PROVE RowsOf(d, on, t[i]) \subseteq Present(d)
  <2>1. CASE i = 1 BY <1>1, <2>1
  <2>2. CASE i # 1 BY <1>2, <2>2 DEF Passable
  <2> QED BY <2>1, <2>2
<1>4. ASSUME NEW i \in DOMAIN t, NEW j \in DOMAIN t, i < j PROVE Before(d, on, t[i], t[j])
  <2>1. j # 1 /\ j - 1 \in DOMAIN s /\ t[j] = s[j - 1] BY <1>1, <1>2, <1>4
  <2>2. CASE i = 1 BY <1>1, <2>1, <2>2
  <2>3. CASE i # 1
    <3>1. i - 1 \in DOMAIN s /\ t[i] = s[i - 1] /\ i - 1 < j - 1 BY <1>1, <1>2, <1>4, <2>3
    <3> QED BY <2>1, <3>1 DEF Passable
  <2> QED BY <2>2, <2>3
<1>5. ASSUME NEW j \in DOMAIN t, NEW r \in RefersTo(d, t[j]), r \notin owed
      PROVE  \E i \in DOMAIN t : r \in RowsOf(d, on, t[i])
  <2>1. CASE j = 1 BY <1>1, <1>5, <2>1
  <2>2. CASE j # 1
    <3>1. \/ r \in RowsOf(d, on, c)
          \/ \E i \in DOMAIN s : r \in RowsOf(d, on, s[i])
      BY <1>2, <1>5, <2>2 DEF Passable
    <3>2. CASE r \in RowsOf(d, on, c)
      <4>1. 1 \in DOMAIN t BY <1>1
      <4> QED BY <1>1, <3>2, <4>1
    <3>3. ASSUME NEW i \in DOMAIN s, r \in RowsOf(d, on, s[i]) PROVE \E k \in DOMAIN t : r \in RowsOf(d, on, t[k])
      <4>1. i + 1 \in DOMAIN t /\ t[i + 1] = s[i] BY <1>1
      <4> QED BY <3>3, <4>1
    <3> QED BY <3>1, <3>2, <3>3
  <2> QED BY <2>1, <2>2
<1> QED BY <1>3, <1>4, <1>5 DEF Passable, t

\* The first of the calls can be made, and what it was about is owed to the others.
LEMMA Pop ==
  ASSUME NEW d, NEW on, NEW s, NEW CS, s \in Seq(CS), s # <<>>, \A c \in CS : c.do \in CallNames,
         Passable(d, on, {}, s)
  PROVE  /\ Passable(d, on, RowsOf(d, on, Head(s)), Tail(s)) /\ Tail(s) \in Seq(CS) /\ Head(s) \in CS
         /\ \A i \in DOMAIN Tail(s) : Before(d, on, Head(s), Tail(s)[i])
         /\ RowsOf(d, on, Head(s)) \subseteq Present(d)
         /\ RefersTo(d, Head(s)) = {}
<1> DEFINE t == Tail(s)
<1>1. /\ t \in Seq(CS) /\ Head(s) = s[1] /\ s[1] \in CS /\ Len(s) \in Nat /\ Len(s) >= 1
      /\ DOMAIN t = 1 .. Len(s) - 1 /\ DOMAIN s = 1 .. Len(s)
      /\ \A i \in DOMAIN t : t[i] = s[i + 1] /\ i + 1 \in DOMAIN s
  OBVIOUS
<1> HIDE DEF t
<1>2. \A i \in DOMAIN s : i = 1 \/ (i - 1 \in DOMAIN t /\ s[i] = t[i - 1])
  <2> SUFFICES ASSUME NEW i \in DOMAIN s, i # 1 PROVE i - 1 \in DOMAIN t /\ s[i] = t[i - 1] OBVIOUS
  <2>1. i - 1 \in DOMAIN t /\ (i - 1) + 1 = i BY <1>1
  <2> QED BY <1>1, <2>1
<1>3. 1 \in DOMAIN s BY <1>1
<1>4. ASSUME NEW i \in DOMAIN t PROVE Before(d, on, s[1], t[i])
  <2>1. i + 1 \in DOMAIN s /\ 1 < i + 1 /\ t[i] = s[i + 1] BY <1>1
  <2> QED BY <1>3, <2>1 DEF Passable
<1>5. Passable(d, on, RowsOf(d, on, s[1]), t)
  <2>1. ASSUME NEW i \in DOMAIN t PROVE RowsOf(d, on, t[i]) \subseteq Present(d)
    BY <1>1 DEF Passable
  <2>2. ASSUME NEW i \in DOMAIN t, NEW j \in DOMAIN t, i < j PROVE Before(d, on, t[i], t[j])
    <3>1. i + 1 < j + 1 BY <1>1, <2>2
    <3> QED BY <1>1, <3>1 DEF Passable
  <2>3. ASSUME NEW j \in DOMAIN t, NEW r \in RefersTo(d, t[j]), r \notin RowsOf(d, on, s[1])
        PROVE  \E i \in DOMAIN t : r \in RowsOf(d, on, t[i])
    <3>1. PICK i \in DOMAIN s : r \in RowsOf(d, on, s[i]) BY <1>1, <2>3 DEF Passable
    <3> QED BY <1>2, <2>3, <3>1
  <2> QED BY <2>1, <2>2, <2>3 DEF Passable
<1>6. ASSUME NEW r \in RefersTo(d, s[1]) PROVE FALSE
  <2>1. PICK i \in DOMAIN s : r \in RowsOf(d, on, s[i]) BY <1>3 DEF Passable
  <2>2. r[1] = Rank(s[i].do) /\ r[1] < Rank(s[1].do) BY <2>1, RowsRank, RefersBelow
  <2>3. s[i] \in CS /\ s[1] \in CS BY <1>1
  <2>4. Rank(s[i].do) \in 1 .. 6 /\ Rank(s[1].do) \in 1 .. 6 BY <2>3, RankRange
  <2>5. i # 1 BY <2>2, <2>4
  <2>6. Rank(s[1].do) <= Rank(s[i].do)
    <3>1. 1 < i BY <1>1, <2>5
    <3> QED BY <1>3, <3>1 DEF Passable, Before
  <2> QED BY <2>2, <2>4, <2>6
<1>7. RowsOf(d, on, s[1]) \subseteq Present(d) BY <1>3 DEF Passable
<1> QED BY <1>1, <1>4, <1>5, <1>6, <1>7 DEF t

\* Nothing is owed any more when it is gone and the rest is as it was.
LEMMA Paid ==
  ASSUME NEW d, NEW e, NEW on, NEW other, NEW gone, NEW s, NoSave(s),
         Passable(d, on, gone, s),
         Present(d) \ gone \subseteq Present(e),
         \A i \in DOMAIN s : /\ RowsOf(d, on, s[i]) \cap gone = {}
                             /\ RowsOf(e, on, s[i]) = RowsOf(d, on, s[i])
                             /\ RefersTo(e, s[i]) \subseteq RefersTo(d, s[i]) \ gone
  PROVE  Passable(e, other, {}, s)
<1>1. \A i \in DOMAIN s : RowsOf(e, other, s[i]) = RowsOf(d, on, s[i])
  BY OnlySavesNameOn DEF NoSave
<1>2. ASSUME NEW i \in DOMAIN s PROVE RowsOf(e, other, s[i]) \subseteq Present(e)
  BY <1>1 DEF Passable
<1>3. ASSUME NEW i \in DOMAIN s, NEW j \in DOMAIN s, i < j PROVE Before(e, other, s[i], s[j])
  BY <1>1, <1>3 DEF Passable, Before
<1>4. ASSUME NEW j \in DOMAIN s, NEW r \in RefersTo(e, s[j])
      PROVE  \E i \in DOMAIN s : r \in RowsOf(e, other, s[i])
  BY <1>1 DEF Passable
<1> QED BY <1>2, <1>3, <1>4 DEF Passable

\* What is owed beside is no matter.
LEMMA OwedMore ==
  ASSUME NEW d, NEW on, NEW other, NEW owed, NEW more, NEW s, Passable(d, on, owed, s), owed \subseteq more, NoSave(s)
  PROVE  Passable(d, other, more, s)
<1>1. \A i \in DOMAIN s : RowsOf(d, other, s[i]) = RowsOf(d, on, s[i])
  BY OnlySavesNameOn DEF NoSave
<1> QED BY <1>1 DEF Passable, Before

\* An unread list holds rows that are there.
LEMMA ListedThere ==
  ASSUME NEW d, NEW on, NEW c, c.do \in DOMAIN Lists
  PROVE  RowsOf(d, on, c) \subseteq Present(d) /\ RowsOf(d, on, c) = {Rank(c.do)} \X ListedIn(d, c.do, c.of)
<1>1. c.do \in {"rolloutsIn", "rolloutsOf", "releasesOf", "buildsIn", "buildsOf", "profilesIn"}
  BY ListNames
<1>2. RowsOf(d, on, c) = {Rank(c.do)} \X ListedIn(d, c.do, c.of)
  BY DEF RowsOf
<1>3. CASE c.do \in {"rolloutsIn", "rolloutsOf"}
  BY <1>2, <1>3 DEF ListedIn, Present, Rank
<1>4. CASE c.do = "releasesOf"
  BY <1>2, <1>4 DEF ListedIn, Present, Rank
<1>5. CASE c.do \in {"buildsIn", "buildsOf"}
  BY <1>2, <1>5 DEF ListedIn, Present, Rank
<1>6. CASE c.do = "profilesIn"
  BY <1>2, <1>6 DEF ListedIn, Present, Rank
<1> QED BY <1>1, <1>2, <1>3, <1>4, <1>5, <1>6

\* A call before others on rows of its table or of later ones.
LEMMA BeforeOthers ==
  ASSUME NEW d, NEW on, NEW c, NEW e, c.do \in CallNames, e.do \in CallNames, c.do \notin OutOf,
         \/ Rank(c.do) < Rank(e.do)
         \/ Rank(c.do) = Rank(e.do) /\ c.do \notin DOMAIN Lists /\ RowsOf(d, on, c) \cap RowsOf(d, on, e) = {}
  PROVE  Before(d, on, c, e)
<1>1. Rank(c.do) \in 1 .. 6 /\ Rank(e.do) \in 1 .. 6 BY RankRange
<1>2. CASE Rank(c.do) < Rank(e.do)
  <2>1. RowsOf(d, on, c) \cap RowsOf(d, on, e) = {} BY <1>1, <1>2, RowsRank
  <2> QED BY <1>1, <1>2, <2>1 DEF Before
<1>3. CASE Rank(c.do) = Rank(e.do) /\ c.do \notin DOMAIN Lists /\ RowsOf(d, on, c) \cap RowsOf(d, on, e) = {}
  BY <1>1, <1>3 DEF Before
<1> QED BY <1>2, <1>3

\* The calls after one is put first.
LEMMA Pushed ==
  ASSUME NEW CS, NEW c \in CS, NEW s \in Seq(CS)
  PROVE  /\ <<c>> \o s \in Seq(CS) /\ Head(<<c>> \o s) = c /\ Tail(<<c>> \o s) = s /\ <<c>> \o s # <<>>
         /\ (<<c>> \o s)[1] = c
         /\ \A i \in DOMAIN (<<c>> \o s) : (<<c>> \o s)[i] = c \/ \E j \in DOMAIN s : (<<c>> \o s)[i] = s[j]
         /\ NoSave(s) /\ c.do # "save" => NoSave(<<c>> \o s)
<1> DEFINE u == <<c>> \o s
<1>1. /\ u \in Seq(CS) /\ Len(s) \in Nat /\ DOMAIN u = 1 .. Len(s) + 1 /\ DOMAIN s = 1 .. Len(s) /\ u[1] = c
      /\ \A i \in DOMAIN s : u[i + 1] = s[i]
      /\ Head(u) = c /\ Tail(u) = s /\ u # <<>>
  OBVIOUS
<1> HIDE DEF u
<1>2. ASSUME NEW i \in DOMAIN u PROVE u[i] = c \/ \E j \in DOMAIN s : u[i] = s[j]
  <2>1. CASE i = 1 BY <1>1, <2>1
  <2>2. CASE i # 1
    <3>1. i - 1 \in DOMAIN s /\ (i - 1) + 1 = i BY <1>1, <2>2
    <3> QED BY <1>1, <3>1
  <2> QED BY <2>1, <2>2
<1>3. NoSave(s) /\ c.do # "save" => NoSave(u) BY <1>2 DEF NoSave
<1> QED BY <1>1, <1>2, <1>3 DEF u

\* A row that goes, after the rows that refer to it: on a list to be read, or that was
\* read and held some.
Goes == {<<"rolloutsOf", "release">>, <<"releasesOf", "build">>, <<"buildsOf", "profile">>}

LEMMA RowGoes ==
  ASSUME NEW d, NEW g \in Goes, NEW x \in Ids, NEW s \in Seq(CallData), NoSave(s),
         <<Rank(g[2]), x>> \in Present(d),
         Passable(d, None, {<<Rank(g[2]), x>>}, s),
         \A i \in DOMAIN s : Rank(g[2]) <= Rank(s[i].do) /\ <<Rank(g[2]), x>> \notin RowsOf(d, None, s[i])
  PROVE  /\ Passable(d, None, {Rank(g[1])} \X ListedIn(d, g[1], x), <<Call(g[2], x)>> \o s)
         /\ NoSave(<<Call(g[2], x)>> \o s)
         /\ \A c \in CallData :
              /\ c.do \in CallNames /\ c.do # "save" /\ Rank(c.do) = Rank(g[1]) /\ c.do \notin OutOf
              /\ RowsOf(d, None, c) = {Rank(g[1])} \X ListedIn(d, g[1], x)
              /\ RefersTo(d, c) = {}
              => /\ Passable(d, None, {}, <<c>> \o (<<Call(g[2], x)>> \o s))
                 /\ NoSave(<<c>> \o (<<Call(g[2], x)>> \o s))
<1> DEFINE row == Call(g[2], x)
           rows == {Rank(g[1])} \X ListedIn(d, g[1], x)
           t == <<row>> \o s
<1>1. /\ row \in CallData /\ row.do = g[2] /\ row.of = x /\ row.do \in CallNames
      /\ row.do \in {"release", "build", "profile"} /\ row.do \notin DOMAIN Lists
      /\ g[1] \in DOMAIN Lists /\ Rank(g[1]) < Rank(g[2]) /\ g[1] \in {"rolloutsOf", "releasesOf", "buildsOf"}
      /\ Rank(g[1]) \in 1 .. 6 /\ Rank(g[2]) \in 1 .. 6
  BY CallTyped, ListNames DEF Goes, Call, Rank, CallNames, Rows
<1>2. RowsOf(d, None, row) = {<<Rank(g[2]), x>>}
  BY <1>1 DEF RowsOf
<1>3. RefersTo(d, row) \subseteq rows
  <2>1. \/ g = <<"rolloutsOf", "release">> \/ g = <<"releasesOf", "build">> \/ g = <<"buildsOf", "profile">>
    BY DEF Goes
  <2> QED BY <1>1, <2>1 DEF RefersTo, Rank
<1>4. \A i \in DOMAIN s : s[i] \in CallData /\ s[i].do \in CallNames
  BY DEF CallData
<1> HIDE DEF row, rows
<1>5. \A i \in DOMAIN s : Before(d, None, row, s[i])
  <2> SUFFICES ASSUME NEW i \in DOMAIN s PROVE Before(d, None, row, s[i]) OBVIOUS
  <2>1. row.do \notin OutOf BY <1>1 DEF OutOf
  <2>2. RowsOf(d, None, row) \cap RowsOf(d, None, s[i]) = {} BY <1>2
  <2>3. Rank(s[i].do) \in 1 .. 6 /\ Rank(row.do) <= Rank(s[i].do) BY <1>1, <1>4, RankRange
  <2>4. Rank(row.do) < Rank(s[i].do) \/ Rank(row.do) = Rank(s[i].do) BY <1>1, <2>3
  <2> QED BY <1>1, <1>4, <2>1, <2>2, <2>4, BeforeOthers
<1>6. Passable(d, None, rows, t)
  <2>1. Passable(d, None, rows \cup RowsOf(d, None, row), s) BY <1>2, OwedMore
  <2>2. RowsOf(d, None, row) \subseteq Present(d) BY <1>2
  <2> QED BY <1>1, <1>3, <1>5, <2>1, <2>2, Push
<1>7. /\ t \in Seq(CallData) /\ NoSave(t)
      /\ \A i \in DOMAIN t : t[i] = row \/ \E j \in DOMAIN s : t[i] = s[j]
  BY <1>1, Pushed
<1> HIDE DEF t
<1>8. ASSUME NEW c \in CallData, c.do \in CallNames, c.do # "save", Rank(c.do) = Rank(g[1]), c.do \notin OutOf,
             RowsOf(d, None, c) = rows, RefersTo(d, c) = {}
      PROVE  Passable(d, None, {}, <<c>> \o t) /\ NoSave(<<c>> \o t)
  <2>1. ASSUME NEW i \in DOMAIN t PROVE Before(d, None, c, t[i])
    <3>1. t[i].do \in CallNames /\ Rank(t[i].do) \in 1 .. 6 /\ Rank(g[2]) <= Rank(t[i].do)
      <4>1. t[i].do \in CallNames BY <1>7 DEF CallData
      <4>2. Rank(g[2]) <= Rank(t[i].do) BY <1>1, <1>7
      <4> QED BY <4>1, <4>2, RankRange
    <3>2. Rank(c.do) < Rank(t[i].do) BY <1>1, <1>8, <3>1
    <3> QED BY <1>8, <3>1, <3>2, BeforeOthers
  <2>2. Passable(d, None, {} \cup RowsOf(d, None, c), t) BY <1>6, <1>8
  <2>3. rows \subseteq Present(d)
    <3> DEFINE l == Call(g[1], x)
    <3>1. l.do = g[1] /\ l.of = x BY DEF Call
    <3> HIDE DEF l
    <3>2. RowsOf(d, None, l) \subseteq Present(d) /\ RowsOf(d, None, l) = {Rank(l.do)} \X ListedIn(d, l.do, l.of)
      BY <1>1, <3>1, ListedThere
    <3> QED BY <3>1, <3>2 DEF rows
  <2>4. Passable(d, None, {}, <<c>> \o t) BY <1>7, <1>8, <2>1, <2>2, <2>3, Push
  <2>5. NoSave(<<c>> \o t) BY <1>7, <1>8, Pushed
  <2> QED BY <2>4, <2>5
<1> QED BY <1>6, <1>7, <1>8 DEF t, row, rows
-----------------------------------------------------------------------------
(* Requests that nobody disturbs.                                          *)

QuietIInv == ProfileIInv /\ AllUndisturbed

\* A request that is not there relies on nothing.
LEMMA NothingToRelyOn == \A d : Undisturbed(d, NoRequest)
BY DEF Undisturbed, NoRequest

\* One request goes on, and the tables stay as they are.
LEMMA OneGoesOn ==
  ASSUME QuietIInv, NEW h \in Handlers, NEW mine, req' = [req EXCEPT ![h] = mine], db' = db, Undisturbed(db, mine)
  PROVE  AllUndisturbed'
<1>1. req \in [Handlers -> RequestData] BY DEF QuietIInv, ProfileIInv, ProfileTyped
<1>2. ASSUME NEW x \in Handlers PROVE Undisturbed(db, req'[x])
  <2>1. req'[x] = IF x = h THEN mine ELSE req[x] BY <1>1
  <2> QED BY <2>1 DEF QuietIInv, AllUndisturbed
<1> QED BY <1>2 DEF AllUndisturbed

\* One that is disturbed is in flight, and relies on nothing any more.
LEMMA DisturbedRelies ==
  ASSUME NEW q \in RequestData, Undisturbed(db, q), NEW new, NEW p, NEW parts
  PROVE  Undisturbed(new, Disturbed(q, p, parts))
<1>1. CASE q.step = "failed"
  <2>1. Disturbed(q, p, parts) = q BY <1>1 DEF Disturbed
  <2>2. ~q.quiet BY <1>1 DEF Undisturbed
  <2> QED BY <2>1, <2>2 DEF Undisturbed
<1>2. CASE q.step \in {"idle", "refused"}
  <2>1. Disturbed(q, p, parts) = q BY <1>2 DEF Disturbed
  <2> QED BY <1>2, <2>1 DEF Undisturbed
<1>3. CASE q.step \notin {"idle", "failed", "refused"}
  <2> DEFINE e == Disturbed(q, p, parts)
  <2>1. e.quiet = FALSE BY <1>3 DEF Disturbed, RequestData
  <2> HIDE DEF e
  <2>2. Undisturbed(new, e) BY <2>1 DEF Undisturbed
  <2> QED BY <2>2 DEF e
<1> QED BY <1>1, <1>2, <1>3

\* A write disturbs the other requests, if they are in flight.
LEMMA WriteDisturbs ==
  ASSUME QuietIInv, NEW h, NEW mine, NEW new, NEW p, NEW parts, Write(h, mine, new, p, parts), Undisturbed(new, mine)
  PROVE  AllUndisturbed'
<1>1. req \in [Handlers -> RequestData] BY DEF QuietIInv, ProfileIInv, ProfileTyped
<1>2. db' = new /\ \A x \in Handlers : req'[x] = IF x = h THEN mine ELSE Disturbed(req[x], p, parts)
  BY DEF Write
<1>3. \A x \in Handlers : Undisturbed(new, Disturbed(req[x], p, parts))
  BY <1>1, DisturbedRelies DEF QuietIInv, AllUndisturbed
<1>4. ASSUME NEW x \in Handlers PROVE Undisturbed(new, req'[x])
  BY <1>2, <1>3
<1> QED BY <1>2, <1>4 DEF AllUndisturbed

\* Only a request that was disturbed fails.
LEMMA DisturbedFails ==
  ASSUME QuietIInv, NEW h \in Handlers, Fail(h), ~req[h].quiet
  PROVE  AllUndisturbed'
<1>1. Undisturbed(db, Failed(h))
  <2>1. Failed(h).quiet = req[h].quiet BY DEF Failed, NoRequest
  <2> QED BY <2>1 DEF Undisturbed
<1> QED BY <1>1, OneGoesOn DEF Fail

\* Only a request that brings the name or was disturbed fails because it is taken.
LEMMA BringerIsRefused ==
  ASSUME QuietIInv, NEW h \in Handlers, Refuse(h), req[h].quiet => BringsName(req[h])
  PROVE  AllUndisturbed'
<1> DEFINE refused == [NoRequest EXCEPT !.step = "refused"]
<1>1. CASE BringsName(req[h])
  <2>1. refused.step = "refused" BY DEF NoRequest
  <2>2. req' = [req EXCEPT ![h] = refused] /\ db' = db BY <1>1 DEF Refuse
  <2> HIDE DEF refused
  <2>3. Undisturbed(db, refused) BY <2>1 DEF Undisturbed
  <2> QED BY <2>2, <2>3, OneGoesOn
<1>2. CASE ~BringsName(req[h])
  <2>1. Fail(h) BY <1>2 DEF Refuse, Fail
  <2> QED BY <1>2, <2>1, DisturbedFails
<1> QED BY <1>1, <1>2

\* The calls that are left can be made.
LEMMA LeftPasses ==
  ASSUME NEW d, NEW h \in Handlers, NEW calls \in Seq(CallData),
         req[h].quiet => Passable(d, None, {}, calls) /\ NoSave(calls)
  PROVE  Undisturbed(d, Left(h, calls))
<1>1. CASE calls = <<>> BY <1>1, NothingToRelyOn DEF Left
<1>2. CASE calls # <<>>
  <2> DEFINE mine == [NoRequest EXCEPT !.step = "cascade", !.calls = calls, !.quiet = req[h].quiet]
  <2>1. Left(h, calls) = mine BY <1>2 DEF Left
  <2>2. mine.step = "cascade" /\ mine.calls = calls /\ mine.quiet = req[h].quiet /\ mine.on = None
    BY DEF NoRequest
  <2> HIDE DEF mine
  <2>3. NoSave(calls) => NoSave(Tail(calls)) /\ calls[1].do # "save"
    <3>1. /\ DOMAIN Tail(calls) = 1 .. Len(calls) - 1 /\ DOMAIN calls = 1 .. Len(calls)
          /\ Len(calls) \in Nat /\ Len(calls) >= 1
          /\ \A i \in DOMAIN Tail(calls) : Tail(calls)[i] = calls[i + 1] /\ i + 1 \in DOMAIN calls
      BY <1>2
    <3>2. 1 \in DOMAIN calls BY <3>1
    <3> QED BY <3>1, <3>2 DEF NoSave
  <2> QED BY <2>1, <2>2, <2>3 DEF Undisturbed, SaveIsFirst
<1> QED BY <1>1, <1>2

\* A deletion goes on with calls that can be made.
LEMMA GoOnPasses ==
  ASSUME QuietIInv, NEW h \in Handlers, NEW calls \in Seq(CallData), GoOn(h, calls),
         req[h].quiet => Passable(db, None, {}, calls) /\ NoSave(calls)
  PROVE  AllUndisturbed'
BY LeftPasses, OneGoesOn DEF GoOn

\* A row that can go is gone for the calls that are left.
LEMMA RemovePasses ==
  ASSUME QuietIInv, NEW h \in Handlers, NEW possible, NEW new, NEW rest \in Seq(CallData),
         Remove(h, possible, new, rest),
         req[h].quiet => possible,
         req[h].quiet => Passable(new, None, {}, rest) /\ NoSave(rest)
  PROVE  AllUndisturbed'
<1>1. CASE Write(h, Left(h, rest), new, None, {})
  BY <1>1, LeftPasses, WriteDisturbs
<1>2. CASE ~possible /\ Fail(h)
  BY <1>2, DisturbedFails
<1> QED BY <1>1, <1>2 DEF Remove

\* The next call of a deletion that nobody has disturbed.
LEMMA TopPasses ==
  ASSUME QuietIInv, NEW h \in Handlers, req[h].step = "cascade"
  PROVE  /\ Top(h) \in CallData /\ Rest(h) \in Seq(CallData) /\ Top(h).do \in CallNames /\ Top(h).of \in Ids
         /\ \A i \in DOMAIN Rest(h) : Rest(h)[i] \in CallData /\ Rest(h)[i].do \in CallNames
         /\ req[h].quiet =>
              /\ Passable(db, req[h].on, RowsOf(db, req[h].on, Top(h)), Rest(h)) /\ NoSave(Rest(h))
              /\ \A i \in DOMAIN Rest(h) : Before(db, req[h].on, Top(h), Rest(h)[i])
              /\ RowsOf(db, req[h].on, Top(h)) \subseteq Present(db)
              /\ RefersTo(db, Top(h)) = {}
<1>1. Top(h) \in CallData /\ Rest(h) \in Seq(CallData) BY TopTyped DEF QuietIInv
<1>2. \A c \in CallData : c.do \in CallNames /\ c.of \in Ids BY DEF CallData
<1>3. \A i \in DOMAIN Rest(h) : Rest(h)[i] \in CallData BY <1>1
<1>4. ASSUME req[h].quiet
      PROVE  /\ Passable(db, req[h].on, RowsOf(db, req[h].on, Top(h)), Rest(h)) /\ NoSave(Rest(h))
             /\ \A i \in DOMAIN Rest(h) : Before(db, req[h].on, Top(h), Rest(h)[i])
             /\ RowsOf(db, req[h].on, Top(h)) \subseteq Present(db)
             /\ RefersTo(db, Top(h)) = {}
  <2>1. Undisturbed(db, req[h]) BY DEF QuietIInv, AllUndisturbed
  <2>2. Passable(db, req[h].on, {}, req[h].calls) /\ NoSave(Rest(h))
    BY <1>4, <2>1 DEF Undisturbed, SaveIsFirst, Rest
  <2>3. req[h].calls \in Seq(CallData) /\ req[h].calls # <<>>
    BY DEF QuietIInv, ProfileIInv, ProfileTyped, InStep, RequestData
  <2> QED BY <1>2, <2>2, <2>3, Pop DEF Top, Rest
<1> QED BY <1>1, <1>2, <1>3, <1>4

\* A list is read.
LEMMA LoopOfList ==
  ASSUME ProfileIInv, NEW l \in CallData, l.do \in DOMAIN Lists,
         NEW c, c = [do |-> Lists[l.do], of |-> l.of, todo |-> Listed(l.do, l.of),
                     alone |-> IF l.do = "profilesIn" THEN {p \in Listed(l.do, l.of) : Alone(p)} ELSE {}]
  PROVE  /\ c \in CallData /\ c.do = Lists[l.do] /\ c.do \in CallNames /\ c.do # "save"
         /\ \A on : RowsOf(db, on, c) = {Rank(l.do)} \X ListedIn(db, l.do, l.of)
         /\ RefersTo(db, c) = {}
<1>1. db.released \subseteq Builds /\ db.rollouts \subseteq Builds
  BY DEF ProfileIInv, ProfileTyped, Tables
<1>2. Listed(l.do, l.of) \subseteq Ids /\ (l.do = "profilesIn" => Listed(l.do, l.of) \subseteq Profiles)
  BY <1>1, ListNames DEF Listed, ListRollouts, ListReleases, ListBuilds, ListProfiles, Ids
<1>3. Lists[l.do] \in CallNames /\ (Lists[l.do] = "profiles" => l.do = "profilesIn")
  BY ListNames DEF CallNames, Lists
<1>4. /\ c.do = Lists[l.do] /\ c.todo = Listed(l.do, l.of) /\ c.of = l.of
      /\ c.alone \subseteq c.todo /\ c.do \in CallNames
  BY <1>3
<1>5. c \in CallData
  BY <1>2, <1>3, <1>4 DEF CallData, IsCall, CallNames
<1>6. c.do \in {"rollouts", "releases", "builds", "profiles"} /\ c.do \notin DOMAIN Lists /\ Rank(c.do) = Rank(l.do)
  BY <1>4, ListRanks
<1>7. \A on : RowsOf(db, on, c) = {Rank(l.do)} \X ListedIn(db, l.do, l.of)
  BY <1>4, <1>6, ListedNow DEF RowsOf
<1> QED BY <1>4, <1>5, <1>6, <1>7 DEF RefersTo

\* A list is read: the loop over it can be gone through, and then the calls after it.
LEMMA ListPasses ==
  ASSUME ProfileIInv, NEW on, NEW l \in CallData, l.do \in DOMAIN Lists, NEW s \in Seq(CallData), NoSave(s),
         Passable(db, on, RowsOf(db, on, l), s), \A i \in DOMAIN s : Before(db, on, l, s[i])
  PROVE  Passable(db, None, {}, ListThen(l, s)) /\ NoSave(ListThen(l, s))
<1> DEFINE c == [do |-> Lists[l.do], of |-> l.of, todo |-> Listed(l.do, l.of),
                 alone |-> IF l.do = "profilesIn" THEN {p \in Listed(l.do, l.of) : Alone(p)} ELSE {}]
<1>1. ListThen(l, s) = IF c.todo = {} THEN s ELSE <<c>> \o s
  BY DEF ListThen, Loop
<1>2. /\ c \in CallData /\ c.do = Lists[l.do] /\ c.do \in CallNames /\ c.do # "save"
      /\ \A o : RowsOf(db, o, c) = {Rank(l.do)} \X ListedIn(db, l.do, l.of)
      /\ RefersTo(db, c) = {}
  <2> HIDE DEF c
  <2> QED BY LoopOfList DEF c
<1>3. c.of = l.of /\ c.todo = ListedIn(db, l.do, l.of)
  BY ListedNow
<1>4. /\ RowsOf(db, on, l) = {Rank(l.do)} \X ListedIn(db, l.do, l.of) /\ RowsOf(db, on, l) \subseteq Present(db)
      /\ Rank(c.do) = Rank(l.do) /\ c.do \notin DOMAIN Lists /\ (l.do \in OutOf <=> c.do \in OutOf)
  <2> HIDE DEF c
  <2> QED BY <1>2, ListedThere, ListRanks
<1> HIDE DEF c
<1>5. RowsOf(db, None, c) = RowsOf(db, on, l) BY <1>2, <1>4
<1>6. CASE c.todo = {}
  <2>1. RowsOf(db, on, l) = {} BY <1>3, <1>4, <1>6
  <2> QED BY <1>1, <1>6, <2>1, OwedMore
<1>7. CASE c.todo # {}
  <2>1. Passable(db, None, {} \cup RowsOf(db, None, c), s) BY <1>5, OwedMore
  <2>2. \A i \in DOMAIN s : RowsOf(db, None, s[i]) = RowsOf(db, on, s[i])
    BY OnlySavesNameOn DEF NoSave
  <2>3. \A i \in DOMAIN s : Before(db, None, c, s[i])
    BY <1>3, <1>4, <1>5, <2>2 DEF Before
  <2>4. Passable(db, None, {}, <<c>> \o s) BY <1>2, <1>4, <1>5, <2>1, <2>3, Push
  <2> QED BY <1>1, <1>2, <1>7, <2>4, Pushed
<1> QED BY <1>6, <1>7

-----------------------------------------------------------------------------
(* The calls that a loop leaves.                                           *)

\* What is left of a loop once b is gone through.
LEMMA OthersPass ==
  ASSUME QuietIInv, NEW h \in Handlers, req[h].step = "cascade", req[h].quiet,
         Top(h).do \in {"rollouts", "releases", "builds", "profiles"}, NEW b \in Top(h).todo
  PROVE  /\ <<Rank(Top(h).do), b>> \in Present(db)
         /\ Passable(db, None, {<<Rank(Top(h).do), b>>}, Others(h, b)) /\ NoSave(Others(h, b))
         /\ \A i \in DOMAIN Others(h, b) :
              /\ Rank(Top(h).do) <= Rank(Others(h, b)[i].do)
              /\ <<Rank(Top(h).do), b>> \notin RowsOf(db, None, Others(h, b)[i])
              /\ Top(h).do = "profiles" /\ Others(h, b)[i].do = "fleet" => Others(h, b)[i].of = Top(h).of
<1> DEFINE t == Top(h)
           s == Rest(h)
           on == req[h].on
           c == [t EXCEPT !.todo = @ \ {b}, !.alone = @ \ {b}]
           row == <<Rank(t.do), b>>
<1>1. /\ t \in CallData /\ s \in Seq(CallData) /\ t.do \in CallNames
      /\ \A i \in DOMAIN s : s[i] \in CallData /\ s[i].do \in CallNames
      /\ Passable(db, on, RowsOf(db, on, t), s) /\ NoSave(s)
      /\ \A i \in DOMAIN s : Before(db, on, t, s[i])
      /\ RowsOf(db, on, t) \subseteq Present(db)
  BY TopPasses
<1>2. /\ c \in CallData /\ c.do = t.do /\ c.of = t.of /\ c.todo = t.todo \ {b}
      /\ Others(h, b) = IF c.todo = {} THEN s ELSE <<c>> \o s
  BY <1>1 DEF CallData, IsCall, CallNames, Others, Loop
<1>3. t.do \in {"rollouts", "releases", "builds", "profiles"} /\ t.do \notin DOMAIN Lists /\ t.do # "save"
  BY ListNames
<1> HIDE DEF c, t, s, on
<1>4. /\ RowsOf(db, on, t) = {Rank(t.do)} \X t.todo
      /\ RowsOf(db, on, c) = {Rank(t.do)} \X (t.todo \ {b})
      /\ RowsOf(db, None, c) = {Rank(t.do)} \X (t.todo \ {b})
      /\ RefersTo(db, c) = {}
  BY <1>2, <1>3 DEF RowsOf, RefersTo
<1>5. row \in RowsOf(db, on, t) /\ row \notin RowsOf(db, None, c) BY <1>4 DEF t
<1>6. RowsOf(db, on, t) = {row} \cup RowsOf(db, None, c) BY <1>4 DEF t
<1>7. \A i \in DOMAIN s :
        /\ RowsOf(db, None, s[i]) = RowsOf(db, on, s[i]) /\ Rank(t.do) <= Rank(s[i].do)
        /\ row \notin RowsOf(db, None, s[i])
        /\ t.do = "profiles" /\ s[i].do = "fleet" => s[i].of = t.of
  <2> SUFFICES ASSUME NEW i \in DOMAIN s
               PROVE /\ RowsOf(db, None, s[i]) = RowsOf(db, on, s[i]) /\ Rank(t.do) <= Rank(s[i].do)
                     /\ row \notin RowsOf(db, None, s[i])
                     /\ t.do = "profiles" /\ s[i].do = "fleet" => s[i].of = t.of
    OBVIOUS
  <2>1. RowsOf(db, None, s[i]) = RowsOf(db, on, s[i]) BY <1>1, OnlySavesNameOn DEF NoSave
  <2>2. Before(db, on, t, s[i]) BY <1>1
  <2> QED BY <1>5, <2>1, <2>2 DEF Before, OutOf
<1>8. row \in Present(db) BY <1>1, <1>5
<1> HIDE DEF row
<1>9. CASE c.todo = {}
  <2>1. RowsOf(db, on, t) = {row} BY <1>2, <1>4, <1>6, <1>9
  <2>2. Passable(db, None, {row}, s) BY <1>1, <2>1, OwedMore
  <2>3. Others(h, b) = s BY <1>2, <1>9
  <2> QED BY <1>1, <1>7, <1>8, <2>2, <2>3 DEF t, row
<1>10. CASE c.todo # {}
  <2>1. Others(h, b) = <<c>> \o s BY <1>2, <1>10
  <2>2. Passable(db, None, {row} \cup RowsOf(db, None, c), s) BY <1>1, <1>6, OwedMore
  <2>3. RowsOf(db, None, c) \subseteq Present(db) BY <1>1, <1>6
  <2>4. ASSUME NEW i \in DOMAIN s PROVE Before(db, None, c, s[i])
    <3>1. Before(db, on, t, s[i]) /\ RowsOf(db, None, s[i]) = RowsOf(db, on, s[i]) BY <1>1, <1>7
    <3>2. RowsOf(db, None, c) \cap RowsOf(db, None, s[i]) = {} BY <1>6, <3>1 DEF Before
    <3> QED BY <1>2, <3>1, <3>2 DEF Before
  <2>5. Passable(db, None, {row}, <<c>> \o s) BY <1>1, <1>2, <1>4, <2>2, <2>3, <2>4, Push
  <2>6. /\ NoSave(<<c>> \o s)
        /\ \A i \in DOMAIN (<<c>> \o s) : (<<c>> \o s)[i] = c \/ \E j \in DOMAIN s : (<<c>> \o s)[i] = s[j]
    BY <1>1, <1>2, <1>3, Pushed
  <2>7. Rank(t.do) <= Rank(c.do)
    <3>1. Rank(t.do) \in 1 .. 6 BY <1>1, RankRange
    <3> QED BY <1>2, <3>1
  <2> DEFINE u == <<c>> \o s
  <2>8. Others(h, b) = u /\ Passable(db, None, {row}, u) /\ NoSave(u)
        /\ \A i \in DOMAIN u : u[i] = c \/ \E j \in DOMAIN s : u[i] = s[j]
    BY <2>1, <2>5, <2>6
  <2> HIDE DEF u
  <2>9. c.do # "fleet" BY <1>2, <1>3
  <2>10. \A i \in DOMAIN u : /\ Rank(t.do) <= Rank(u[i].do) /\ row \notin RowsOf(db, None, u[i])
                             /\ t.do = "profiles" /\ u[i].do = "fleet" => u[i].of = t.of
    BY <1>5, <1>7, <2>7, <2>8, <2>9
  <2> QED BY <1>8, <2>8, <2>10 DEF t, row
<1> QED BY <1>9, <1>10

\* A row on a list is gone through: what refers to it goes first, from a list that is
\* read at once, or will be.
LEMMA EachPasses ==
  ASSUME QuietIInv, NEW h \in Handlers, req[h].step = "cascade", req[h].quiet,
         Top(h).do \in {"rollouts", "releases", "builds", "profiles"}, NEW b \in Top(h).todo, b \in Ids,
         NEW g \in Goes, Rank(g[2]) = Rank(Top(h).do)
  PROVE  LET t == <<Call(g[2], b)>> \o Others(h, b)
         IN  /\ Passable(db, None, {}, ListThen(Call(g[1], b), t)) /\ NoSave(ListThen(Call(g[1], b), t))
             /\ Passable(db, None, {}, <<Call(g[1], b)>> \o t) /\ NoSave(<<Call(g[1], b)>> \o t)
<1> DEFINE s == Others(h, b)
           l == Call(g[1], b)
           t == <<Call(g[2], b)>> \o s
           rows == {Rank(g[1])} \X ListedIn(db, g[1], b)
<1>1. s \in Seq(CallData) BY OthersTyped DEF QuietIInv
<1>2. /\ <<Rank(g[2]), b>> \in Present(db)
      /\ Passable(db, None, {<<Rank(g[2]), b>>}, s) /\ NoSave(s)
      /\ \A i \in DOMAIN s : Rank(g[2]) <= Rank(s[i].do) /\ <<Rank(g[2]), b>> \notin RowsOf(db, None, s[i])
  BY OthersPass
<1> HIDE DEF s
<1>3. /\ Passable(db, None, rows, t) /\ NoSave(t)
      /\ \A c \in CallData :
           /\ c.do \in CallNames /\ c.do # "save" /\ Rank(c.do) = Rank(g[1]) /\ c.do \notin OutOf
           /\ RowsOf(db, None, c) = rows /\ RefersTo(db, c) = {}
           => Passable(db, None, {}, <<c>> \o t) /\ NoSave(<<c>> \o t)
  BY <1>1, <1>2, RowGoes
<1>4. /\ l \in CallData /\ l.do = g[1] /\ l.of = b /\ l.do \in DOMAIN Lists /\ l.do \in CallNames
      /\ l.do # "save" /\ l.do \notin OutOf /\ l.do # "profilesIn" /\ Lists[l.do] \notin OutOf
      /\ l.do \in {"rolloutsOf", "releasesOf", "buildsOf"}
  <2>1. g[1] \in {"rolloutsOf", "releasesOf", "buildsOf"} BY DEF Goes
  <2>2. l.do = g[1] /\ l.of = b BY DEF Call
  <2>3. l \in CallData BY <2>1, CallTyped
  <2> HIDE DEF l
  <2>4. l.do \in DOMAIN Lists /\ l.do \notin OutOf BY <2>1, <2>2, ListNames DEF OutOf
  <2> QED BY <2>1, <2>2, <2>3, <2>4, ListRanks DEF CallData
<1> HIDE DEF l, t
<1>5. Passable(db, None, {}, <<l>> \o t) /\ NoSave(<<l>> \o t)
  <2>1. RowsOf(db, None, l) = rows BY <1>4, ListedThere
  <2>2. RefersTo(db, l) = {} BY <1>4 DEF RefersTo
  <2> HIDE DEF rows
  <2> QED BY <1>3, <1>4, <2>1, <2>2
<1>6. Passable(db, None, {}, ListThen(l, t)) /\ NoSave(ListThen(l, t))
  <2> DEFINE c == [do |-> Lists[l.do], of |-> l.of, todo |-> Listed(l.do, l.of),
                   alone |-> IF l.do = "profilesIn" THEN {p \in Listed(l.do, l.of) : Alone(p)} ELSE {}]
  <2>1. ListThen(l, t) = IF c.todo = {} THEN t ELSE <<c>> \o t BY DEF ListThen, Loop
  <2>2. c.todo = ListedIn(db, g[1], b) BY <1>4, ListedNow
  <2> HIDE DEF c
  <2>3. /\ c \in CallData /\ c.do = Lists[l.do] /\ c.do \in CallNames /\ c.do # "save"
        /\ RowsOf(db, None, c) = rows /\ RefersTo(db, c) = {}
    BY <1>4, LoopOfList DEF QuietIInv, c
  <2>4. Rank(c.do) = Rank(g[1]) BY <1>4, <2>3, ListRanks
  <2>5. CASE c.todo = {}
    <3>1. rows = {} BY <2>2, <2>5
    <3> QED BY <1>3, <2>1, <2>5, <3>1
  <2>6. CASE c.todo # {}
    <3> HIDE DEF rows
    <3> QED BY <1>3, <1>4, <2>1, <2>3, <2>4, <2>6
  <2> QED BY <2>5, <2>6
<1> QED BY <1>5, <1>6 DEF l, t, s

-----------------------------------------------------------------------------
(* The tables without a row.                                               *)

\* The tables e hold what the tables d do, without the rows gone.
Fewer(d, e, gone) ==
  /\ Present(d) \ gone \subseteq Present(e)
  /\ \A f \in e.devices : f \in d.devices /\ <<5, f>> \notin gone
  /\ \A do \in DOMAIN Lists : \A x :
       /\ \A y \in ListedIn(e, do, x) : y \in ListedIn(d, do, x) /\ (do # "profilesIn" => <<Rank(do), y>> \notin gone)
       /\ \A y \in ListedIn(d, do, x) : y \in ListedIn(e, do, x) \/ <<Rank(do), y>> \in gone

\* With them gone, the calls that waited for that can be made.
LEMMA FewerPasses ==
  ASSUME NEW d, NEW e, NEW gone, Fewer(d, e, gone), NEW on, NEW s, NoSave(s), Passable(d, on, gone, s),
         \A i \in DOMAIN s : /\ RowsOf(d, on, s[i]) \cap gone = {}
                             /\ s[i].do = "fleet" => \A y \in ListedIn(e, "profilesIn", s[i].of) : <<4, y>> \notin gone
  PROVE  Passable(e, None, {}, s)
<1>1. ASSUME NEW c, RowsOf(d, on, c) \cap gone = {} PROVE RowsOf(e, on, c) = RowsOf(d, on, c)
  <2>2. CASE c.do \in DOMAIN Lists
    <3>1. /\ RowsOf(d, on, c) = {Rank(c.do)} \X ListedIn(d, c.do, c.of)
          /\ RowsOf(e, on, c) = {Rank(c.do)} \X ListedIn(e, c.do, c.of)
      BY <2>2 DEF RowsOf
    <3>2. \A y \in ListedIn(d, c.do, c.of) : <<Rank(c.do), y>> \notin gone
      <4>1. \A y \in ListedIn(d, c.do, c.of) : <<Rank(c.do), y>> \in RowsOf(d, on, c) BY <3>1
      <4> QED BY <1>1, <4>1
    <3>3. /\ \A y \in ListedIn(e, c.do, c.of) : y \in ListedIn(d, c.do, c.of)
          /\ \A y \in ListedIn(d, c.do, c.of) : y \in ListedIn(e, c.do, c.of) \/ <<Rank(c.do), y>> \in gone
      <4> DEFINE do == c.do
                 x == c.of
      <4>1. do \in DOMAIN Lists BY <2>2
      <4> HIDE DEF do, x
      <4>2. /\ \A y \in ListedIn(e, do, x) : y \in ListedIn(d, do, x)
            /\ \A y \in ListedIn(d, do, x) : y \in ListedIn(e, do, x) \/ <<Rank(do), y>> \in gone
        BY <4>1 DEF Fewer
      <4> QED BY <4>2 DEF do, x
    <3>4. ListedIn(e, c.do, c.of) = ListedIn(d, c.do, c.of) BY <3>2, <3>3
    <3> QED BY <3>1, <3>4
  <2>3. CASE c.do \notin DOMAIN Lists
    BY <2>3 DEF RowsOf
  <2> QED BY <2>2, <2>3
<1>2. ASSUME NEW c, c.do = "fleet" => \A y \in ListedIn(e, "profilesIn", c.of) : <<4, y>> \notin gone
      PROVE  RefersTo(e, c) \subseteq RefersTo(d, c) \ gone
  <2>2. /\ \A y \in ListedIn(e, "rolloutsOf", c.of) : y \in ListedIn(d, "rolloutsOf", c.of) /\ <<1, y>> \notin gone
        /\ \A y \in ListedIn(e, "releasesOf", c.of) : y \in ListedIn(d, "releasesOf", c.of) /\ <<2, y>> \notin gone
        /\ \A y \in ListedIn(e, "buildsOf", c.of) : y \in ListedIn(d, "buildsOf", c.of) /\ <<3, y>> \notin gone
        /\ \A y \in ListedIn(e, "buildsIn", c.of) : y \in ListedIn(d, "buildsIn", c.of) /\ <<3, y>> \notin gone
        /\ \A y \in ListedIn(e, "profilesIn", c.of) : y \in ListedIn(d, "profilesIn", c.of)
    <3>1. /\ {"rolloutsOf", "releasesOf", "buildsOf", "buildsIn", "profilesIn"} \subseteq DOMAIN Lists
          /\ Rank("rolloutsOf") = 1 /\ Rank("releasesOf") = 2 /\ Rank("buildsOf") = 3 /\ Rank("buildsIn") = 3
      BY ListNames DEF Rank
    <3>2. \A do \in DOMAIN Lists : \A y \in ListedIn(e, do, c.of) :
            y \in ListedIn(d, do, c.of) /\ (do # "profilesIn" => <<Rank(do), y>> \notin gone)
      BY DEF Fewer
    <3> QED BY <3>1, <3>2
  <2>3. CASE c.do = "release" BY <2>2, <2>3 DEF RefersTo
  <2>4. CASE c.do = "build" BY <2>2, <2>4 DEF RefersTo
  <2>5. CASE c.do = "profile" BY <2>2, <2>5 DEF RefersTo
  <2>6. CASE c.do = "fleet"
    <3>1. \A f \in e.devices : f \in d.devices /\ <<5, f>> \notin gone BY DEF Fewer
    <3> QED BY <1>2, <2>2, <2>6, <3>1 DEF RefersTo
  <2>7. CASE c.do \notin {"release", "build", "profile", "fleet"} BY <2>7 DEF RefersTo
  <2> QED BY <2>3, <2>4, <2>5, <2>6, <2>7
<1>3. Present(d) \ gone \subseteq Present(e) BY DEF Fewer
<1> QED BY <1>1, <1>2, <1>3, Paid

\* One row less, which nothing refers to; or one profile in fewer fleets.
LEMMA FewerInLists ==
  ASSUME NEW d, NEW e, NEW n \in 1 .. 4, NEW b, NEW those,
         Present(d) \ {<<n, b>>} \subseteq Present(e), e.devices = d.devices,
         \A do \in DOMAIN Lists : \A x :
           /\ ListedIn(e, do, x) = IF do \in those THEN ListedIn(d, do, x) \ {b} ELSE ListedIn(d, do, x)
           /\ do \in those <=> Rank(do) = n
  PROVE  Fewer(d, e, {<<n, b>>})
<1>1. ASSUME NEW do \in DOMAIN Lists, NEW x
      PROVE  /\ \A y \in ListedIn(e, do, x) : y \in ListedIn(d, do, x) /\ <<Rank(do), y>> \notin {<<n, b>>}
             /\ \A y \in ListedIn(d, do, x) : y \in ListedIn(e, do, x) \/ <<Rank(do), y>> \in {<<n, b>>}
  <2>1. CASE do \in those
    <3>1. ListedIn(e, do, x) = ListedIn(d, do, x) \ {b} /\ Rank(do) = n BY <2>1
    <3> QED BY <3>1
  <2>2. CASE do \notin those
    <3>1. ListedIn(e, do, x) = ListedIn(d, do, x) /\ Rank(do) # n BY <2>2
    <3> QED BY <3>1
  <2> QED BY <2>1, <2>2
<1>2. \A f \in e.devices : f \in d.devices /\ <<5, f>> \notin {<<n, b>>} OBVIOUS
<1> QED BY <1>1, <1>2 DEF Fewer

\* A rollout is deleted.
LEMMA FewerRollouts ==
  ASSUME ProfileIInv, NEW b
  PROVE  Fewer(db, [db EXCEPT !.rollouts = @ \ {b}], {<<1, b>>})
<1> DEFINE e == [db EXCEPT !.rollouts = @ \ {b}]
<1>1. /\ e.rollouts = db.rollouts \ {b} /\ e.released = db.released /\ e.builds = db.builds
      /\ e.profiles = db.profiles /\ e.devices = db.devices /\ e.fleets = db.fleets
  BY DEF ProfileIInv, ProfileTyped, Tables
<1> HIDE DEF e
<1>2. Present(db) \ {<<1, b>>} \subseteq Present(e) BY <1>1 DEF Present
<1>3. ASSUME NEW do \in DOMAIN Lists, NEW x
      PROVE  /\ ListedIn(e, do, x) = IF do \in {"rolloutsIn", "rolloutsOf"} THEN ListedIn(db, do, x) \ {b}
                                     ELSE ListedIn(db, do, x)
             /\ do \in {"rolloutsIn", "rolloutsOf"} <=> Rank(do) = 1
  <2>1. CASE do = "rolloutsIn" BY <1>1, <2>1 DEF ListedIn, Rank
  <2>2. CASE do = "rolloutsOf" BY <1>1, <2>2 DEF ListedIn, Rank
  <2>3. CASE do \in {"releasesOf", "buildsIn", "buildsOf", "profilesIn"} BY <1>1, <2>3 DEF ListedIn, Rank
  <2> QED BY <2>1, <2>2, <2>3, ListNames
<1> DEFINE those == {"rolloutsIn", "rolloutsOf"}
<1>4. Fewer(db, e, {<<1, b>>})
  <2>1. \A do \in DOMAIN Lists : \A x :
          /\ ListedIn(e, do, x) = IF do \in those THEN ListedIn(db, do, x) \ {b} ELSE ListedIn(db, do, x)
          /\ do \in those <=> Rank(do) = 1
    BY <1>3
  <2> HIDE DEF those
  <2>2. 1 \in 1 .. 4 OBVIOUS
  <2> QED BY <1>1, <1>2, <2>1, <2>2, FewerInLists
<1> QED BY <1>4 DEF e

\* A release is deleted.
LEMMA FewerReleases ==
  ASSUME ProfileIInv, NEW b
  PROVE  Fewer(db, [db EXCEPT !.released = @ \ {b}], {<<2, b>>})
<1> DEFINE e == [db EXCEPT !.released = @ \ {b}]
<1>1. /\ e.rollouts = db.rollouts /\ e.released = db.released \ {b} /\ e.builds = db.builds
      /\ e.profiles = db.profiles /\ e.devices = db.devices /\ e.fleets = db.fleets
  BY DEF ProfileIInv, ProfileTyped, Tables
<1> HIDE DEF e
<1>2. Present(db) \ {<<2, b>>} \subseteq Present(e) BY <1>1 DEF Present
<1>3. ASSUME NEW do \in DOMAIN Lists, NEW x
      PROVE  /\ ListedIn(e, do, x) = IF do \in {"releasesOf"} THEN ListedIn(db, do, x) \ {b} ELSE ListedIn(db, do, x)
             /\ do \in {"releasesOf"} <=> Rank(do) = 2
  BY <1>1, ListNames DEF ListedIn, Rank
<1> DEFINE those == {"releasesOf"}
<1>4. Fewer(db, e, {<<2, b>>})
  <2>1. \A do \in DOMAIN Lists : \A x :
          /\ ListedIn(e, do, x) = IF do \in those THEN ListedIn(db, do, x) \ {b} ELSE ListedIn(db, do, x)
          /\ do \in those <=> Rank(do) = 2
    BY <1>3
  <2> HIDE DEF those
  <2>2. 2 \in 1 .. 4 OBVIOUS
  <2> QED BY <1>1, <1>2, <2>1, <2>2, FewerInLists
<1> QED BY <1>4 DEF e

\* A build is deleted that has no release.
LEMMA FewerBuilds ==
  ASSUME ProfileIInv, NEW b \in Builds, b \notin db.released
  PROVE  Fewer(db, [db EXCEPT !.builds[b] = None], {<<3, b>>})
<1> DEFINE e == [db EXCEPT !.builds[b] = None]
<1>1. /\ e.rollouts = db.rollouts /\ e.released = db.released
      /\ e.builds = [db.builds EXCEPT ![b] = None] /\ DOMAIN db.builds = Builds
      /\ e.profiles = db.profiles /\ e.devices = db.devices /\ e.fleets = db.fleets
      /\ b \notin db.rollouts
  BY DEF ProfileIInv, ProfileTyped, Tables, ForeignKeys
<1> HIDE DEF e
<1>2. e.builds[b] = None /\ \A a : a # b => e.builds[a] = db.builds[a] BY <1>1
<1>3. Present(db) \ {<<3, b>>} \subseteq Present(e) BY <1>1, <1>2 DEF Present
<1>4. ASSUME NEW do \in DOMAIN Lists, NEW x
      PROVE  /\ ListedIn(e, do, x) = IF do \in {"buildsIn", "buildsOf"} THEN ListedIn(db, do, x) \ {b}
                                     ELSE ListedIn(db, do, x)
             /\ do \in {"buildsIn", "buildsOf"} <=> Rank(do) = 3
  <2>1. do \in {"rolloutsIn", "rolloutsOf", "releasesOf", "buildsIn", "buildsOf", "profilesIn"} BY ListNames
  <2>2. CASE do = "rolloutsIn" BY <1>1, <1>2, <2>2 DEF ListedIn, Rank
  <2>3. CASE do = "rolloutsOf" BY <1>1, <2>3 DEF ListedIn, Rank
  <2>4. CASE do = "releasesOf" BY <1>1, <2>4 DEF ListedIn, Rank
  <2>5. CASE do = "buildsIn" BY <1>1, <1>2, <2>5 DEF ListedIn, Rank
  <2>6. CASE do = "buildsOf" BY <1>1, <1>2, <2>6 DEF ListedIn, Rank
  <2>7. CASE do = "profilesIn" BY <1>1, <2>7 DEF ListedIn, Rank
  <2> QED BY <2>1, <2>2, <2>3, <2>4, <2>5, <2>6, <2>7
<1> DEFINE those == {"buildsIn", "buildsOf"}
<1>5. Fewer(db, e, {<<3, b>>})
  <2>1. \A do \in DOMAIN Lists : \A x :
          /\ ListedIn(e, do, x) = IF do \in those THEN ListedIn(db, do, x) \ {b} ELSE ListedIn(db, do, x)
          /\ do \in those <=> Rank(do) = 3
    BY <1>4
  <2> HIDE DEF those
  <2>2. 3 \in 1 .. 4 OBVIOUS
  <2> QED BY <1>1, <1>3, <2>1, <2>2, FewerInLists
<1> QED BY <1>5 DEF e

\* A profile is deleted, or leaves a fleet.
LEMMA FewerProfiles ==
  ASSUME ProfileIInv, NEW p \in Profiles, NEW e, e.rollouts = db.rollouts, e.released = db.released,
         e.builds = db.builds, e.devices = db.devices, e.fleets = db.fleets,
         NEW new, e.profiles = [db.profiles EXCEPT ![p] = new],
         new # None => db.profiles[p] # None /\ new.fleets \subseteq db.profiles[p].fleets
  PROVE  /\ Fewer(db, e, {<<4, p>>})
         /\ \A x : new = None \/ x \notin new.fleets => \A y \in ListedIn(e, "profilesIn", x) : <<4, y>> \notin {<<4, p>>}
<1>1. DOMAIN db.profiles = Profiles
  BY DEF ProfileIInv, ProfileTyped, Tables
<1>2. e.profiles[p] = new /\ \A a : a # p => e.profiles[a] = db.profiles[a] BY <1>1
<1>3. Present(db) \ {<<4, p>>} \subseteq Present(e) BY <1>2 DEF Present
<1>4. ASSUME NEW x
      PROVE  /\ ListedIn(e, "profilesIn", x) \subseteq ListedIn(db, "profilesIn", x)
             /\ ListedIn(db, "profilesIn", x) \ ListedIn(e, "profilesIn", x) \subseteq {p}
             /\ new = None \/ x \notin new.fleets => p \notin ListedIn(e, "profilesIn", x)
  BY <1>2 DEF ListedIn
<1>5. ASSUME NEW do \in DOMAIN Lists, do # "profilesIn", NEW x
      PROVE  ListedIn(e, do, x) = ListedIn(db, do, x) /\ Rank(do) # 4
  <2>1. do \in {"rolloutsIn", "rolloutsOf", "releasesOf", "buildsIn", "buildsOf"} BY <1>5, ListNames
  <2> QED BY <2>1 DEF ListedIn, Rank
<1>6. Rank("profilesIn") = 4 BY DEF Rank
<1>7. ASSUME NEW do \in DOMAIN Lists, NEW x
      PROVE  /\ \A y \in ListedIn(e, do, x) :
                  y \in ListedIn(db, do, x) /\ (do # "profilesIn" => <<Rank(do), y>> \notin {<<4, p>>})
             /\ \A y \in ListedIn(db, do, x) : y \in ListedIn(e, do, x) \/ <<Rank(do), y>> \in {<<4, p>>}
  <2>1. CASE do = "profilesIn" BY <1>4, <1>6, <2>1
  <2>2. CASE do # "profilesIn" BY <1>5, <2>2
  <2> QED BY <2>1, <2>2
<1>8. \A f \in e.devices : f \in db.devices /\ <<5, f>> \notin {<<4, p>>} OBVIOUS
<1>9. Fewer(db, e, {<<4, p>>}) BY <1>3, <1>7, <1>8 DEF Fewer
<1> QED BY <1>4, <1>9

\* The devices of a fleet are deleted.
LEMMA FewerDevices ==
  ASSUME ProfileIInv, NEW f
  PROVE  Fewer(db, [db EXCEPT !.devices = @ \ {f}], {<<5, f>>})
<1> DEFINE e == [db EXCEPT !.devices = @ \ {f}]
<1>1. /\ e.rollouts = db.rollouts /\ e.released = db.released /\ e.builds = db.builds
      /\ e.profiles = db.profiles /\ e.devices = db.devices \ {f} /\ e.fleets = db.fleets
  BY DEF ProfileIInv, ProfileTyped, Tables
<1> HIDE DEF e
<1>2. Present(db) \ {<<5, f>>} \subseteq Present(e) BY <1>1 DEF Present
<1>3. ASSUME NEW do \in DOMAIN Lists, NEW x
      PROVE  ListedIn(e, do, x) = ListedIn(db, do, x) /\ Rank(do) # 5
  BY <1>1, ListNames DEF ListedIn, Rank
<1> QED BY <1>1, <1>2, <1>3 DEF Fewer, e

\* A fleet is deleted.
LEMMA FewerFleets ==
  ASSUME ProfileIInv, NEW f, NEW e, e.rollouts = db.rollouts, e.released = db.released, e.builds = db.builds,
         e.profiles = db.profiles, e.devices = db.devices, e.fleets = db.fleets \ {f}
  PROVE  Fewer(db, e, {<<6, f>>})
<1>1. Present(db) \ {<<6, f>>} \subseteq Present(e) BY DEF Present
<1>2. ASSUME NEW do \in DOMAIN Lists, NEW x
      PROVE  ListedIn(e, do, x) = ListedIn(db, do, x) /\ Rank(do) # 6
  BY ListNames DEF ListedIn, Rank
<1> QED BY <1>1, <1>2 DEF Fewer

-----------------------------------------------------------------------------
(* The steps of a deletion.                                                *)

\* A list is read, or one on it is gone through.
LEMMA ListQuiet == ASSUME QuietIInv, NEW h \in Handlers, List(h) PROVE AllUndisturbed'
<1>1. /\ req[h].step = "cascade" /\ Top(h).do \in DOMAIN Lists
      /\ GoOn(h, ListThen(Top(h), Rest(h)))
  BY DEF List
<1>2. /\ Top(h) \in CallData /\ Rest(h) \in Seq(CallData)
      /\ req[h].quiet => /\ Passable(db, req[h].on, RowsOf(db, req[h].on, Top(h)), Rest(h)) /\ NoSave(Rest(h))
                         /\ \A i \in DOMAIN Rest(h) : Before(db, req[h].on, Top(h), Rest(h)[i])
  BY <1>1, TopPasses
<1>3. ListThen(Top(h), Rest(h)) \in Seq(CallData) BY <1>1, <1>2, ListThenTyped DEF QuietIInv
<1>4. req[h].quiet => Passable(db, None, {}, ListThen(Top(h), Rest(h))) /\ NoSave(ListThen(Top(h), Rest(h)))
  BY <1>1, <1>2, ListPasses DEF QuietIInv
<1> QED BY <1>1, <1>3, <1>4, GoOnPasses

\* The calls for one row on a list.
LEMMA EachTyped ==
  ASSUME QuietIInv, NEW h \in Handlers, req[h].step = "cascade", NEW b \in Ids, NEW g \in Goes
  PROVE  LET t == <<Call(g[2], b)>> \o Others(h, b)
         IN  ListThen(Call(g[1], b), t) \in Seq(CallData) /\ <<Call(g[1], b)>> \o t \in Seq(CallData)
<1> DEFINE s == Others(h, b)
           l == Call(g[1], b)
           r == Call(g[2], b)
<1>1. /\ g[1] \in {"rolloutsOf", "releasesOf", "buildsOf"} /\ g[2] \in {"release", "build", "profile"}
      /\ g[1] \in DOMAIN Lists
  BY ListNames DEF Goes
<1>2. s \in Seq(CallData) BY OthersTyped DEF QuietIInv
<1>3. l \in CallData /\ r \in CallData BY <1>1, CallTyped
<1>4. l.do \in DOMAIN Lists BY <1>1 DEF Call
<1> HIDE DEF s, l, r
<1>5. <<r>> \o s \in Seq(CallData) BY <1>2, <1>3
<1> DEFINE t == <<r>> \o s
<1> HIDE DEF t
<1>6. t \in Seq(CallData) BY <1>5 DEF t
<1>7. ListThen(l, t) \in Seq(CallData) BY <1>3, <1>4, <1>6, ListThenTyped DEF QuietIInv
<1>8. <<l>> \o t \in Seq(CallData) BY <1>3, <1>6
<1> QED BY <1>7, <1>8 DEF t, s, l, r

\* What a loop goes through are ids.
LEMMA LoopIds ==
  ASSUME QuietIInv, NEW h \in Handlers, req[h].step = "cascade", NEW b \in Top(h).todo
  PROVE  b \in Ids /\ (Top(h).do = "profiles" => b \in Profiles)
BY TopPasses DEF CallData

\* A loop over releases or builds puts the calls for one of them first.
LEMMA EachQuiet == ASSUME QuietIInv, NEW h \in Handlers, EachRelease(h) \/ EachBuild(h) PROVE AllUndisturbed'
<1>1. req[h].step = "cascade" /\ Top(h).do \in {"releases", "builds"} BY DEF EachRelease, EachBuild, At
<1>2. ASSUME NEW b \in Top(h).todo, NEW g \in Goes, Rank(g[2]) = Rank(Top(h).do),
             GoOn(h, ListThen(Call(g[1], b), <<Call(g[2], b)>> \o Others(h, b)))
      PROVE  AllUndisturbed'
  <2> DEFINE calls == ListThen(Call(g[1], b), <<Call(g[2], b)>> \o Others(h, b))
  <2>1. b \in Ids BY <1>1, LoopIds
  <2>2. calls \in Seq(CallData) BY <1>1, <2>1, EachTyped
  <2>3. req[h].quiet => Passable(db, None, {}, calls) /\ NoSave(calls) BY <1>1, <1>2, <2>1, EachPasses
  <2>4. GoOn(h, calls) BY <1>2
  <2> HIDE DEF calls
  <2> QED BY <2>2, <2>3, <2>4, GoOnPasses
<1>3. CASE EachRelease(h)
  <2> DEFINE g == <<"rolloutsOf", "release">>
  <2>1. g \in Goes /\ g[1] = "rolloutsOf" /\ g[2] = "release" BY DEF Goes
  <2>2. Rank(g[2]) = Rank(Top(h).do) BY <1>3, <2>1 DEF EachRelease, At, Rank
  <2>3. PICK b \in Top(h).todo : GoOn(h, ListThen(Call("rolloutsOf", b), <<Call("release", b)>> \o Others(h, b)))
    BY <1>3 DEF EachRelease
  <2> QED BY <1>2, <2>1, <2>2, <2>3
<1>4. CASE EachBuild(h)
  <2> DEFINE g == <<"releasesOf", "build">>
  <2>1. g \in Goes /\ g[1] = "releasesOf" /\ g[2] = "build" BY DEF Goes
  <2>2. Rank(g[2]) = Rank(Top(h).do) BY <1>4, <2>1 DEF EachBuild, At, Rank
  <2>3. PICK b \in Top(h).todo : GoOn(h, ListThen(Call("releasesOf", b), <<Call("build", b)>> \o Others(h, b)))
    BY <1>4 DEF EachBuild
  <2> QED BY <1>2, <2>1, <2>2, <2>3
<1> QED BY <1>3, <1>4

\* A sequence with one more in front, and short ones written out.
LEMMA PutFirst ==
  ASSUME NEW CS, NEW a \in CS, NEW s \in Seq(CS), NEW u \in Seq(CS), Len(u) = Len(s) + 1, u[1] = a,
         \A i \in 1 .. Len(s) : u[i + 1] = s[i]
  PROVE  <<a>> \o s = u
<1> DEFINE v == <<a>> \o s
<1>1. v \in Seq(CS) /\ Len(v) = Len(s) + 1 /\ v[1] = a /\ \A i \in 1 .. Len(s) : v[i + 1] = s[i]
  OBVIOUS
<1> HIDE DEF v
<1>2. ASSUME NEW i \in 1 .. Len(v) PROVE v[i] = u[i]
  <2>1. CASE i = 1 BY <1>1, <2>1
  <2>2. CASE i # 1
    <3>1. i - 1 \in 1 .. Len(s) /\ (i - 1) + 1 = i BY <1>1, <2>2
    <3> QED BY <1>1, <3>1
  <2> QED BY <2>1, <2>2
<1>3. v = u BY <1>1, <1>2, SeqEqual
<1> QED BY <1>3 DEF v

\* One call, and one call before one to four others, as sequences.
LEMMA PutAlone ==
  ASSUME NEW CS, NEW a \in CS
  PROVE  <<a>> \o <<>> = <<a>>
<1>1. <<a>> \in Seq(CS) OBVIOUS
<1> QED BY <1>1, ConcatEmptySeq

LEMMA PutOne ==
  ASSUME NEW CS, NEW a \in CS, NEW b \in CS
  PROVE  <<a>> \o <<b>> = <<a, b>>
<1> DEFINE s == <<b>>
           u == <<a, b>>
<1>1. /\ s \in Seq(CS) /\ u \in Seq(CS) /\ Len(u) = Len(s) + 1 /\ u[1] = a
      /\ \A i \in 1 .. Len(s) : u[i + 1] = s[i]
  OBVIOUS
<1> HIDE DEF s, u
<1>2. <<a>> \o s = u BY <1>1, PutFirst
<1> QED BY <1>2 DEF s, u

LEMMA PutTwo ==
  ASSUME NEW CS, NEW a \in CS, NEW b \in CS, NEW c \in CS
  PROVE  <<a>> \o <<b, c>> = <<a, b, c>>
<1> DEFINE s == <<b, c>>
           u == <<a, b, c>>
<1>1. /\ s \in Seq(CS) /\ u \in Seq(CS) /\ Len(u) = Len(s) + 1 /\ u[1] = a
      /\ \A i \in 1 .. Len(s) : u[i + 1] = s[i]
  OBVIOUS
<1> HIDE DEF s, u
<1>2. <<a>> \o s = u BY <1>1, PutFirst
<1> QED BY <1>2 DEF s, u

LEMMA PutThree ==
  ASSUME NEW CS, NEW a \in CS, NEW b \in CS, NEW c \in CS, NEW d \in CS
  PROVE  <<a>> \o <<b, c, d>> = <<a, b, c, d>>
<1> DEFINE s == <<b, c, d>>
           u == <<a, b, c, d>>
<1>1. /\ s \in Seq(CS) /\ u \in Seq(CS) /\ Len(u) = Len(s) + 1 /\ u[1] = a
      /\ \A i \in 1 .. Len(s) : u[i + 1] = s[i]
  OBVIOUS
<1> HIDE DEF s, u
<1>2. <<a>> \o s = u BY <1>1, PutFirst
<1> QED BY <1>2 DEF s, u

LEMMA PutFour ==
  ASSUME NEW CS, NEW a \in CS, NEW b \in CS, NEW c \in CS, NEW d \in CS, NEW e \in CS
  PROVE  <<a>> \o <<b, c, d, e>> = <<a, b, c, d, e>>
<1> DEFINE s == <<b, c, d, e>>
           u == <<a, b, c, d, e>>
<1>1. /\ s \in Seq(CS) /\ u \in Seq(CS) /\ Len(u) = Len(s) + 1 /\ u[1] = a
      /\ \A i \in 1 .. Len(s) : u[i + 1] = s[i]
  OBVIOUS
<1> HIDE DEF s, u
<1>2. <<a>> \o s = u BY <1>1, PutFirst
<1> QED BY <1>2 DEF s, u

\* Two calls before others are one before the other.
LEMMA OneByOne ==
  ASSUME NEW CS, NEW a \in CS, NEW b \in CS, NEW s \in Seq(CS)
  PROVE  <<a, b>> \o s = <<a>> \o (<<b>> \o s)
<1>1. <<a>> \in Seq(CS) /\ <<b>> \in Seq(CS) OBVIOUS
<1>2. <<a, b>> = <<a>> \o <<b>> BY PutAlone, PutOne
<1> QED BY <1>1, <1>2, ConcatAssociative

\* A profile of the fleet has just been read: its save can be done, and leaves the
\* profile in the fleets it is in, but for this one.
LEMMA SavePushed ==
  ASSUME QuietIInv, NEW h \in Handlers, req[h].step = "cascade", req[h].quiet, Top(h).do = "profiles",
         NEW p \in Top(h).todo
  PROVE  /\ Passable(db, p, {}, <<Call("save", Top(h).of)>> \o Others(h, p))
         /\ Tail(<<Call("save", Top(h).of)>> \o Others(h, p)) = Others(h, p)
         /\ (<<Call("save", Top(h).of)>> \o Others(h, p))[1] = Call("save", Top(h).of)
         /\ NoSave(Others(h, p))
<1> DEFINE s == Others(h, p)
           f == Top(h).of
           c == Call("save", f)
<1>1. Rank(Top(h).do) = 4 BY DEF Rank
<1>2. /\ <<4, p>> \in Present(db) /\ Passable(db, None, {<<4, p>>}, s) /\ NoSave(s)
      /\ \A i \in DOMAIN s : /\ 4 <= Rank(s[i].do) /\ <<4, p>> \notin RowsOf(db, None, s[i])
                             /\ s[i].do = "fleet" => s[i].of = f
  BY <1>1, OthersPass
<1>3. s \in Seq(CallData) BY OthersTyped DEF QuietIInv
<1>4. c \in CallData /\ c.do = "save" /\ c.of = f
  <2>1. f \in Ids BY TopPasses
  <2> QED BY <2>1, CallTyped DEF Call
<1> HIDE DEF s, c, f
<1>5. RowsOf(db, p, c) = {<<4, p>>} /\ RefersTo(db, c) = {} /\ c.do \notin DOMAIN Lists /\ Rank(c.do) = 4
  BY <1>4, ListNames DEF RowsOf, RefersTo, Rank
<1>6. Passable(db, p, {} \cup RowsOf(db, p, c), s) BY <1>2, <1>5, OwedMore
<1>7. ASSUME NEW i \in DOMAIN s PROVE Before(db, p, c, s[i])
  <2>1. RowsOf(db, p, s[i]) = RowsOf(db, None, s[i]) BY <1>2, OnlySavesNameOn DEF NoSave
  <2> QED BY <1>2, <1>4, <1>5, <2>1 DEF Before
<1>8. Passable(db, p, {}, <<c>> \o s) BY <1>2, <1>3, <1>4, <1>5, <1>6, <1>7, Push
<1>9. Tail(<<c>> \o s) = s /\ (<<c>> \o s)[1] = c BY <1>3, <1>4, Pushed
<1> QED BY <1>2, <1>8, <1>9 DEF s, c, f

\* A loop over profiles: one is deleted with its builds, or is to be saved without the fleet.
LEMMA EachProfileQuiet == ASSUME QuietIInv, NEW h \in Handlers, EachProfile(h) PROVE AllUndisturbed'
<1> DEFINE f == Top(h).of
           Remaining(p) == removeString(GetProfileForEdit(p).fleets, f)
           DeleteIt(p) == GoOn(h, ListThen(Call("buildsOf", p), <<Call("profile", p)>> \o Others(h, p)))
           Saved(p) == [Left(h, <<Call("save", f)>> \o Others(h, p)) EXCEPT
                          !.on = p, !.original = GetProfileForEdit(p),
                          !.copy = [GetProfileForEdit(p) EXCEPT !.fleets = removeString(@, f)]]
           g == <<"buildsOf", "profile">>
<1>1. req[h].step = "cascade" /\ Top(h).do = "profiles" BY DEF EachProfile, At
<1>2. PICK p \in Top(h).todo :
          \/ DeleteIt(p)
          \/ db.profiles[p] = None /\ Fail(h)
          \/ GoOn(h, deleteProfileCascade(p) \o Others(h, p))
          \/ /\ db.profiles[p] # None
             /\ req' = [req EXCEPT ![h] = Saved(p)]
             /\ UNCHANGED db
  BY DEF EachProfile
<1>3. p \in Ids /\ p \in Profiles BY <1>1, LoopIds
<1>4. g \in Goes /\ g[1] = "buildsOf" /\ g[2] = "profile" /\ Rank(g[2]) = Rank(Top(h).do)
  BY <1>1 DEF Goes, Rank
<1> DEFINE t == <<Call("profile", p)>> \o Others(h, p)
<1>5. ListThen(Call("buildsOf", p), t) \in Seq(CallData) /\ <<Call("buildsOf", p)>> \o t \in Seq(CallData)
  BY <1>1, <1>3, <1>4, EachTyped
<1>6. req[h].quiet => /\ Passable(db, None, {}, ListThen(Call("buildsOf", p), t))
                      /\ NoSave(ListThen(Call("buildsOf", p), t))
                      /\ Passable(db, None, {}, <<Call("buildsOf", p)>> \o t) /\ NoSave(<<Call("buildsOf", p)>> \o t)
  BY <1>1, <1>3, <1>4, EachPasses
<1>7. CASE DeleteIt(p)
  <2> DEFINE calls == ListThen(Call("buildsOf", p), t)
  <2>1. GoOn(h, calls) /\ calls \in Seq(CallData) BY <1>5, <1>7
  <2>2. req[h].quiet => Passable(db, None, {}, calls) /\ NoSave(calls) BY <1>6
  <2> HIDE DEF calls
  <2> QED BY <2>1, <2>2, GoOnPasses
<1>8. CASE db.profiles[p] = None /\ Fail(h)
  <2>1. ~req[h].quiet
    <3> SUFFICES ASSUME req[h].quiet PROVE FALSE OBVIOUS
    <3>1. <<4, p>> \in Present(db) BY <1>1, OthersPass DEF Rank
    <3> QED BY <1>8, <3>1 DEF Present
  <2> QED BY <1>8, <2>1, DisturbedFails
<1>9. CASE GoOn(h, deleteProfileCascade(p) \o Others(h, p))
  <2> DEFINE calls == <<Call("buildsOf", p)>> \o t
  <2>1. Others(h, p) \in Seq(CallData) BY <1>1, OthersTyped DEF QuietIInv
  <2>2. deleteProfileCascade(p) \o Others(h, p) = calls
    <3> DEFINE a == Call("buildsOf", p)
               b == Call("profile", p)
               s == Others(h, p)
    <3>1. a \in CallData /\ b \in CallData BY <1>3, CallTyped
    <3>2. deleteProfileCascade(p) = <<a, b>> BY DEF deleteProfileCascade
    <3> HIDE DEF a, b, s
    <3>3. <<a, b>> \o s = <<a>> \o (<<b>> \o s) BY <2>1, <3>1, OneByOne DEF s
    <3> QED BY <3>2, <3>3 DEF a, b, s
  <2>3. GoOn(h, calls) /\ calls \in Seq(CallData) BY <1>5, <1>9, <2>2
  <2>4. req[h].quiet => Passable(db, None, {}, calls) /\ NoSave(calls) BY <1>6
  <2> HIDE DEF calls
  <2> QED BY <2>3, <2>4, GoOnPasses
<1>10. CASE db.profiles[p] # None /\ req' = [req EXCEPT ![h] = Saved(p)] /\ UNCHANGED db
  <2> DEFINE calls == <<Call("save", f)>> \o Others(h, p)
             copy == [GetProfileForEdit(p) EXCEPT !.fleets = removeString(@, f)]
  <2>1. Others(h, p) \in Seq(CallData) BY <1>1, OthersTyped DEF QuietIInv
  <2>2. calls # <<>> BY <2>1
  <2>3. GetProfileForEdit(p) \in ProfileData /\ GetProfileForEdit(p) = db.profiles[p]
    BY <1>3, <1>10, ProfileRead DEF QuietIInv, ProfileIInv, GetProfileForEdit
  <2>4. copy.fleets = db.profiles[p].fleets \ {f} /\ copy.name = db.profiles[p].name
    <3>1. \A r \in ProfileData : \A x : /\ [r EXCEPT !.fleets = removeString(@, x)].fleets = r.fleets \ {x}
                                        /\ [r EXCEPT !.fleets = removeString(@, x)].name = r.name
      BY DEF ProfileData, removeString
    <3> QED BY <2>3, <3>1
  <2>5. req[h].quiet => /\ Passable(db, p, {}, calls) /\ NoSave(Tail(calls)) /\ calls[1].of = f
    <3> HIDE DEF f
    <3>1. Call("save", f).of = f BY DEF Call
    <3> QED BY <1>1, <3>1, SavePushed DEF f
  <2>6. /\ Saved(p).step = "cascade" /\ Saved(p).quiet = req[h].quiet /\ Saved(p).on = p
        /\ Saved(p).calls = calls /\ Saved(p).copy = copy
    <3> HIDE DEF calls, copy
    <3>1. Left(h, calls) = [NoRequest EXCEPT !.step = "cascade", !.calls = calls, !.quiet = req[h].quiet]
      BY <2>2 DEF Left
    <3>2. Saved(p) = [Left(h, calls) EXCEPT !.on = p, !.original = GetProfileForEdit(p), !.copy = copy]
      BY DEF calls, copy
    <3> HIDE DEF Saved
    <3> QED BY <3>1, <3>2 DEF NoRequest
  <2> DEFINE mine == Saved(p)
  <2> HIDE DEF calls, copy, Saved
  <2>7. /\ mine.step = "cascade" /\ mine.quiet = req[h].quiet /\ mine.on = p
        /\ mine.calls = calls /\ mine.copy = copy
    BY <2>6
  <2> HIDE DEF mine
  <2>8. Undisturbed(db, mine)
    BY <1>3, <2>4, <2>5, <2>7 DEF Undisturbed, SaveIsFirst
  <2>9. req' = [req EXCEPT ![h] = mine] /\ db' = db BY <1>10 DEF mine
  <2> QED BY <2>8, <2>9, OneGoesOn
<1> QED BY <1>2, <1>7, <1>8, <1>9, <1>10

\* The profile leaves the fleet.
LEMMA SaveWithoutFleetQuiet == ASSUME QuietIInv, NEW h \in Handlers, SaveWithoutFleet(h) PROVE AllUndisturbed'
<1> DEFINE q == req[h]
           p == q.on
           new == q.copy
           e == [db EXCEPT !.profiles[p] = new]
           s == Rest(h)
           changed == {x \in Parts : db.profiles[p][x] # new[x]}
<1>1. req[h].step = "cascade" /\ Top(h).do = "save" BY DEF SaveWithoutFleet, At
<1>2. /\ Top(h) \in CallData /\ s \in Seq(CallData)
      /\ q.quiet => /\ Passable(db, p, RowsOf(db, p, Top(h)), s) /\ NoSave(s)
                    /\ \A i \in DOMAIN s : Before(db, p, Top(h), s[i])
                    /\ RowsOf(db, p, Top(h)) \subseteq Present(db)
  BY <1>1, TopPasses
<1>3. RowsOf(db, p, Top(h)) = {<<4, p>>} BY <1>1, ListNames DEF RowsOf, Rank
<1>4. q.quiet => /\ p \in Profiles /\ new.fleets \subseteq db.profiles[p].fleets \ {Top(h).of}
                 /\ new.name = db.profiles[p].name
  BY <1>1 DEF QuietIInv, AllUndisturbed, Undisturbed, SaveIsFirst, Top
<1>5. q.quiet => db.profiles[p] # None BY <1>2, <1>3 DEF Present
<1>6. ProfileIInv /\ ForeignKeys(db) BY DEF QuietIInv, ProfileIInv
<1>7. CASE CannotUpdate(h) /\ Fail(h)
  <2>1. ~q.quiet BY <1>4, <1>5, <1>6, <1>7 DEF CannotUpdate, ForeignKeys
  <2> QED BY <1>7, <2>1, DisturbedFails
<1>8. CASE UpdateProfileRow(h, Left(h, Rest(h)))
  <2>1. Write(h, Left(h, s), e, p, changed) BY <1>8 DEF UpdateProfileRow
  <2>2. q.quiet => Passable(e, None, {}, s) /\ NoSave(s)
    <3> SUFFICES ASSUME q.quiet PROVE Passable(e, None, {}, s) BY <1>2
    <3>1. /\ e.profiles = [db.profiles EXCEPT ![p] = new] /\ e.rollouts = db.rollouts /\ e.released = db.released
          /\ e.builds = db.builds /\ e.devices = db.devices /\ e.fleets = db.fleets
      BY <1>6 DEF ProfileIInv, ProfileTyped, Tables
    <3> HIDE DEF e, q, s, new, p
    <3>2. /\ Fewer(db, e, {<<4, p>>})
          /\ \A x : new = None \/ x \notin new.fleets => \A y \in ListedIn(e, "profilesIn", x) : <<4, y>> \notin {<<4, p>>}
      BY <1>4, <1>5, <1>6, <3>1, FewerProfiles
    <3>3. Top(h).of \notin new.fleets BY <1>4
    <3>4. \A i \in DOMAIN s : /\ RowsOf(db, p, s[i]) \cap {<<4, p>>} = {}
                              /\ s[i].do = "fleet" => s[i].of = Top(h).of
      BY <1>1, <1>2, <1>3 DEF Before, OutOf
    <3>5. Passable(db, p, {<<4, p>>}, s) /\ NoSave(s) BY <1>2, <1>3
    <3>6. \A i \in DOMAIN s : s[i].do = "fleet" => \A y \in ListedIn(e, "profilesIn", s[i].of) : <<4, y>> \notin {<<4, p>>}
      BY <3>2, <3>3, <3>4
    <3> QED BY <3>2, <3>4, <3>5, <3>6, FewerPasses
  <2> HIDE DEF e, s, changed
  <2>3. Undisturbed(e, Left(h, s)) BY <1>2, <2>2, LeftPasses
  <2> QED BY <2>1, <2>3, WriteDisturbs
<1>9. CASE NameIsTaken(h)
  BY <1>4, <1>9, BringerIsRefused DEF NameIsTaken
<1> QED BY <1>7, <1>8, <1>9 DEF SaveWithoutFleet

\* A row goes that nothing refers to any more.
LEMMA DeleteRolloutQuiet == ASSUME QuietIInv, NEW h \in Handlers, DeleteRollout(h) PROVE AllUndisturbed'
<1>1. req[h].step = "cascade" /\ Top(h).do = "rollouts" BY DEF DeleteRollout, At
<1>2. PICK b \in Top(h).todo : Remove(h, b \in db.rollouts, [db EXCEPT !.rollouts = @ \ {b}], Others(h, b))
  BY DEF DeleteRollout
<1> DEFINE e == [db EXCEPT !.rollouts = @ \ {b}]
           s == Others(h, b)
<1>3. s \in Seq(CallData) BY <1>1, OthersTyped DEF QuietIInv
<1>4. ASSUME req[h].quiet
      PROVE  /\ <<1, b>> \in Present(db) /\ Passable(db, None, {<<1, b>>}, s) /\ NoSave(s)
             /\ \A i \in DOMAIN s : RowsOf(db, None, s[i]) \cap {<<1, b>>} = {}
  <2>1. Rank(Top(h).do) = 1 BY <1>1 DEF Rank
  <2> QED BY <1>1, <1>4, <2>1, OthersPass
<1>5. req[h].quiet => b \in db.rollouts BY <1>4 DEF Present
<1>6. Remove(h, b \in db.rollouts, e, s) BY <1>2
<1>7. Fewer(db, e, {<<1, b>>}) BY FewerRollouts DEF QuietIInv
<1> HIDE DEF e, s
<1>8. req[h].quiet => Passable(e, None, {}, s) /\ NoSave(s)
  <2> SUFFICES ASSUME req[h].quiet PROVE Passable(e, None, {}, s) BY <1>4
  <2>1. \A y : <<4, y>> \notin {<<1, b>>} OBVIOUS
  <2> QED BY <1>4, <1>7, <2>1, FewerPasses
<1> QED BY <1>3, <1>5, <1>6, <1>8, RemovePasses

\* What a row that is there, and what no row that refers to it, mean.
LEMMA RowThere ==
  ASSUME NEW d, NEW x
  PROVE  /\ <<2, x>> \in Present(d) => x \in d.released
         /\ <<3, x>> \in Present(d) => x \in Builds /\ d.builds[x] # None
         /\ <<4, x>> \in Present(d) => x \in Profiles /\ d.profiles[x] # None
         /\ <<6, x>> \in Present(d) => x \in d.fleets
BY DEF Present

\* When no row refers to the one a call deletes, the foreign keys allow it.
LEMMA NoneRefers ==
  ASSUME NEW d, NEW c, RefersTo(d, c) = {}
  PROVE  /\ c.do = "release" => c.of \notin d.rollouts
         /\ c.do = "build" => c.of \notin d.released
         /\ c.do = "profile" => ListedIn(d, "buildsOf", c.of) = {}
         /\ c.do = "fleet" => /\ ListedIn(d, "buildsIn", c.of) = {} /\ ListedIn(d, "profilesIn", c.of) = {}
                              /\ c.of \notin d.devices
<1>1. ASSUME c.do = "release", c.of \in d.rollouts PROVE FALSE
  <2>1. c.of \in ListedIn(d, "rolloutsOf", c.of) BY <1>1 DEF ListedIn
  <2>2. <<1, c.of>> \in RefersTo(d, c) BY <1>1, <2>1 DEF RefersTo
  <2> QED BY <2>2
<1>2. ASSUME c.do = "build", c.of \in d.released PROVE FALSE
  <2>1. c.of \in ListedIn(d, "releasesOf", c.of) BY <1>2 DEF ListedIn
  <2>2. <<2, c.of>> \in RefersTo(d, c) BY <1>2, <2>1 DEF RefersTo
  <2> QED BY <2>2
<1>3. ASSUME c.do = "profile", NEW y \in ListedIn(d, "buildsOf", c.of) PROVE FALSE
  <2>1. <<3, y>> \in RefersTo(d, c) BY <1>3 DEF RefersTo
  <2> QED BY <2>1
<1>4. ASSUME c.do = "fleet", NEW y \in ListedIn(d, "buildsIn", c.of) PROVE FALSE
  <2>1. <<3, y>> \in RefersTo(d, c) BY <1>4 DEF RefersTo
  <2> QED BY <2>1
<1>5. ASSUME c.do = "fleet", NEW y \in ListedIn(d, "profilesIn", c.of) PROVE FALSE
  <2>1. <<4, y>> \in RefersTo(d, c) BY <1>5 DEF RefersTo
  <2> QED BY <2>1
<1>6. ASSUME c.do = "fleet", c.of \in d.devices PROVE FALSE
  <2>1. <<5, c.of>> \in RefersTo(d, c) BY <1>6 DEF RefersTo
  <2> QED BY <2>1
<1> QED BY <1>1, <1>2, <1>3, <1>4, <1>5, <1>6

\* The first of the calls deletes what it is about, and the others can still be made.
LEMMA RowPasses ==
  ASSUME QuietIInv, NEW h \in Handlers, req[h].step = "cascade", Top(h).do \in Rows,
         NEW e, NEW possible, Remove(h, possible, e, Rest(h)),
         <<Rank(Top(h).do), Top(h).of>> \in Present(db) /\ RefersTo(db, Top(h)) = {} =>
           /\ possible /\ Fewer(db, e, {<<Rank(Top(h).do), Top(h).of>>})
           /\ \A x : \A y \in ListedIn(e, "profilesIn", x) : <<4, y>> # <<Rank(Top(h).do), Top(h).of>>
  PROVE  AllUndisturbed'
<1> DEFINE x == Top(h).of
           n == Rank(Top(h).do)
           s == Rest(h)
           on == req[h].on
<1>1. RowsOf(db, on, Top(h)) = {<<n, x>>} BY ListNames DEF RowsOf, Rows
<1>2. /\ s \in Seq(CallData)
      /\ req[h].quiet =>
           /\ Passable(db, on, {<<n, x>>}, s) /\ NoSave(s)
           /\ \A i \in DOMAIN s : Before(db, on, Top(h), s[i])
           /\ <<n, x>> \in Present(db) /\ RefersTo(db, Top(h)) = {}
  BY <1>1, TopPasses
<1>3. req[h].quiet => possible BY <1>2
<1>4. req[h].quiet => Passable(e, None, {}, s) /\ NoSave(s)
  <2> SUFFICES ASSUME req[h].quiet PROVE Passable(e, None, {}, s) BY <1>2
  <2>1. \A i \in DOMAIN s : RowsOf(db, on, s[i]) \cap {<<n, x>>} = {}
    BY <1>1, <1>2 DEF Before
  <2>2. Fewer(db, e, {<<n, x>>}) BY <1>2
  <2>3. \A z : \A y \in ListedIn(e, "profilesIn", z) : <<4, y>> \notin {<<n, x>>} BY <1>2
  <2> HIDE DEF x, n, s, on
  <2> QED BY <1>2, <2>1, <2>2, <2>3, FewerPasses
<1> HIDE DEF s
<1>5. Remove(h, possible, e, s) BY DEF s
<1> QED BY <1>2, <1>3, <1>4, <1>5, RemovePasses

\* A row is deleted at the end of its cascade: there is one, and nothing refers to it.
LEMMA DeleteRowQuiet ==
  ASSUME QuietIInv, NEW h \in Handlers,
         DeleteReleaseRow(h) \/ DeleteBuildRow(h) \/ DeleteProfileRow(h) \/ DeleteDevicesByFleet(h) \/ DeleteFleetRow(h)
  PROVE  AllUndisturbed'
<1> DEFINE x == Top(h).of
           Row(n) == <<n, x>> \in Present(db) /\ RefersTo(db, Top(h)) = {}
           Gone(e, n) == Fewer(db, e, {<<n, x>>}) /\ \A z : \A y \in ListedIn(e, "profilesIn", z) : <<4, y>> # <<n, x>>
<1>1. req[h].step = "cascade" /\ Top(h).do \in Rows
  BY DEF DeleteReleaseRow, DeleteBuildRow, DeleteProfileRow, DeleteDevicesByFleet, DeleteFleetRow, At, Rows
<1>2. ProfileIInv /\ db \in Tables BY DEF QuietIInv, ProfileIInv, ProfileTyped
<1>3. ASSUME NEW n, n = Rank(Top(h).do), NEW e, NEW possible, Remove(h, possible, e, Rest(h)),
             Row(n) => possible /\ Gone(e, n)
      PROVE  AllUndisturbed'
  BY <1>1, <1>3, RowPasses
<1>4. \A e : \A n \in {2, 3, 5, 6} : \A z : \A y \in ListedIn(e, "profilesIn", z) : <<4, y>> # <<n, x>>
  OBVIOUS
<1>5. {"profilesIn", "buildsIn", "buildsOf"} \subseteq DOMAIN Lists BY ListNames
<1>6. CASE DeleteReleaseRow(h)
  <2> DEFINE e == [db EXCEPT !.released = @ \ {x}]
  <2>1. Top(h).do = "release" /\ Rank(Top(h).do) = 2 BY <1>6 DEF DeleteReleaseRow, At, Rank
  <2>2. Remove(h, x \in db.released /\ x \notin db.rollouts, e, Rest(h)) BY <1>6 DEF DeleteReleaseRow
  <2>3. Row(2) => x \in db.released /\ x \notin db.rollouts BY <2>1, RowThere, NoneRefers
  <2>4. Fewer(db, e, {<<2, x>>}) BY <1>2, FewerReleases
  <2> HIDE DEF e, Row
  <2>5. Gone(e, 2) BY <1>4, <2>4
  <2> HIDE DEF Gone
  <2> QED BY <1>3, <2>1, <2>2, <2>3, <2>5
<1>7. CASE DeleteBuildRow(h)
  <2> DEFINE e == [db EXCEPT !.builds[x] = None]
  <2>1. Top(h).do = "build" /\ Rank(Top(h).do) = 3 BY <1>7 DEF DeleteBuildRow, At, Rank
  <2>2. Remove(h, db.builds[x] # None /\ x \notin db.released, e, Rest(h)) BY <1>7 DEF DeleteBuildRow
  <2>3. Row(3) => x \in Builds /\ db.builds[x] # None /\ x \notin db.released BY <2>1, RowThere, NoneRefers
  <2>4. Row(3) => Fewer(db, e, {<<3, x>>}) BY <1>2, <2>3, FewerBuilds
  <2> HIDE DEF e, Row
  <2>5. Row(3) => Gone(e, 3) BY <1>4, <2>4
  <2> HIDE DEF Gone
  <2> QED BY <1>3, <2>1, <2>2, <2>3, <2>5
<1>8. CASE DeleteProfileRow(h)
  <2> DEFINE e == [db EXCEPT !.profiles[x] = None, !.access = @ \ {x}]
  <2>1. Top(h).do = "profile" /\ Rank(Top(h).do) = 4 BY <1>8 DEF DeleteProfileRow, At, Rank
  <2>2. Remove(h, db.profiles[x] # None /\ Listed("buildsOf", x) = {}, e, Rest(h)) BY <1>8 DEF DeleteProfileRow
  <2>3. Listed("buildsOf", x) = ListedIn(db, "buildsOf", x) BY <1>5, ListedNow
  <2>4. Row(4) => x \in Profiles /\ db.profiles[x] # None /\ Listed("buildsOf", x) = {}
    BY <2>1, <2>3, RowThere, NoneRefers
  <2>5. /\ e.rollouts = db.rollouts /\ e.released = db.released /\ e.builds = db.builds
        /\ e.devices = db.devices /\ e.fleets = db.fleets /\ e.profiles = [db.profiles EXCEPT ![x] = None]
    BY <1>2 DEF Tables
  <2> HIDE DEF e, Row
  <2>6. Row(4) => Gone(e, 4)
    <3> SUFFICES ASSUME Row(4) PROVE Gone(e, 4) OBVIOUS
    <3>1. x \in Profiles BY <2>4
    <3>2. /\ Fewer(db, e, {<<4, x>>})
          /\ \A z : \A y \in ListedIn(e, "profilesIn", z) : <<4, y>> \notin {<<4, x>>}
      <4> HIDE DEF x
      <4> QED BY <1>2, <2>5, <3>1, FewerProfiles
    <3> QED BY <3>2
  <2> HIDE DEF Gone
  <2> QED BY <1>3, <2>1, <2>2, <2>4, <2>6
<1>9. CASE DeleteDevicesByFleet(h)
  <2> DEFINE e == [db EXCEPT !.devices = @ \ {x}]
  <2>1. Top(h).do = "devices" /\ Rank(Top(h).do) = 5 BY <1>9 DEF DeleteDevicesByFleet, At, Rank
  <2>2. Remove(h, TRUE, e, Rest(h)) BY <1>9 DEF DeleteDevicesByFleet
  <2>3. Fewer(db, e, {<<5, x>>}) BY <1>2, FewerDevices
  <2> HIDE DEF e, Row
  <2>4. Gone(e, 5) BY <1>4, <2>3
  <2> HIDE DEF Gone
  <2> QED BY <1>3, <2>1, <2>2, <2>4
<1>10. CASE DeleteFleetRow(h)
  <2> DEFINE e == [db EXCEPT !.fleets = @ \ {x}, !.access = @ \ {x}]
             possible == x \in db.fleets \ db.devices /\ Listed("profilesIn", x) = {} /\ Listed("buildsIn", x) = {}
  <2>1. Top(h).do = "fleet" /\ Rank(Top(h).do) = 6 BY <1>10 DEF DeleteFleetRow, At, Rank
  <2>2. Remove(h, possible, e, Rest(h)) BY <1>10 DEF DeleteFleetRow
  <2>3. Row(6) => possible
    <3>1. Listed("profilesIn", x) = ListedIn(db, "profilesIn", x) /\ Listed("buildsIn", x) = ListedIn(db, "buildsIn", x)
      BY <1>5, ListedNow
    <3> QED BY <2>1, <3>1, RowThere, NoneRefers
  <2>4. /\ e.rollouts = db.rollouts /\ e.released = db.released /\ e.builds = db.builds
        /\ e.profiles = db.profiles /\ e.devices = db.devices /\ e.fleets = db.fleets \ {x}
    BY <1>2 DEF Tables
  <2> HIDE DEF e, Row
  <2>5. Fewer(db, e, {<<6, x>>}) BY <1>2, <2>4, FewerFleets
  <2>6. Gone(e, 6) BY <1>4, <2>5
  <2> HIDE DEF Gone
  <2> QED BY <1>3, <2>1, <2>2, <2>3, <2>6
<1> QED BY <1>6, <1>7, <1>8, <1>9, <1>10

-----------------------------------------------------------------------------
(* Requests that are received.                                             *)

\* A deletion begins with calls that can be made in the tables it finds.
LEMMA NoCalls ==
  /\ \A d, owed : Passable(d, None, owed, <<>>)
  /\ NoSave(<<>>) /\ <<>> \in Seq(CallData)
BY DEF Passable, NoSave

\* The cascade that starts from one row.
LEMMA RowCascade ==
  ASSUME NEW g \in Goes, NEW x \in Ids, <<Rank(g[2]), x>> \in Present(db)
  PROVE  /\ Passable(db, None, {}, <<Call(g[1], x), Call(g[2], x)>>)
         /\ NoSave(<<Call(g[1], x), Call(g[2], x)>>)
<1> DEFINE l == Call(g[1], x)
           r == Call(g[2], x)
           t == <<r>> \o <<>>
<1>1. /\ g[1] \in {"rolloutsOf", "releasesOf", "buildsOf"} /\ g[2] \in {"release", "build", "profile"}
      /\ g[1] \in DOMAIN Lists
  BY ListNames DEF Goes
<1>2. /\ l \in CallData /\ l.do = g[1] /\ l.of = x /\ r \in CallData
      /\ l.do # "save" /\ l.do \notin OutOf
  BY <1>1, CallTyped DEF Call, OutOf
<1>3. Passable(db, None, {<<Rank(g[2]), x>>}, <<>>) /\ NoSave(<<>>) /\ <<>> \in Seq(CallData) BY NoCalls
<1>4. \A c \in CallData :
        /\ c.do \in CallNames /\ c.do # "save" /\ Rank(c.do) = Rank(g[1]) /\ c.do \notin OutOf
        /\ RowsOf(db, None, c) = {Rank(g[1])} \X ListedIn(db, g[1], x)
        /\ RefersTo(db, c) = {}
        => Passable(db, None, {}, <<c>> \o t) /\ NoSave(<<c>> \o t)
  <2>1. \A i \in DOMAIN (<<>>) : FALSE OBVIOUS
  <2> QED BY <1>3, <2>1, RowGoes
<1> HIDE DEF t, l, r
<1>5. RowsOf(db, None, l) = {Rank(g[1])} \X ListedIn(db, g[1], x) BY <1>1, <1>2, ListedThere
<1>6. RefersTo(db, l) = {} BY <1>1, <1>2 DEF RefersTo
<1>7. l.do \in CallNames BY <1>2 DEF CallData
<1>8. Passable(db, None, {}, <<l>> \o t) /\ NoSave(<<l>> \o t) BY <1>2, <1>4, <1>5, <1>6, <1>7
<1>9. <<l>> \o t = <<l, r>>
  <2>1. t = <<r>> BY <1>2, PutAlone, PutOne DEF t
  <2> QED BY <1>2, <2>1, PutAlone, PutOne
<1> QED BY <1>8, <1>9 DEF l, r

\* The cascade of a fleet: rollouts, builds, profiles, devices, and the fleet itself.
LEMMA FleetCascade ==
  ASSUME ProfileIInv, NEW f \in db.fleets
  PROVE  Passable(db, None, {}, deleteFleetCascade(f)) /\ NoSave(deleteFleetCascade(f))
<1> DEFINE c1 == Call("rolloutsIn", f)
           c2 == Call("buildsIn", f)
           c3 == Call("profilesIn", f)
           c4 == Call("devices", f)
           c5 == Call("fleet", f)
           R2 == {3} \X ListedIn(db, "buildsIn", f)
           R3 == {4} \X ListedIn(db, "profilesIn", f)
           R4 == {<<5, f>>}
<1>1. f \in Fleets /\ f \in Ids BY DEF ProfileIInv, ProfileTyped, Tables, Ids
<1>2. /\ c1 \in CallData /\ c2 \in CallData /\ c3 \in CallData /\ c4 \in CallData /\ c5 \in CallData
      /\ c1.do = "rolloutsIn" /\ c2.do = "buildsIn" /\ c3.do = "profilesIn" /\ c4.do = "devices" /\ c5.do = "fleet"
      /\ c1.of = f /\ c2.of = f /\ c3.of = f /\ c4.of = f /\ c5.of = f
  BY <1>1, CallTyped DEF Call
<1> HIDE DEF c1, c2, c3, c4, c5
<1>3. /\ Rank(c1.do) = 1 /\ Rank(c2.do) = 3 /\ Rank(c3.do) = 4 /\ Rank(c4.do) = 5 /\ Rank(c5.do) = 6
      /\ c1.do \in DOMAIN Lists /\ c2.do \in DOMAIN Lists /\ c3.do \in DOMAIN Lists
      /\ c4.do \notin DOMAIN Lists /\ c5.do \notin DOMAIN Lists
      /\ c1.do \notin OutOf /\ c2.do \notin OutOf /\ c4.do \notin OutOf /\ c5.do \notin OutOf
      /\ c1.do \in CallNames /\ c2.do \in CallNames /\ c3.do \in CallNames /\ c4.do \in CallNames /\ c5.do \in CallNames
  BY <1>2, ListNames DEF Rank, OutOf, CallNames, Rows
<1>4. /\ RowsOf(db, None, c2) = R2 /\ RowsOf(db, None, c3) = R3 /\ RowsOf(db, None, c4) = R4
      /\ RowsOf(db, None, c5) = {<<6, f>>}
      /\ RefersTo(db, c1) = {} /\ RefersTo(db, c2) = {} /\ RefersTo(db, c3) = {} /\ RefersTo(db, c4) = {}
      /\ RefersTo(db, c5) \subseteq (R2 \cup R3) \cup R4
  <2>1. RowsOf(db, None, c2) = R2 /\ RowsOf(db, None, c3) = R3 BY <1>2, <1>3, ListedThere
  <2>2. RowsOf(db, None, c4) = R4 /\ RowsOf(db, None, c5) = {<<6, f>>} BY <1>2, <1>3 DEF RowsOf
  <2>3. RefersTo(db, c1) = {} /\ RefersTo(db, c2) = {} /\ RefersTo(db, c3) = {} /\ RefersTo(db, c4) = {}
    BY <1>2 DEF RefersTo
  <2>4. RefersTo(db, c5) \subseteq (R2 \cup R3) \cup R4 BY <1>2 DEF RefersTo
  <2> QED BY <2>1, <2>2, <2>3, <2>4
<1>5. /\ RowsOf(db, None, c1) \subseteq Present(db) /\ R2 \subseteq Present(db) /\ R3 \subseteq Present(db)
      /\ R4 \subseteq Present(db) /\ {<<6, f>>} \subseteq Present(db)
  <2>1. /\ RowsOf(db, None, c1) \subseteq Present(db) /\ RowsOf(db, None, c2) \subseteq Present(db)
        /\ RowsOf(db, None, c3) \subseteq Present(db)
    BY <1>3, ListedThere
  <2>2. R4 \subseteq Present(db) /\ {<<6, f>>} \subseteq Present(db) BY <1>1 DEF Present
  <2> QED BY <1>4, <2>1, <2>2
<1> HIDE DEF R2, R3, R4
<1>6. /\ Before(db, None, c4, c5) /\ Before(db, None, c2, c3) /\ Before(db, None, c2, c4) /\ Before(db, None, c2, c5)
      /\ Before(db, None, c1, c2) /\ Before(db, None, c1, c3) /\ Before(db, None, c1, c4) /\ Before(db, None, c1, c5)
  BY <1>3, BeforeOthers
<1>7. Before(db, None, c3, c4) /\ Before(db, None, c3, c5)
  <2>1. RowsOf(db, None, c3) \cap RowsOf(db, None, c4) = {} /\ RowsOf(db, None, c3) \cap RowsOf(db, None, c5) = {}
    BY <1>3, RowsRank
  <2> QED BY <1>2, <1>3, <2>1 DEF Before
<1>c. /\ <<c5>> \o <<>> = <<c5>> /\ <<c4>> \o <<c5>> = <<c4, c5>> /\ <<c3>> \o <<c4, c5>> = <<c3, c4, c5>>
      /\ <<c2>> \o <<c3, c4, c5>> = <<c2, c3, c4, c5>> /\ <<c1>> \o <<c2, c3, c4, c5>> = <<c1, c2, c3, c4, c5>>
  <2>1. <<c5>> \o <<>> = <<c5>> BY <1>2, PutAlone
  <2>2. <<c4>> \o <<c5>> = <<c4, c5>> BY <1>2, PutOne
  <2>3. <<c3>> \o <<c4, c5>> = <<c3, c4, c5>> BY <1>2, PutTwo
  <2>4. <<c2>> \o <<c3, c4, c5>> = <<c2, c3, c4, c5>> BY <1>2, PutThree
  <2>5. <<c1>> \o <<c2, c3, c4, c5>> = <<c1, c2, c3, c4, c5>> BY <1>2, PutFour
  <2> QED BY <2>1, <2>2, <2>3, <2>4, <2>5
<1> DEFINE s4 == <<c5>>
           s3 == <<c4, c5>>
           s2 == <<c3, c4, c5>>
           s1 == <<c2, c3, c4, c5>>
           s0 == <<c1, c2, c3, c4, c5>>
<1>8. Passable(db, None, (R2 \cup R3) \cup R4, s4)
  <2>1. Passable(db, None, (R2 \cup R3) \cup R4 \cup RowsOf(db, None, c5), <<>>) /\ <<>> \in Seq(CallData)
    BY NoCalls
  <2>2. Passable(db, None, (R2 \cup R3) \cup R4, <<c5>> \o <<>>)
    <3> DEFINE owed == (R2 \cup R3) \cup R4
               s == <<>>
    <3>1. /\ s \in Seq(CallData) /\ Passable(db, None, owed \cup RowsOf(db, None, c5), s)
          /\ \A i \in DOMAIN s : Before(db, None, c5, s[i])
          /\ RefersTo(db, c5) \subseteq owed /\ RowsOf(db, None, c5) \subseteq Present(db)
      BY <1>4, <1>5, <2>1
    <3> HIDE DEF owed, s
    <3>2. Passable(db, None, owed, <<c5>> \o s) BY <1>2, <3>1, Push
    <3> QED BY <3>2 DEF owed, s
  <2>3. <<c5>> \o <<>> = s4 BY <1>2, PutAlone, PutOne
  <2> HIDE DEF s4
  <2> QED BY <2>2, <2>3
<1>9. Passable(db, None, R2 \cup R3, s3)
  <2>1. s4 \in Seq(CallData) /\ \A i \in DOMAIN s4 : s4[i] = c5 BY <1>2
  <2>2. <<c4>> \o s4 = s3 BY <1>c
  <2> HIDE DEF s3, s4
  <2>3. \A i \in DOMAIN s4 : Before(db, None, c4, s4[i]) BY <1>6, <2>1
  <2>4. Passable(db, None, R2 \cup R3, <<c4>> \o s4)
    <3>1. RefersTo(db, c4) \subseteq R2 \cup R3 /\ RowsOf(db, None, c4) \subseteq Present(db)
          /\ Passable(db, None, (R2 \cup R3) \cup RowsOf(db, None, c4), s4)
      BY <1>4, <1>5, <1>8
    <3> QED BY <1>2, <2>1, <2>3, <3>1, Push
  <2> QED BY <2>2, <2>4
<1>10. Passable(db, None, R2, s2)
  <2>1. s3 \in Seq(CallData) /\ \A i \in DOMAIN s3 : s3[i] = c4 \/ s3[i] = c5 BY <1>2
  <2>2. <<c3>> \o s3 = s2 BY <1>c
  <2> HIDE DEF s2, s3
  <2>3. \A i \in DOMAIN s3 : Before(db, None, c3, s3[i]) BY <1>7, <2>1
  <2>4. Passable(db, None, R2, <<c3>> \o s3)
    <3>1. RefersTo(db, c3) \subseteq R2 /\ RowsOf(db, None, c3) \subseteq Present(db)
          /\ Passable(db, None, R2 \cup RowsOf(db, None, c3), s3)
      BY <1>4, <1>5, <1>9
    <3> QED BY <1>2, <2>1, <2>3, <3>1, Push
  <2> QED BY <2>2, <2>4
<1>11. Passable(db, None, {}, s1)
  <2>1. s2 \in Seq(CallData) /\ \A i \in DOMAIN s2 : s2[i] = c3 \/ s2[i] = c4 \/ s2[i] = c5 BY <1>2
  <2>2. <<c2>> \o s2 = s1 BY <1>c
  <2> HIDE DEF s1, s2
  <2>3. \A i \in DOMAIN s2 : Before(db, None, c2, s2[i]) BY <1>6, <2>1
  <2>4. Passable(db, None, {}, <<c2>> \o s2)
    <3>1. RefersTo(db, c2) \subseteq {} /\ RowsOf(db, None, c2) \subseteq Present(db)
          /\ Passable(db, None, {} \cup RowsOf(db, None, c2), s2)
      BY <1>4, <1>5, <1>10
    <3> QED BY <1>2, <2>1, <2>3, <3>1, Push
  <2> QED BY <2>2, <2>4
<1>12. Passable(db, None, {}, s0)
  <2>1. s1 \in Seq(CallData) /\ \A i \in DOMAIN s1 : s1[i] = c2 \/ s1[i] = c3 \/ s1[i] = c4 \/ s1[i] = c5 BY <1>2
  <2>2. <<c1>> \o s1 = s0 BY <1>c
  <2> HIDE DEF s0, s1
  <2>3. \A i \in DOMAIN s1 : Before(db, None, c1, s1[i]) BY <1>6, <2>1
  <2>4. NoSave(s1) BY <1>2, <2>1 DEF NoSave
  <2>5. Passable(db, None, {} \cup RowsOf(db, None, c1), s1) BY <1>11, <2>4, OwedMore
  <2>6. RefersTo(db, c1) \subseteq {} BY <1>4
  <2>7. Passable(db, None, {}, <<c1>> \o s1) BY <1>2, <1>5, <2>1, <2>3, <2>5, <2>6, Push
  <2> QED BY <2>2, <2>7
<1>13. NoSave(s0)
  <2>1. \A i \in DOMAIN s0 : s0[i] \in {c1, c2, c3, c4, c5} OBVIOUS
  <2> HIDE DEF s0
  <2> QED BY <1>2, <2>1 DEF NoSave
<1>14. deleteFleetCascade(f) = s0 BY DEF deleteFleetCascade, c1, c2, c3, c4, c5
<1> HIDE DEF s0
<1> QED BY <1>12, <1>13, <1>14

\* A deletion that begins.
LEMMA DeleteBegins ==
  ASSUME QuietIInv, NEW h \in Handlers, NEW calls \in Seq(CallData), calls # <<>>, Delete(h, calls),
         Passable(db, None, {}, calls), NoSave(calls)
  PROVE  AllUndisturbed'
<1> DEFINE mine == [NoRequest EXCEPT !.step = "cascade", !.calls = calls]
<1>1. mine.step = "cascade" /\ mine.calls = calls /\ mine.on = None BY DEF NoRequest
<1>2. req' = [req EXCEPT ![h] = mine] /\ db' = db BY DEF Delete, Receive
<1> HIDE DEF mine
<1>3. NoSave(Tail(calls)) /\ calls[1].do # "save"
  <2>1. /\ DOMAIN Tail(calls) = 1 .. Len(calls) - 1 /\ DOMAIN calls = 1 .. Len(calls)
        /\ Len(calls) \in Nat /\ Len(calls) >= 1
        /\ \A i \in DOMAIN Tail(calls) : Tail(calls)[i] = calls[i + 1] /\ i + 1 \in DOMAIN calls
    OBVIOUS
  <2>2. 1 \in DOMAIN calls BY <2>1
  <2> QED BY <2>1, <2>2 DEF NoSave
<1>4. Undisturbed(db, mine) BY <1>1, <1>3 DEF Undisturbed, SaveIsFirst
<1> QED BY <1>2, <1>4, OneGoesOn

\* A deletion begins with a cascade that can be gone through.
LEMMA DeleteQuiet ==
  ASSUME QuietIInv, NEW h \in Handlers,
         DeleteFleet(h) \/ DeleteProfile(h) \/ DeleteProfileBuild(h) \/ DeleteProfileRelease(h)
  PROVE  AllUndisturbed'
<1>1. ProfileIInv /\ db \in Tables BY DEF QuietIInv, ProfileIInv, ProfileTyped
<1>2. ASSUME NEW g \in Goes, NEW x \in Ids, <<Rank(g[2]), x>> \in Present(db),
             Delete(h, <<Call(g[1], x), Call(g[2], x)>>), <<Call(g[1], x), Call(g[2], x)>> \in Seq(CallData)
      PROVE  AllUndisturbed'
  <2> DEFINE calls == <<Call(g[1], x), Call(g[2], x)>>
  <2>1. Passable(db, None, {}, calls) /\ NoSave(calls) BY <1>2, RowCascade
  <2>2. calls # <<>> OBVIOUS
  <2>3. calls \in Seq(CallData) /\ Delete(h, calls) BY <1>2
  <2> HIDE DEF calls
  <2> QED BY <2>1, <2>2, <2>3, DeleteBegins
<1>3. CASE DeleteFleet(h)
  <2>1. PICK f \in Fleets : UserCanManageFleet(f) /\ Delete(h, deleteFleetCascade(f)) BY <1>3 DEF DeleteFleet
  <2>2. f \in db.fleets BY <2>1 DEF UserCanManageFleet
  <2>3. deleteFleetCascade(f) \in Seq(CallData) /\ deleteFleetCascade(f) # <<>> BY CallTyped
  <2> QED BY <1>1, <2>1, <2>2, <2>3, FleetCascade, DeleteBegins
<1>4. CASE DeleteProfile(h)
  <2> DEFINE g == <<"buildsOf", "profile">>
  <2>1. PICK p \in MyProfiles : Delete(h, deleteProfileCascade(p)) BY <1>4 DEF DeleteProfile
  <2>2. p \in Profiles /\ db.profiles[p] # None /\ p \in Ids
    BY DEF MyProfiles, resolveProfileAccessContext, GetProfileForEdit, Ids
  <2>3. g \in Goes /\ g[1] = "buildsOf" /\ g[2] = "profile" /\ Rank(g[2]) = 4 BY DEF Goes, Rank
  <2>4. <<4, p>> \in Present(db) BY <2>2 DEF Present
  <2>5. deleteProfileCascade(p) \in Seq(CallData) /\ deleteProfileCascade(p) = <<Call("buildsOf", p), Call("profile", p)>>
    BY <2>2, CallTyped DEF deleteProfileCascade
  <2> HIDE DEF g
  <2> QED BY <1>2, <2>1, <2>2, <2>3, <2>4, <2>5
<1>5. CASE DeleteProfileBuild(h)
  <2> DEFINE g == <<"releasesOf", "build">>
  <2>1. PICK b \in Builds : db.builds[b] # None /\ Delete(h, deleteBuildCascade(b)) BY <1>5 DEF DeleteProfileBuild
  <2>2. g \in Goes /\ g[1] = "releasesOf" /\ g[2] = "build" /\ Rank(g[2]) = 3 BY DEF Goes, Rank
  <2>3. <<3, b>> \in Present(db) /\ b \in Ids BY <2>1 DEF Present, Ids
  <2>4. deleteBuildCascade(b) \in Seq(CallData) /\ deleteBuildCascade(b) = <<Call("releasesOf", b), Call("build", b)>>
    BY CallTyped DEF deleteBuildCascade
  <2> HIDE DEF g
  <2> QED BY <1>2, <2>1, <2>2, <2>3, <2>4
<1>6. CASE DeleteProfileRelease(h)
  <2> DEFINE g == <<"rolloutsOf", "release">>
  <2>1. PICK b \in db.released : Delete(h, deleteReleaseCascade(b)) BY <1>6 DEF DeleteProfileRelease
  <2>2. g \in Goes /\ g[1] = "rolloutsOf" /\ g[2] = "release" /\ Rank(g[2]) = 2 BY DEF Goes, Rank
  <2>3. <<2, b>> \in Present(db) /\ b \in Ids /\ b \in Builds BY <1>1 DEF Present, Tables, Ids
  <2>4. deleteReleaseCascade(b) \in Seq(CallData) /\ deleteReleaseCascade(b) = <<Call("rolloutsOf", b), Call("release", b)>>
    BY <2>3, CallTyped DEF deleteReleaseCascade
  <2> HIDE DEF g
  <2> QED BY <1>2, <2>1, <2>2, <2>3, <2>4
<1> QED BY <1>3, <1>4, <1>5, <1>6

-----------------------------------------------------------------------------
(* Edits, and the wizard.                                                  *)

\* A request that edits a profile finds the profile and the fleets it names, and keeps
\* its name or brings another.
LEMMA EditQuiet ==
  ASSUME QuietIInv, NEW h \in Handlers, NEW p \in Profiles, NEW new, new.fleets \subseteq db.fleets,
         Edit(h, p, GetProfileForEdit(p), new)
  PROVE  AllUndisturbed'
<1> DEFINE mine == [NoRequest EXCEPT !.step = "save", !.on = p, !.original = GetProfileForEdit(p), !.copy = new]
<1>1. mine.step = "save" /\ mine.on = p /\ mine.copy = new /\ mine.original = db.profiles[p]
  BY DEF NoRequest, GetProfileForEdit
<1>2. req' = [req EXCEPT ![h] = mine] /\ db' = db /\ db.profiles[p] # None
  BY DEF Edit, Receive, resolveProfileAccessContext, GetProfileForEdit
<1> HIDE DEF mine
<1>3. KeepsName(db, mine) BY <1>1 DEF KeepsName, BringsName
<1>4. Undisturbed(db, mine) BY <1>1, <1>2, <1>3 DEF Undisturbed
<1> QED BY <1>2, <1>4, OneGoesOn

\* The fleets of a profile are there.
LEMMA FleetsThere ==
  ASSUME ProfileIInv, NEW p \in Profiles, GetProfileForEdit(p) # None
  PROVE  GetProfileForEdit(p) \in ProfileData /\ GetProfileForEdit(p).fleets \subseteq db.fleets
BY ProfileRead DEF ProfileIInv, ForeignKeys, GetProfileForEdit

\* A form keeps the fleets of the profile, or names ones the user has access to.
LEMMA FormQuiet ==
  ASSUME QuietIInv, NEW h \in Handlers, NEW p \in Profiles,
         \/ AddProfilePackage(h, p) \/ RemoveProfilePackage(h, p) \/ UpdateProfileKernel(h, p)
         \/ UpdateProfileSecurity(h, p) \/ UpdateProfileOpenClaw(h, p) \/ UpdateProfileRawNix(h, p)
         \/ UpdateProfileForeignImports(h, p) \/ UpdateProfile(h, p)
  PROVE  AllUndisturbed'
<1> DEFINE old == GetProfileForEdit(p)
<1>1. old # None
  BY DEF AddProfilePackage, RemoveProfilePackage, UpdateProfileKernel, UpdateProfileSecurity,
         UpdateProfileOpenClaw, UpdateProfileRawNix, UpdateProfileForeignImports, UpdateProfile
<1>2. old \in ProfileData /\ old.fleets \subseteq db.fleets
  BY <1>1, FleetsThere DEF QuietIInv
<1>3. CASE UpdateProfile(h, p)
  <2>1. PICK F \in selectedFleetIDsFromForm, v \in Contents : Edit(h, p, old, [old EXCEPT !.fleets = F, !.name = v])
    BY <1>3 DEF UpdateProfile
  <2>2. F \subseteq db.fleets
    BY <2>1 DEF selectedFleetIDsFromForm, ensureUserCanManageFleetIDs, UserCanManageFleet
  <2> HIDE DEF old
  <2>3. [old EXCEPT !.fleets = F, !.name = v].fleets = F
    BY <1>2 DEF ProfileData
  <2> QED BY <2>1, <2>2, <2>3, EditQuiet DEF old
<1>4. CASE ~UpdateProfile(h, p)
  <2>1. PICK new \in {profileConfigWithPackages(old, 1), profileConfigWithPackages(old, 0),
                      profileConfigWithKernel(old, 1 - old.kernel),
                      profileConfigWithSecurity(old, 1 - old.security),
                      profileConfigWithOpenclawMicrovmEnabled(old, 1 - old.openclaw),
                      [old EXCEPT !.raw = 1 - @], [old EXCEPT !.imports = 1 - @]} : Edit(h, p, old, new)
    BY <1>4 DEF AddProfilePackage, RemoveProfilePackage, UpdateProfileKernel, UpdateProfileSecurity,
           UpdateProfileOpenClaw, UpdateProfileRawNix, UpdateProfileForeignImports
  <2> HIDE DEF old
  <2>2. new.fleets = old.fleets
    BY <1>2, <2>1 DEF ProfileData, profileConfigWithPackages, profileConfigWithKernel,
       profileConfigWithSecurity, profileConfigWithOpenclawMicrovmEnabled
  <2> QED BY <1>2, <2>1, <2>2, EditQuiet DEF old
<1> QED BY <1>3, <1>4

\* The API leaves the fleets of a profile as they are.
LEMMA APIQuiet ==
  ASSUME QuietIInv, NEW h \in Handlers, NEW p \in Profiles, APIReplaceProfile(h, p) \/ APIPatchProfile(h, p)
  PROVE  AllUndisturbed'
<1> DEFINE old == GetProfileForEdit(p)
<1>1. old # None
  BY DEF APIReplaceProfile, APIPatchProfile, handleAPIProfileMutation
<1>2. old.fleets \subseteq db.fleets
  BY <1>1, FleetsThere DEF QuietIInv
<1>3. PICK fields : Edit(h, p, old, buildAPIProfileReplaceInput(old, fields))
                    \/ Edit(h, p, old, buildAPIProfilePatchInput(old, fields))
  BY DEF APIReplaceProfile, APIPatchProfile, handleAPIProfileMutation
<1> HIDE DEF old
<1>4. \A config : buildAPIProfileMutationInput(old, config, fields).fleets = old.fleets
  BY DEF buildAPIProfileMutationInput, Parts, ConfigParts
<1>5. /\ buildAPIProfileReplaceInput(old, fields).fleets = old.fleets
      /\ buildAPIProfilePatchInput(old, fields).fleets = old.fleets
  BY <1>4 DEF buildAPIProfileReplaceInput, buildAPIProfilePatchInput
<1> QED BY <1>2, <1>3, <1>5, EditQuiet DEF old

\* A new profile, or build: the form has named fleets that are there.
LEMMA CreateQuiet ==
  ASSUME QuietIInv, NEW h \in Handlers,
         CreateProfile(h) \/ \E p \in Profiles, f \in Fleets : CreateProfileBuild(h, p, f)
  PROVE  AllUndisturbed'
<1>1. CASE CreateProfile(h)
  <2>1. PICK F \in selectedFleetIDsFromForm :
          Receive(h, [NoRequest EXCEPT !.step = "save", !.copy.fleets = F])
    BY <1>1 DEF CreateProfile
  <2> DEFINE mine == [NoRequest EXCEPT !.step = "save", !.copy.fleets = F]
  <2>2. mine.step = "save" /\ mine.on = None /\ mine.copy.fleets = F BY DEF NoRequest, Blank
  <2>3. F \subseteq db.fleets
    BY DEF selectedFleetIDsFromForm, ensureUserCanManageFleetIDs, UserCanManageFleet
  <2>4. req' = [req EXCEPT ![h] = mine] /\ db' = db BY <2>1 DEF Receive
  <2> HIDE DEF mine
  <2>5. Undisturbed(db, mine) BY <2>2, <2>3, NoneAssumption DEF Undisturbed
  <2> QED BY <2>4, <2>5, OneGoesOn
<1>2. ASSUME NEW p \in Profiles, NEW f \in Fleets, CreateProfileBuild(h, p, f) PROVE AllUndisturbed'
  <2> DEFINE mine == [NoRequest EXCEPT !.step = "insert", !.on = p, !.fleet = f]
  <2>1. mine.step = "insert" /\ mine.on = p /\ mine.fleet = f BY DEF NoRequest
  <2>2. req' = [req EXCEPT ![h] = mine] /\ db' = db BY <1>2 DEF CreateProfileBuild, Receive
  <2>3. db.profiles[p] # None /\ f \in db.fleets \cap db.profiles[p].fleets
    BY <1>2 DEF CreateProfileBuild, resolveProfileAccessContext, GetProfileForEdit, fleetsAssignedToProfile,
       getProfileFleetAssignments, ListFleetsForUser, UserCanManageFleet
  <2> HIDE DEF mine
  <2>4. Undisturbed(db, mine) BY <2>1, <2>3 DEF Undisturbed
  <2> QED BY <2>2, <2>4, OneGoesOn
<1> QED BY <1>1, <1>2

\* The wizard: the fleets of a draft are there when it is applied.
LEMMA WizardQuiet ==
  ASSUME QuietIInv, NEW h \in Handlers, NEW p \in Profiles \cup {None},
         ProfileWizardChat(h, p) \/ ProfileWizardApply(h, p)
  PROVE  AllUndisturbed'
<1> DEFINE state == prepareProfileWizardState(p)
<1>1. CASE ProfileWizardChat(h, p)
  <2> DEFINE mine == [NoRequest EXCEPT !.step = "chat", !.on = p, !.original = state.original, !.copy = state.copy,
                                       !.stale = state.stale]
  <2>1. mine.step = "chat" BY DEF NoRequest
  <2>2. req' = [req EXCEPT ![h] = mine] /\ db' = db BY <1>1 DEF ProfileWizardChat, Receive
  <2> HIDE DEF mine
  <2>3. Undisturbed(db, mine) BY <2>1 DEF Undisturbed
  <2> QED BY <2>2, <2>3, OneGoesOn
<1>2. CASE ProfileWizardApply(h, p)
  <2> DEFINE step == IF p = None THEN "save" ELSE "imports"
             mine == [NoRequest EXCEPT !.step = step, !.on = p, !.wizard = TRUE, !.original = state.original,
                                       !.copy = state.copy, !.stale = state.stale]
  <2>1. mine.step \in {"save", "imports"} /\ mine.on = p /\ mine.copy = state.copy /\ mine.wizard = TRUE
    BY DEF NoRequest
  <2>2. req' = [req EXCEPT ![h] = mine] /\ db' = db BY <1>2 DEF ProfileWizardApply, Receive
  <2>3. state.copy.fleets \subseteq db.fleets
    BY <1>2 DEF ProfileWizardApply, validateProfileWizardDraft, ListFleetsForUser, UserCanManageFleet
  <2>4. p \in Profiles => db.profiles[p] # None
    BY <1>2, NoneAssumption DEF ProfileWizardApply, MayUseWizard, resolveProfileAccessContext, GetProfileForEdit
  <2> HIDE DEF mine, state
  <2>5. Undisturbed(db, mine) BY <2>1, <2>3, <2>4 DEF Undisturbed, KeepsName, BringsName
  <2> QED BY <2>2, <2>5, OneGoesOn
<1> QED BY <1>1, <1>2

-----------------------------------------------------------------------------
(* Saves, and requests of one statement.                                   *)

\* The imports are read again, of the same profile for the same fleets.
LEMMA PreserveImportsQuiet == ASSUME QuietIInv, NEW h \in Handlers, PreserveImports(h) PROVE AllUndisturbed'
<1> DEFINE q == req[h]
           p == q.on
           k1 == IF GetProfileForEdit(p) = None THEN q.original.imports ELSE GetProfileForEdit(p).imports
           k2 == IF GetProfileForEdit(p) = None THEN q.copy.imports ELSE GetProfileForEdit(p).imports
           copy == [q.copy EXCEPT !.imports = k2]
           mine == [q EXCEPT !.step = "save", !.original = [q.original EXCEPT !.imports = k1],
                             !.copy = copy, !.stale = q.stale \ {"imports"}]
<1>1. q \in RequestData /\ q.step = "imports" /\ q.copy \in ProfileData /\ q.original \in ProfileData
  BY DEF PreserveImports, QuietIInv, ProfileIInv, ProfileTyped, RequestData
<1>2. req' = [req EXCEPT ![h] = mine] /\ db' = db
  <2>1. req' = [req EXCEPT ![h].step = "save", ![h].original.imports = k1, ![h].copy.imports = k2,
                           ![h].stale = q.stale \ {"imports"}] /\ db' = db
    BY DEF PreserveImports
  <2> HIDE DEF k1, k2
  <2> QED BY <1>1, <2>1 DEF QuietIInv, ProfileIInv, ProfileTyped, RequestData
<1>3. /\ mine.step = "save" /\ mine.on = q.on /\ mine.quiet = q.quiet /\ mine.copy = copy
      /\ mine.wizard = q.wizard /\ mine.original.name = q.original.name
      /\ copy.fleets = q.copy.fleets /\ copy.name = q.copy.name
  <2> HIDE DEF k1, k2
  <2> QED BY <1>1 DEF RequestData, ProfileData
<1> HIDE DEF mine, copy
<1>4. Undisturbed(db, q) BY DEF QuietIInv, AllUndisturbed
<1>5. KeepsName(db, q) => KeepsName(db, mine) BY <1>1, <1>3 DEF KeepsName, BringsName
<1>6. Undisturbed(db, mine) BY <1>1, <1>3, <1>4, <1>5 DEF Undisturbed
<1> QED BY <1>2, <1>6, OneGoesOn

\* A save or an insert that nobody has disturbed can be done.
LEMMA SaveQuiet ==
  ASSUME QuietIInv, NEW h \in Handlers, Save(h) \/ CreateProfileRow(h) \/ CreateBuild(h)
  PROVE  AllUndisturbed'
<1>1. req[h] \in RequestData /\ Undisturbed(db, req[h])
  BY DEF QuietIInv, ProfileIInv, ProfileTyped, AllUndisturbed
<1>2. ASSUME NEW new, NEW p, NEW parts, Write(h, NoRequest, new, p, parts) PROVE AllUndisturbed'
  BY <1>2, NothingToRelyOn, WriteDisturbs
<1>3. CASE Save(h)
  <2>1. req[h].step = "save" /\ req[h].on \in Profiles BY <1>1, <1>3 DEF Save, RequestData
  <2>2. CASE UpdateProfileRow(h, NoRequest) BY <1>2, <2>2 DEF UpdateProfileRow
  <2>3. CASE CannotUpdate(h) /\ Fail(h)
    <3>1. ~req[h].quiet BY <1>1, <2>1, <2>3 DEF CannotUpdate, Undisturbed
    <3> QED BY <2>3, <3>1, DisturbedFails
  <2>4. CASE NameIsTaken(h)
    <3>1. req[h].quiet => BringsName(req[h]) BY <1>1, <2>1, <2>4 DEF NameIsTaken, Undisturbed, KeepsName
    <3> QED BY <2>4, <3>1, BringerIsRefused DEF NameIsTaken
  <2> QED BY <1>3, <2>2, <2>3, <2>4 DEF Save
<1>4. CASE CreateProfileRow(h)
  <2>1. CASE ~(req[h].copy.fleets \subseteq db.fleets) /\ Fail(h)
    <3>1. req[h].step = "save" BY <1>4 DEF CreateProfileRow
    <3>2. ~req[h].quiet BY <1>1, <2>1, <3>1 DEF Undisturbed
    <3> QED BY <2>1, <3>2, DisturbedFails
  <2>2. CASE Refuse(h)
    <3>1. BringsName(req[h]) BY <1>4 DEF CreateProfileRow, BringsName
    <3> QED BY <2>2, <3>1, BringerIsRefused
  <2>3. CASE ~(~(req[h].copy.fleets \subseteq db.fleets) /\ Fail(h)) /\ ~Refuse(h)
    BY <1>2, <1>4, <2>3 DEF CreateProfileRow
  <2> QED BY <2>1, <2>2, <2>3
<1>5. CASE CreateBuild(h)
  <2> DEFINE p == req[h].on
             f == req[h].fleet
             Gone == \/ db.profiles[p] = None \/ f \notin db.fleets
                     \/ db.profiles[p] # None /\ f \notin getProfileFleetAssignments(p)
  <2>1. req[h].step = "insert" BY <1>5 DEF CreateBuild
  <2>2. CASE Gone /\ Fail(h)
    <3>1. ~req[h].quiet BY <1>1, <2>1, <2>2 DEF Undisturbed, getProfileFleetAssignments
    <3> QED BY <2>2, <3>1, DisturbedFails
  <2>3. CASE Refuse(h)
    <3>1. BringsName(req[h]) BY <2>1 DEF BringsName
    <3> QED BY <2>3, <3>1, BringerIsRefused
  <2>4. CASE ~(Gone /\ Fail(h)) /\ ~Refuse(h)
    BY <1>2, <1>5, <2>4 DEF CreateBuild
  <2> QED BY <2>2, <2>3, <2>4
<1> QED BY <1>3, <1>4, <1>5

\* A request is answered, or the assistant's answer comes.
LEMMA AnswerQuiet == ASSUME QuietIInv, NEW h \in Handlers, ResolveDraft(h) \/ Answer(h) PROVE AllUndisturbed'
BY NothingToRelyOn, OneGoesOn DEF ResolveDraft, Answer

\* A request of one statement disturbs those in flight.
LEMMA SingleQuiet ==
  ASSUME QuietIInv, NEW new, Single(new)
  PROVE  AllUndisturbed'
BY NothingToRelyOn, WriteDisturbs DEF Single

\* A row or an access is created, given or taken.
LEMMA RowRequestQuiet ==
  ASSUME QuietIInv,
         \/ CreateFleet \/ ClaimEnrollment \/ AddFleetUser \/ RemoveFleetUser \/ AddProfileUser \/ RemoveProfileUser
         \/ \E p \in Profiles : CreateProfileRelease(p) \/ CreateProfileRollout(p) \/ DeleteProfileRollout(p)
  PROVE  AllUndisturbed'
<1>1. CASE CreateFleet \/ ClaimEnrollment BY <1>1, SingleQuiet DEF CreateFleet, ClaimEnrollment
<1>2. CASE AddFleetUser \/ RemoveFleetUser
  BY <1>2, SingleQuiet DEF AddFleetUser, RemoveFleetUser, GrantFleetViewer, RevokeFleetViewer
<1>3. CASE AddProfileUser \/ RemoveProfileUser
  BY <1>3, SingleQuiet DEF AddProfileUser, RemoveProfileUser, GrantProfileViewer, RevokeProfileViewer
<1>4. CASE \E p \in Profiles : CreateProfileRelease(p) \/ CreateProfileRollout(p) \/ DeleteProfileRollout(p)
  BY <1>4, SingleQuiet DEF CreateProfileRelease, CreateProfileRollout, DeleteProfileRollout, CreateRelease,
     CreateRollout
<1> QED BY <1>1, <1>2, <1>3, <1>4

-----------------------------------------------------------------------------
(* The theorem about requests that nobody disturbs.                        *)

\* At the start there are no requests.
LEMMA QuietInit == ProfileInit => QuietIInv
<1> SUFFICES ASSUME ProfileInit PROVE QuietIInv OBVIOUS
<1>1. req = [h \in Handlers |-> NoRequest] BY DEF ProfileInit
<1> QED BY <1>1, ProfileInitInv, NothingToRelyOn DEF QuietIInv, AllUndisturbed

\* Every step of Profiles keeps what undisturbed requests rely on.
LEMMA QuietStep == QuietIInv /\ [ProfileNext]_profileVars => QuietIInv'
<1> SUFFICES ASSUME QuietIInv, [ProfileNext]_profileVars PROVE AllUndisturbed'
  BY ProfileStepInv DEF QuietIInv
<1>1. CASE UNCHANGED profileVars
  BY <1>1 DEF profileVars, QuietIInv, AllUndisturbed
<1>2. ASSUME NEW h \in Handlers, Saving(h) PROVE AllUndisturbed'
  BY <1>2, SaveQuiet, PreserveImportsQuiet, AnswerQuiet DEF Saving
<1>3. ASSUME NEW h \in Handlers, Deleting(h) PROVE AllUndisturbed'
  BY <1>3, ListQuiet, EachQuiet, EachProfileQuiet, SaveWithoutFleetQuiet, DeleteRolloutQuiet, DeleteRowQuiet
     DEF Deleting
<1>4. ASSUME NEW h \in Handlers, NEW p \in Profiles,
             \/ AddProfilePackage(h, p) \/ RemoveProfilePackage(h, p) \/ UpdateProfileKernel(h, p)
             \/ UpdateProfileSecurity(h, p) \/ UpdateProfileOpenClaw(h, p) \/ UpdateProfileRawNix(h, p)
             \/ UpdateProfileForeignImports(h, p) \/ UpdateProfile(h, p)
             \/ APIReplaceProfile(h, p) \/ APIPatchProfile(h, p)
             \/ \E f \in Fleets : CreateProfileBuild(h, p, f)
      PROVE  AllUndisturbed'
  BY <1>4, FormQuiet, APIQuiet, CreateQuiet
<1>5. ASSUME NEW h \in Handlers,
             \/ CreateProfile(h)
             \/ \E p \in Profiles \cup {None} : ProfileWizardChat(h, p) \/ ProfileWizardApply(h, p)
             \/ DeleteFleet(h) \/ DeleteProfile(h) \/ DeleteProfileBuild(h) \/ DeleteProfileRelease(h)
             \/ Saving(h) \/ Deleting(h) \/ Answer(h)
      PROVE  AllUndisturbed'
  BY <1>2, <1>3, <1>5, CreateQuiet, WizardQuiet, DeleteQuiet, AnswerQuiet
<1>6. ASSUME NEW p \in Profiles \cup {None}, ProfileWizardPage(p) \/ ProfileWizardDiscard(p) PROVE AllUndisturbed'
  BY <1>6 DEF ProfileWizardPage, ProfileWizardDiscard, QuietIInv, AllUndisturbed
<1> QED BY <1>1, <1>4, <1>5, <1>6, RowRequestQuiet DEF ProfileNext

\* A request that nobody else's write came between does not fail on its way, unless it
\* brings a name or a version that is taken: the order of the calls of a deletion is
\* one the foreign keys allow, whatever rows and however many there are, and what it
\* saves keeps its name. A deletion that failed half-way can be repeated.
THEOREM QuietRequestsSucceed == ProfileSpec => []NoQuietFailure
<1>1. QuietIInv => NoQuietFailure
  BY DEF QuietIInv, AllUndisturbed, Undisturbed, NoQuietFailure
<1> QED BY <1>1, QuietInit, QuietStep, PTL DEF ProfileSpec

-----------------------------------------------------------------------------
(* The components together, as MCControlPlane composes them.               *)

\* Whichever component moves, each of them does what its specification says or
\* nothing: what is proved of one holds of the whole.
THEOREM ComponentsImplemented == Spec => AccountSpec /\ ProfileSpec /\ BootKeySpec /\ LogSpec
<1>1. Init => AccountInit /\ ProfileInit /\ BootKeyInit /\ LogInit
  BY DEF Init
<1>2. [Next]_vars => /\ [AccountNext]_accountVars /\ [ProfileNext]_profileVars
                     /\ [BootKeyNext]_bootKeyVars /\ [LogNext]_logVars
  BY DEF Next, vars
<1> QED BY <1>1, <1>2, PTL DEF Spec, AccountSpec, ProfileSpec, BootKeySpec, LogSpec

\* Every reachable state of the control plane is of the declared types.
THEOREM ControlPlaneTyped == Spec => []TypeOK
<1>1. AccountTypeOK /\ ProfileTypeOK /\ BootKeyTypeOK /\ LogTypeOK => TypeOK
  BY DEF TypeOK
<1> QED BY <1>1, ComponentsImplemented, AccountsTyped, ProfilesTyped, BootKeyTyped, LogsTyped, PTL

\* Whichever component moves, what is promised of each of them holds.
THEOREM ControlPlaneSafe ==
  Spec => [](/\ OneAdmin /\ InviteServesItsUser /\ EditSurvives /\ NoQuietFailure
             /\ OneKeyPerProfile /\ LogIsWhole)
BY ComponentsImplemented, OneAdministrator, InvitesServe, EditsSurvive, QuietRequestsSucceed, SoleKey,
   LogShownWhole, PTL

=============================================================================
