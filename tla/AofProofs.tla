----------------------------- MODULE AofProofs -----------------------------
(***************************************************************************)
(* The log of Aof is complete and the open file is the one the manifest    *)
(* names, for any number of commands, rewrites and kills.                  *)
(***************************************************************************)
EXTENDS Aof, SequenceTheorems, TLAPS

\* Where the files are: the manifest names the current file, until a swap
\* empties it, and the file that is open, if there is one, is the current one.
FilesOK ==
    /\ swap \in {"idle", "buffered"} => manifest = current_seq
    /\ swap \in {"truncated", "down"} => manifest = Empty
    /\ swap # "down" => aof_fd \in {Closed, current_seq}
    /\ swap = "down" => aof_fd = Closed /\ ~rewriting
    /\ manifest # Empty => files[manifest].snapshot = "whole"

\* How a rewrite stands: its file is the next one, and holds the snapshot once
\* the child is done, followed by the buffer once a swap has begun.
RewriteOK ==
    /\ rewriting <=> child.state # "none"
    /\ rewriting => child.seq = current_seq + 1
    /\ swap \in {"buffered", "truncated"} => child.state = "ok"
    /\ child.state = "ok" =>
         /\ files[child.seq].snapshot = "whole"
         /\ files[child.seq].cmds = IF swap = "idle" THEN child.image ELSE child.image \o buffer

\* What the files hold: the log is the keyspace, and so are the snapshot and
\* the buffer of a rewrite together.
ContentsOK ==
    /\ queued # <<>> => gap
    /\ ~gap /\ manifest # Empty => files[manifest].cmds = applied
    /\ ~gap /\ rewriting => child.image \o buffer = applied

Inv == TypeOK /\ FilesOK /\ RewriteOK /\ ContentsOK

\* What appending to the buffer does to a snapshot followed by it.
LEMMA AppendBehind ==
    \A s, t \in Seq(Writes), x \in Writes : s \o Append(t, x) = Append(s \o t, x)
<1> TAKE s, t \in Seq(Writes), x \in Writes
<1>1. s \o t \in Seq(Writes)
  BY ConcatProperties
<1>2. <<x>> \in Seq(Writes)
  OBVIOUS
<1>3. Append(s \o t, x) = (s \o t) \o <<x>> /\ Append(t, x) = t \o <<x>>
  BY <1>1, AppendIsConcat
<1> QED
  BY <1>2, <1>3, ConcatAssociative

\* What the child makes of its file.
LEMMA FileUpdates ==
    /\ EmptyFile \in File
    /\ [EmptyFile EXCEPT !.snapshot = "partial"] \in File
    /\ \A f \in File, c \in Seq(Writes) : [f EXCEPT !.cmds = c, !.snapshot = "whole"] \in File
<1>1. EmptyFile \in File
  BY DEF EmptyFile, File
<1>2. \A f \in File : [f EXCEPT !.snapshot = "partial"] \in File
  BY DEF File
<1>3. \A f \in File, c \in Seq(Writes) : [f EXCEPT !.cmds = c, !.snapshot = "whole"] \in File
  BY DEF File
<1> QED
  BY <1>1, <1>2, <1>3

\* The first state.
LEMMA InitInv == Init => Inv
<1> SUFFICES ASSUME Init PROVE Inv
  OBVIOUS
<1> USE AofAssumption DEF Init
<1>1. EmptyFile \in File
  BY DEF EmptyFile, File
<1>2. NoChild \in Child
  BY DEF NoChild, Child
<1>3. files \in [1..MaxSeq -> File] /\ child \in Child
  BY <1>1, <1>2
<1>4. fsync_thread \in BOOLEAN
  BY DEF start_fsync_thread
<1>5. TypeOK
  <2>1. gap \in BOOLEAN /\ appendonly \in BOOLEAN /\ rewriting \in BOOLEAN
    OBVIOUS
  <2>2. issued \in 0..MaxWrites /\ crashes \in 0..MaxCrashes /\ current_seq \in 1..MaxSeq
    OBVIOUS
  <2>3. applied \in Seq(Writes) /\ queued \in Seq(Writes) /\ buffer \in Seq(Writes)
    OBVIOUS
  <2>4. appendfsync \in FsyncPolicies /\ swap \in {"idle", "buffered", "truncated", "down"}
    OBVIOUS
  <2> QED
    BY <1>3, <1>4, <2>1, <2>2, <2>3, <2>4 DEF TypeOK
<1>6. FilesOK /\ RewriteOK /\ ContentsOK
  BY DEF FilesOK, RewriteOK, ContentsOK, EmptyFile, NoChild, Empty, Closed
<1> QED
  BY <1>5, <1>6 DEF Inv

\* append, with no change to anything but the file that is open and the buffer.
LEMMA AppendInv ==
    ASSUME Inv, Receives, append(issued')
    PROVE  /\ issued' \in Writes /\ issued' \in 0..MaxWrites
           /\ files' \in [1..MaxSeq -> File]
           /\ buffer' \in Seq(Writes)
           /\ \A s \in 1..MaxSeq :
                /\ files'[s].snapshot = files[s].snapshot
                /\ files'[s].cmds = IF s = aof_fd THEN Append(files[s].cmds, issued')
                                    ELSE files[s].cmds
           /\ buffer' = IF rewriting THEN Append(buffer, issued') ELSE buffer
<1> DEFINE n == issued'
<1>1. n \in Writes /\ n \in 0..MaxWrites
  BY AofAssumption DEF Inv, TypeOK, Receives, Writes
<1>2. buffer' \in Seq(Writes) /\ buffer' = IF rewriting THEN Append(buffer, n) ELSE buffer
  BY <1>1, AppendProperties DEF Inv, TypeOK, append
<1>3. CASE aof_fd = Closed
  BY <1>1, <1>2, <1>3 DEF Inv, TypeOK, append, Closed
<1>4. CASE aof_fd # Closed
  <2>1. aof_fd \in 1..MaxSeq
    BY <1>4 DEF Inv, TypeOK, Closed
  <2>2. files[aof_fd] \in File
    BY <2>1 DEF Inv, TypeOK
  <2> DEFINE file == Appended(files[aof_fd], n)
  <2>3. /\ file \in File
        /\ file.cmds = Append(files[aof_fd].cmds, n)
        /\ file.snapshot = files[aof_fd].snapshot
    <3>1. Append(files[aof_fd].cmds, n) \in Seq(Writes)
      BY <1>1, <2>2, AppendProperties DEF File
    <3>2. Len(files[aof_fd].cmds) + 1 \in Nat
      BY <2>2, LenProperties DEF File
    <3> QED
      BY <2>2, <3>1, <3>2 DEF File, Appended
  <2> HIDE DEF file
  <2>4. files' = [files EXCEPT ![aof_fd] = file]
    BY <1>4 DEF append, file
  <2>5. files' \in [1..MaxSeq -> File]
    BY <2>1, <2>3, <2>4 DEF Inv, TypeOK
  <2>6. \A s \in 1..MaxSeq : files'[s] = IF s = aof_fd THEN file ELSE files[s]
    BY <2>1, <2>4 DEF Inv, TypeOK
  <2> QED
    BY <1>1, <1>2, <2>3, <2>5, <2>6
<1> QED
  BY <1>3, <1>4

\* Commands, CONFIG SET and the fsync thread.
LEMMA WriteInv == ASSUME Inv, Write PROVE Inv'
<1> USE DEF Write, config, loop
<1>1. /\ issued' \in Writes /\ issued' \in 0..MaxWrites
      /\ files' \in [1..MaxSeq -> File]
      /\ buffer' \in Seq(Writes)
      /\ \A s \in 1..MaxSeq :
           /\ files'[s].snapshot = files[s].snapshot
           /\ files'[s].cmds = IF s = aof_fd THEN Append(files[s].cmds, issued') ELSE files[s].cmds
      /\ buffer' = IF rewriting THEN Append(buffer, issued') ELSE buffer
  BY AppendInv
<1>2. applied' \in Seq(Writes)
  BY <1>1, AppendProperties DEF Inv, TypeOK
<1>3. TypeOK'
  BY <1>1, <1>2 DEF Inv, TypeOK
<1>4. swap = "idle"
  BY DEF Receives
<1>5. FilesOK'
  BY <1>1, <1>4 DEF Inv, FilesOK, TypeOK, Empty
<1>6. RewriteOK'
  BY <1>1, <1>4 DEF Inv, RewriteOK, FilesOK, TypeOK, Child, Closed
<1>7. ASSUME ~gap' PROVE ~gap /\ aof_fd = manifest
  BY <1>4, <1>7 DEF Inv, FilesOK
<1>8. ASSUME ~gap', manifest # Empty PROVE files'[manifest].cmds = applied'
  BY <1>1, <1>7, <1>8 DEF Inv, TypeOK, ContentsOK
<1>9. ASSUME ~gap', rewriting PROVE child.image \o buffer' = applied'
  <2>1. child.image \in Seq(Writes) /\ buffer \in Seq(Writes) /\ issued' \in Writes
    BY <1>1 DEF Inv, TypeOK, Child
  <2>2. child.image \o Append(buffer, issued') = Append(child.image \o buffer, issued')
    BY <2>1, AppendBehind
  <2>3. child.image \o buffer = applied
    BY <1>7, <1>9 DEF Inv, ContentsOK
  <2> QED
    BY <1>1, <1>9, <2>2, <2>3
<1>10. ContentsOK'
  BY <1>7, <1>8, <1>9 DEF Inv, ContentsOK
<1> QED
  BY <1>3, <1>5, <1>6, <1>10 DEF Inv

LEMMA QueueWriteInv == ASSUME Inv, QueueWrite PROVE Inv'
<1> USE DEF QueueWrite, config, loop
<1>1. /\ issued' \in Writes /\ issued' \in 0..MaxWrites
      /\ files' \in [1..MaxSeq -> File]
      /\ buffer' \in Seq(Writes)
      /\ \A s \in 1..MaxSeq :
           /\ files'[s].snapshot = files[s].snapshot
           /\ files'[s].cmds = IF s = aof_fd THEN Append(files[s].cmds, issued') ELSE files[s].cmds
  BY AppendInv
<1>2. queued' \in Seq(Writes)
  BY <1>1, AppendProperties DEF Inv, TypeOK
<1>3. TypeOK'
  BY <1>1, <1>2 DEF Inv, TypeOK
<1>4. swap = "idle"
  BY DEF Receives
<1>5. FilesOK'
  BY <1>1, <1>4 DEF Inv, FilesOK, TypeOK, Empty
<1>6. RewriteOK'
  BY <1>1, <1>4 DEF Inv, RewriteOK, FilesOK, TypeOK, Child, Closed
<1>7. ContentsOK'
  BY DEF ContentsOK
<1> QED
  BY <1>3, <1>5, <1>6, <1>7 DEF Inv

LEMMA ExecInv == ASSUME Inv, Exec PROVE Inv'
<1> USE DEF Exec, config, loop
<1>1. applied' \in Seq(Writes)
  BY ConcatProperties DEF Inv, TypeOK
<1>2. TypeOK'
  BY <1>1 DEF Inv, TypeOK
<1>3. gap
  BY DEF Inv, ContentsOK
<1> QED
  BY <1>2, <1>3 DEF Inv, FilesOK, RewriteOK, ContentsOK

LEMMA ConfigInv ==
    ASSUME Inv, (\E p \in Policies : set_appendfsync(p)) \/ close \/ reopen
    PROVE  Inv'
<1>1. ASSUME NEW p \in Policies, set_appendfsync(p) PROVE Inv'
  <2>1. p \in FsyncPolicies
    BY AofAssumption
  <2>2. fsync_thread' \in BOOLEAN
    BY <1>1 DEF set_appendfsync, start_fsync_thread, Inv, TypeOK
  <2>3. TypeOK'
    BY <1>1, <2>1, <2>2 DEF set_appendfsync, Inv, TypeOK
  <2> QED
    BY <1>1, <2>3 DEF set_appendfsync, Inv, FilesOK, RewriteOK, ContentsOK
<1>2. CASE close
  <2>1. TypeOK'
    BY <1>2 DEF close, Inv, TypeOK
  <2> QED
    BY <1>2, <2>1 DEF close, Inv, FilesOK, RewriteOK, ContentsOK
<1>3. CASE reopen
  <2>1. manifest = current_seq
    BY <1>3 DEF reopen, Inv, FilesOK
  <2>2. fsync_thread' \in BOOLEAN
    BY <1>3 DEF reopen, start_fsync_thread
  <2>3. TypeOK'
    BY <1>3, <2>1, <2>2 DEF reopen, Inv, TypeOK
  <2> QED
    BY <1>3, <2>1, <2>3 DEF reopen, Inv, FilesOK, RewriteOK, ContentsOK
<1> QED
  BY <1>1, <1>2, <1>3

LEMMA FsyncThreadInv == ASSUME Inv, FsyncThread PROVE Inv'
<1> USE DEF FsyncThread, config, loop
<1>1. aof_fd \in 1..MaxSeq /\ files[aof_fd] \in File
  BY DEF Inv, TypeOK, Closed
<1>2. Len(files[aof_fd].cmds) \in Nat
  BY <1>1, LenProperties DEF File
<1>3. files' \in [1..MaxSeq -> File]
  BY <1>1, <1>2 DEF Inv, TypeOK, File
<1>4. \A s \in 1..MaxSeq : files'[s].snapshot = files[s].snapshot /\ files'[s].cmds = files[s].cmds
  BY <1>1 DEF Inv, TypeOK, File
<1>5. TypeOK'
  BY <1>3 DEF Inv, TypeOK
<1>6. FilesOK'
  BY <1>4 DEF Inv, FilesOK, TypeOK, Empty
<1>7. RewriteOK'
  BY <1>4 DEF Inv, RewriteOK, TypeOK, Child
<1>8. ContentsOK'
  BY <1>4 DEF Inv, ContentsOK, TypeOK, Empty
<1> QED
  BY <1>5, <1>6, <1>7, <1>8 DEF Inv

\* The child of a rewrite.
LEMMA StartRewriteInv == ASSUME Inv, start_rewrite PROVE Inv'
<1> USE DEF start_rewrite, config
<1>1. child' \in Child
  <2>1. current_seq + 1 \in 0..MaxSeq
    BY AofAssumption DEF Inv, TypeOK
  <2> QED
    BY <2>1 DEF Inv, TypeOK, Child
<1>2. fsync_thread' \in BOOLEAN /\ buffer' \in Seq(Writes)
  BY DEF start_fsync_thread
<1>3. TypeOK'
  BY <1>1, <1>2 DEF Inv, TypeOK
<1>4. child'.image \o buffer' = applied
  BY ConcatEmptySeq DEF Inv, TypeOK
<1> QED
  BY <1>3, <1>4 DEF Inv, FilesOK, RewriteOK, ContentsOK

LEMMA ChildInv ==
    ASSUME Inv, ChildOpens \/ ChildFinishes \/ ChildFails
    PROVE  Inv'
<1>1. /\ child.state \in {"forked", "writing"}
      /\ \E state \in {"writing", "ok", "failed"} : child' = [child EXCEPT !.state = state]
  BY DEF ChildOpens, ChildFinishes, ChildFails
<1>2. child' \in Child /\ child'.seq = child.seq /\ child'.image = child.image
  BY <1>1 DEF Inv, TypeOK, Child
<1>3. rewriting /\ swap = "idle"
  BY <1>1 DEF Inv, TypeOK, RewriteOK, FilesOK
<1>4. child.seq = current_seq + 1 /\ child.seq \in 1..MaxSeq /\ manifest = current_seq
  BY <1>3 DEF Inv, TypeOK, Child, RewriteOK, FilesOK
<1>5. manifest # child.seq /\ aof_fd # child.seq
  BY <1>3, <1>4 DEF Inv, TypeOK, FilesOK, Closed
<1>6. /\ files' \in [1..MaxSeq -> File]
      /\ \A s \in 1..MaxSeq \ {child.seq} : files'[s] = files[s]
  <2>1. CASE ChildOpens
    <3>1. [EmptyFile EXCEPT !.snapshot = "partial"] \in File
      BY FileUpdates
    <3> QED
      BY <1>4, <2>1, <3>1 DEF ChildOpens, Inv, TypeOK
  <2>2. CASE ChildFinishes
    <3>1. [files[child.seq] EXCEPT !.cmds = child.image, !.snapshot = "whole"] \in File
      BY <1>4, FileUpdates DEF Inv, TypeOK, Child
    <3> QED
      BY <1>4, <2>2, <3>1 DEF ChildFinishes, Inv, TypeOK
  <2>3. CASE ChildFails
    BY <2>3 DEF ChildFails, Inv, TypeOK
  <2> QED
    BY <2>1, <2>2, <2>3
<1>7. child'.state # "none" /\ (child'.state = "ok" => ChildFinishes)
  BY <1>2 DEF ChildOpens, ChildFinishes, ChildFails, Inv, TypeOK, Child
<1>8. ASSUME ChildFinishes
      PROVE  files'[child.seq].snapshot = "whole" /\ files'[child.seq].cmds = child.image
  BY <1>4, <1>8 DEF ChildFinishes, Inv, TypeOK, File
<1>9. UNCHANGED <<applied, queued, issued, gap, manifest, config, loop, rewriting, buffer, swap, crashes>>
  BY DEF ChildOpens, ChildFinishes, ChildFails
<1>10. TypeOK'
  BY <1>2, <1>6, <1>9 DEF Inv, TypeOK, config, loop
<1>11. FilesOK'
  BY <1>4, <1>5, <1>6, <1>9 DEF Inv, TypeOK, FilesOK, loop
<1>12. RewriteOK'
  BY <1>2, <1>3, <1>7, <1>8, <1>9 DEF Inv, RewriteOK, loop
<1>13. ContentsOK'
  BY <1>2, <1>4, <1>5, <1>6, <1>9 DEF Inv, TypeOK, ContentsOK
<1> QED
  BY <1>10, <1>11, <1>12, <1>13 DEF Inv

\* The steps of check_rewrite_complete.
LEMMA RewriteFailsInv == ASSUME Inv, RewriteFails PROVE Inv'
<1> USE DEF RewriteFails, config, loop
<1>1. child' \in Child /\ child'.state = "none"
  BY AofAssumption DEF NoChild, Child
<1>2. rewriting' \in BOOLEAN
  OBVIOUS
<1>3. TypeOK'
  BY <1>1, <1>2 DEF Inv, TypeOK
<1> QED
  BY <1>1, <1>3 DEF Inv, FilesOK, RewriteOK, ContentsOK

LEMMA AppendBufferInv == ASSUME Inv, AppendBuffer PROVE Inv'
<1> USE DEF AppendBuffer, config, loop
<1>1. child.seq = current_seq + 1 /\ child.seq \in 1..MaxSeq /\ manifest = current_seq
  BY DEF Inv, TypeOK, Child, RewriteOK, FilesOK
<1>2. /\ child.image \in Seq(Writes)
      /\ files[child.seq].cmds = child.image /\ files[child.seq].snapshot = "whole"
  BY DEF Inv, TypeOK, Child, RewriteOK
<1>3. child.image \o buffer \in Seq(Writes)
  BY <1>2, ConcatProperties DEF Inv, TypeOK
<1>4. /\ files' \in [1..MaxSeq -> File]
      /\ files'[child.seq].cmds = child.image \o buffer /\ files'[child.seq].snapshot = "whole"
      /\ \A s \in 1..MaxSeq \ {child.seq} : files'[s] = files[s]
  BY <1>1, <1>2, <1>3 DEF Inv, TypeOK, File
<1>5. TypeOK'
  BY <1>4 DEF Inv, TypeOK
<1>6. FilesOK'
  BY <1>1, <1>4 DEF Inv, TypeOK, FilesOK
<1>7. RewriteOK'
  BY <1>4 DEF Inv, RewriteOK
<1>8. ContentsOK'
  BY <1>1, <1>4 DEF Inv, TypeOK, ContentsOK
<1> QED
  BY <1>5, <1>6, <1>7, <1>8 DEF Inv

LEMMA TruncateManifestInv == ASSUME Inv, TruncateManifest PROVE Inv'
<1> USE DEF TruncateManifest, config, loop
<1>1. TypeOK'
  BY DEF Inv, TypeOK
<1> QED
  BY <1>1 DEF Inv, FilesOK, RewriteOK, ContentsOK

LEMMA SwitchFileInv == ASSUME Inv, SwitchFile PROVE Inv'
<1> USE DEF SwitchFile, config
<1>1. child.state = "ok" /\ rewriting /\ child.seq = current_seq + 1
  BY DEF Inv, RewriteOK
<1>2. child.seq \in 1..MaxSeq
  BY <1>1 DEF Inv, TypeOK, Child
<1>3. files[child.seq].snapshot = "whole" /\ files[child.seq].cmds = child.image \o buffer
  BY <1>1 DEF Inv, RewriteOK
<1>4. child' \in Child /\ child'.state = "none"
  BY AofAssumption DEF NoChild, Child
<1>5. fsync_thread' \in BOOLEAN
  BY DEF start_fsync_thread
<1>6. rewriting' \in BOOLEAN
  OBVIOUS
<1>7. TypeOK'
  BY <1>1, <1>2, <1>4, <1>5, <1>6 DEF Inv, TypeOK
<1>8. FilesOK'
  BY <1>1, <1>3 DEF FilesOK
<1>9. RewriteOK'
  BY <1>4 DEF RewriteOK
<1>10. ContentsOK'
  BY <1>1, <1>3 DEF Inv, ContentsOK
<1> QED
  BY <1>7, <1>8, <1>9, <1>10 DEF Inv

\* The server is killed, and starts again or not.
LEMMA KilledInv == ASSUME Inv, Restart \/ FailsToStart PROVE Inv'
<1>1. Killed
  BY DEF Restart, FailsToStart
<1>2. child' \in Child /\ child'.state = "none"
  BY <1>1, AofAssumption DEF Killed, NoChild, Child
<1>3. gap' \in BOOLEAN /\ appendonly' \in BOOLEAN /\ rewriting' \in BOOLEAN
  BY <1>1 DEF Killed
<1>4. fsync_thread' \in BOOLEAN
  BY DEF Restart, FailsToStart, start_fsync_thread
<1>5. /\ issued' \in 0..MaxWrites /\ crashes' \in 0..MaxCrashes
      /\ queued' \in Seq(Writes) /\ buffer' \in Seq(Writes)
      /\ files' \in [1..MaxSeq -> File] /\ manifest' \in {Empty} \cup 1..MaxSeq
      /\ appendfsync' \in FsyncPolicies
  BY <1>1, AofAssumption DEF Killed, Inv, TypeOK
<1>6. CASE Restart
  <2>1. manifest \in 1..MaxSeq /\ files[manifest].snapshot = "whole"
    BY <1>6 DEF Restart, Inv, TypeOK, FilesOK
  <2>2. applied' = files[manifest].cmds /\ applied' \in Seq(Writes)
    BY <1>6, <2>1 DEF Restart, read_aof_content, Inv, TypeOK, File
  <2>3. aof_fd' = manifest /\ current_seq' = manifest /\ swap' = "idle"
    BY <1>6 DEF Restart
  <2>4. TypeOK'
    BY <1>2, <1>3, <1>4, <1>5, <2>1, <2>2, <2>3 DEF TypeOK
  <2>5. FilesOK'
    BY <1>1, <2>1, <2>3 DEF Killed, FilesOK
  <2>6. RewriteOK'
    BY <1>1, <1>2, <2>3 DEF Killed, RewriteOK
  <2>7. ContentsOK'
    BY <1>1, <2>2 DEF Killed, ContentsOK
  <2> QED
    BY <2>4, <2>5, <2>6, <2>7 DEF Inv
<1>7. CASE FailsToStart
  <2>1. /\ applied' \in Seq(Writes) /\ aof_fd' = Closed /\ current_seq' \in 1..MaxSeq
        /\ swap' = "down" /\ manifest' = Empty
    BY <1>1, <1>7 DEF FailsToStart, Killed, Inv, TypeOK
  <2>2. TypeOK'
    BY <1>2, <1>3, <1>4, <1>5, <2>1 DEF TypeOK
  <2>3. FilesOK'
    BY <1>1, <2>1 DEF Killed, FilesOK
  <2>4. RewriteOK' /\ ContentsOK'
    BY <1>1, <1>2, <2>1 DEF Killed, RewriteOK, ContentsOK
  <2> QED
    BY <2>2, <2>3, <2>4 DEF Inv
<1> QED
  BY <1>6, <1>7

LEMMA NextInv == Inv /\ [Next]_vars => Inv'
<1> SUFFICES ASSUME Inv, [Next]_vars PROVE Inv'
  OBVIOUS
<1>1. CASE UNCHANGED vars
  BY <1>1 DEF vars, Inv, TypeOK, FilesOK, RewriteOK, ContentsOK
<1>2. CASE Next
  BY <1>2, WriteInv, QueueWriteInv, ExecInv, ConfigInv, FsyncThreadInv, StartRewriteInv, ChildInv,
     RewriteFailsInv, AppendBufferInv, TruncateManifestInv, SwitchFileInv, KilledInv
     DEF Next, Commands, Rewrites, CheckRewrite
<1> QED
  BY <1>1, <1>2

LEMMA AlwaysInv == Spec => []Inv
  BY InitInv, NextInv, PTL DEF Spec

----------------------------------------------------------------------------
\* Every variable keeps its type, through rewrites, CONFIG SET and kills.
THEOREM TypeCorrect == Spec => []TypeOK
<1>1. Inv => TypeOK
  BY DEF Inv
<1> QED
  BY <1>1, AlwaysInv, PTL

\* What a replay executes is what made the keyspace, whatever rewrites,
\* CONFIG SET and kills came in between: the parent appends to its file and to
\* the buffer, check_rewrite_complete appends the buffer to the child's file,
\* and only then is the manifest pointed at that file.
THEOREM LogIsComplete == Spec => []LogComplete
<1>1. Inv => LogComplete
  BY DEF Inv, TypeOK, FilesOK, ContentsOK, LogComplete, read_aof_content
<1> QED
  BY <1>1, AlwaysInv, PTL

\* The file append writes to is the one the next start will replay.
THEOREM OpenFileIsManifests == Spec => []AppendsToManifest
<1>1. Inv => AppendsToManifest
  BY DEF Inv, FilesOK, AppendsToManifest
<1> QED
  BY <1>1, AlwaysInv, PTL

\* Every function that opens or switches the file, or stops the thread for a
\* fork, starts the everysec thread again when the policy asks for it.
THEOREM FsyncThreadSound == Spec => []FsyncThreadRuns
<1>1. Init => FsyncThreadRuns
  BY DEF Init, FsyncThreadRuns, start_fsync_thread
<1>2. Inv /\ FsyncThreadRuns /\ [Next]_vars => FsyncThreadRuns'
  <2> SUFFICES ASSUME Inv, FsyncThreadRuns, [Next]_vars PROVE FsyncThreadRuns'
    OBVIOUS
  <2> USE DEF FsyncThreadRuns, config, loop
  <2>1. CASE Write \/ QueueWrite \/ Exec \/ FsyncThread \/ UNCHANGED vars
    BY <2>1 DEF Write, QueueWrite, Exec, FsyncThread, vars
  <2>2. ASSUME NEW p \in Policies, set_appendfsync(p) PROVE FsyncThreadRuns'
    BY <2>2 DEF set_appendfsync, start_fsync_thread
  <2>3. CASE close \/ reopen
    BY <2>3 DEF close, reopen, start_fsync_thread
  <2>4. CASE start_rewrite
    BY <2>4 DEF start_rewrite, start_fsync_thread
  <2>5. CASE ChildOpens \/ ChildFinishes \/ ChildFails
    BY <2>5 DEF ChildOpens, ChildFinishes, ChildFails
  <2>6. CASE RewriteFails \/ AppendBuffer \/ TruncateManifest
    BY <2>6 DEF RewriteFails, AppendBuffer, TruncateManifest
  <2>7. CASE SwitchFile
    BY <2>7 DEF SwitchFile, start_fsync_thread
  <2>8. CASE Restart \/ FailsToStart
    BY <2>8 DEF Restart, FailsToStart, Killed, start_fsync_thread
  <2> QED
    BY <2>1, <2>2, <2>3, <2>4, <2>5, <2>6, <2>7, <2>8 DEF Next, Commands, Rewrites, CheckRewrite
<1> QED
  BY <1>1, <1>2, AlwaysInv, PTL DEF Spec

----------------------------------------------------------------------------
(* Nothing is replayed twice.                                              *)

\* A sequence of distinct commands, none of them later than the n-th.
Once(s, n) == IsInjective(s) /\ \A i \in 1..Len(s) : s[i] <= n
Apart(s, t) == \A i \in 1..Len(s), j \in 1..Len(t) : s[i] # t[j]

\* No command is twice in the keyspace, the queue, the log, or a snapshot and
\* the buffer behind it.
OnceOK ==
    /\ Once(applied, issued) /\ Once(queued, issued) /\ Apart(applied, queued)
    /\ manifest # Empty => Once(files[manifest].cmds, issued)
    /\ rewriting => Once(child.image \o buffer, issued)

LEMMA OnceAppend ==
    \A s \in Seq(Writes) : \A n \in 0..MaxWrites :
        n + 1 \in Writes /\ Once(s, n) => Once(s, n + 1) /\ Once(Append(s, n + 1), n + 1)
<1> SUFFICES ASSUME NEW s \in Seq(Writes), NEW n \in 0..MaxWrites, n + 1 \in Writes, Once(s, n)
             PROVE  Once(s, n + 1) /\ Once(Append(s, n + 1), n + 1)
  OBVIOUS
<1> DEFINE t == Append(s, n + 1)
<1>1. /\ Len(s) \in Nat /\ Len(t) = Len(s) + 1 /\ t[Len(s) + 1] = n + 1
      /\ \A i \in 1..Len(s) : t[i] = s[i] /\ s[i] \in Writes
      /\ DOMAIN t = 1..Len(s) + 1 /\ DOMAIN s = 1..Len(s)
  BY AppendProperties, LenProperties, ElementOfSeq
<1>2. \A i \in 1..Len(s) : s[i] <= n /\ s[i] \in Int /\ s[i] # n + 1
  BY <1>1, AofAssumption DEF Once, Writes
<1> HIDE DEF t
<1>3. IsInjective(t)
  BY <1>1, <1>2 DEF Once, IsInjective
<1>4. \A i \in 1..Len(t) : t[i] <= n + 1
  BY <1>1, <1>2, AofAssumption
<1> QED
  BY <1>1, <1>2, <1>3, <1>4, AofAssumption DEF Once, t

LEMMA OnceConcat ==
    \A s, t \in Seq(Writes) : \A n \in 0..MaxWrites :
        Once(s, n) /\ Once(t, n) /\ Apart(s, t) => Once(s \o t, n)
<1> SUFFICES ASSUME NEW s \in Seq(Writes), NEW t \in Seq(Writes), NEW n \in 0..MaxWrites,
                    Once(s, n), Once(t, n), Apart(s, t)
             PROVE  Once(s \o t, n)
  OBVIOUS
<1> DEFINE u == s \o t
<1>1. /\ Len(s) \in Nat /\ Len(t) \in Nat /\ u \in Seq(Writes) /\ Len(u) = Len(s) + Len(t)
      /\ \A i \in 1..Len(s) + Len(t) : u[i] = IF i <= Len(s) THEN s[i] ELSE t[i - Len(s)]
      /\ DOMAIN s = 1..Len(s) /\ DOMAIN t = 1..Len(t)
  BY ConcatProperties, LenProperties
<1>2. DOMAIN u = 1..Len(s) + Len(t)
  BY <1>1, LenProperties
<1> HIDE DEF u
<1>3. \A i \in 1..Len(u) : u[i] <= n
  BY <1>1 DEF Once
<1>4. ASSUME NEW i \in DOMAIN u, NEW j \in DOMAIN u, u[i] = u[j] PROVE i = j
  <2>1. CASE i <= Len(s) /\ j <= Len(s)
    BY <1>1, <1>2, <1>4, <2>1 DEF Once, IsInjective
  <2>2. CASE i > Len(s) /\ j > Len(s)
    <3>1. i - Len(s) \in 1..Len(t) /\ j - Len(s) \in 1..Len(t) /\ i \in 1..Len(s) + Len(t) /\ j \in 1..Len(s) + Len(t)
      BY <1>1, <1>2, <2>2
    <3>2. t[i - Len(s)] = t[j - Len(s)]
      BY <1>1, <1>4, <2>2, <3>1
    <3>3. i - Len(s) = j - Len(s)
      BY <1>1, <3>1, <3>2 DEF Once, IsInjective
    <3> QED
      BY <1>1, <3>1, <3>3
  <2>3. CASE i <= Len(s) /\ j > Len(s)
    <3>1. i \in 1..Len(s) /\ j - Len(s) \in 1..Len(t) /\ i \in 1..Len(s) + Len(t) /\ j \in 1..Len(s) + Len(t)
      BY <1>1, <1>2, <2>3
    <3>2. s[i] = t[j - Len(s)]
      BY <1>1, <1>4, <2>3, <3>1
    <3> QED
      BY <3>1, <3>2 DEF Apart
  <2>4. CASE i > Len(s) /\ j <= Len(s)
    <3>1. j \in 1..Len(s) /\ i - Len(s) \in 1..Len(t) /\ i \in 1..Len(s) + Len(t) /\ j \in 1..Len(s) + Len(t)
      BY <1>1, <1>2, <2>4
    <3>2. s[j] = t[i - Len(s)]
      BY <1>1, <1>4, <2>4, <3>1
    <3> QED
      BY <3>1, <3>2 DEF Apart
  <2> QED
    BY <1>1, <1>2, <2>1, <2>2, <2>3, <2>4
<1> QED
  BY <1>3, <1>4 DEF Once, IsInjective, u

LEMMA ApartAppend ==
    \A s, t \in Seq(Writes) : \A n \in 0..MaxWrites :
        n + 1 \in Writes /\ Once(s, n) /\ Once(t, n) /\ Apart(s, t)
          => Apart(Append(s, n + 1), t) /\ Apart(s, Append(t, n + 1))
<1> SUFFICES ASSUME NEW s \in Seq(Writes), NEW t \in Seq(Writes), NEW n \in 0..MaxWrites,
                    n + 1 \in Writes, Once(s, n), Once(t, n), Apart(s, t)
             PROVE  Apart(Append(s, n + 1), t) /\ Apart(s, Append(t, n + 1))
  OBVIOUS
<1>1. /\ Len(s) \in Nat /\ Len(Append(s, n + 1)) = Len(s) + 1 /\ Append(s, n + 1)[Len(s) + 1] = n + 1
      /\ \A i \in 1..Len(s) : Append(s, n + 1)[i] = s[i] /\ s[i] \in Writes
  BY AppendProperties, LenProperties, ElementOfSeq
<1>2. /\ Len(t) \in Nat /\ Len(Append(t, n + 1)) = Len(t) + 1 /\ Append(t, n + 1)[Len(t) + 1] = n + 1
      /\ \A i \in 1..Len(t) : Append(t, n + 1)[i] = t[i] /\ t[i] \in Writes
  BY AppendProperties, LenProperties, ElementOfSeq
<1>3. /\ \A i \in 1..Len(s) : s[i] # n + 1
      /\ \A i \in 1..Len(t) : t[i] # n + 1
  BY <1>1, <1>2, AofAssumption DEF Once, Writes
<1> QED
  BY <1>1, <1>2, <1>3 DEF Apart

\* The commands that are logged, executed or queued.
LEMMA CommandsOnce ==
    ASSUME Inv, OnceOK, Write \/ QueueWrite
    PROVE  OnceOK'
<1>1. /\ issued \in 0..MaxWrites /\ issued' = issued + 1 /\ issued + 1 \in Writes /\ swap = "idle"
      /\ applied \in Seq(Writes) /\ queued \in Seq(Writes)
      /\ UNCHANGED <<manifest, rewriting, child>>
  <2>1. Receives /\ UNCHANGED <<manifest, rewriting, child>>
    BY DEF Write, QueueWrite
  <2>2. issued \in 0..MaxWrites /\ applied \in Seq(Writes) /\ queued \in Seq(Writes)
    BY DEF Inv, TypeOK
  <2> QED
    BY <2>1, <2>2, AofAssumption DEF Receives, Writes
<1>2. /\ Once(applied, issued') /\ Once(Append(applied, issued'), issued')
      /\ Once(queued, issued') /\ Once(Append(queued, issued'), issued')
  BY <1>1, OnceAppend DEF OnceOK
<1>3. Apart(Append(applied, issued'), queued) /\ Apart(applied, Append(queued, issued'))
  BY <1>1, ApartAppend DEF OnceOK
<1>4. Once(applied', issued') /\ Once(queued', issued') /\ Apart(applied', queued')
  BY <1>2, <1>3 DEF Write, QueueWrite
<1>5. append(issued') /\ Receives
  BY DEF Write, QueueWrite
<1>6. /\ \A s \in 1..MaxSeq :
           files'[s].cmds = IF s = aof_fd THEN Append(files[s].cmds, issued') ELSE files[s].cmds
      /\ buffer' = IF rewriting THEN Append(buffer, issued') ELSE buffer
  BY <1>5, AppendInv
<1>7. ASSUME manifest # Empty PROVE Once(files'[manifest].cmds, issued')
  <2>1. manifest \in 1..MaxSeq /\ files[manifest].cmds \in Seq(Writes)
    BY <1>7 DEF Inv, TypeOK, File
  <2>2. /\ Once(files[manifest].cmds, issued')
        /\ Once(Append(files[manifest].cmds, issued'), issued')
    BY <1>1, <1>7, <2>1, OnceAppend DEF OnceOK
  <2> QED
    BY <1>6, <2>1, <2>2
<1>8. ASSUME rewriting PROVE Once(child.image \o buffer', issued')
  <2>1. child.image \in Seq(Writes) /\ buffer \in Seq(Writes) /\ child.image \o buffer \in Seq(Writes)
    BY ConcatProperties DEF Inv, TypeOK, Child
  <2>2. child.image \o Append(buffer, issued') = Append(child.image \o buffer, issued')
    BY <1>1, <2>1, AppendBehind
  <2>3. Once(Append(child.image \o buffer, issued'), issued')
    BY <1>1, <1>8, <2>1, OnceAppend DEF OnceOK
  <2> QED
    BY <1>6, <1>8, <2>2, <2>3
<1> QED
  BY <1>1, <1>4, <1>7, <1>8 DEF OnceOK

LEMMA ExecOnce == ASSUME Inv, OnceOK, Exec PROVE OnceOK'
<1>1. Once(applied \o queued, issued)
  BY OnceConcat DEF Inv, TypeOK, OnceOK
<1>2. Once(<<>>, issued) /\ Apart(applied \o queued, <<>>)
  BY DEF Once, Apart, IsInjective
<1> QED
  BY <1>1, <1>2 DEF Exec, OnceOK

LEMMA NextOnce == Inv /\ OnceOK /\ [Next]_vars => OnceOK'
<1> SUFFICES ASSUME Inv, OnceOK, [Next]_vars PROVE OnceOK'
  OBVIOUS
<1>1. Once(<<>>, issued) /\ Apart(<<>>, <<>>) /\ \A t \in Seq(Writes) : Apart(t, <<>>)
  BY DEF Once, Apart, IsInjective
<1>2. CASE UNCHANGED vars \/ (\E p \in Policies : set_appendfsync(p)) \/ close \/ reopen
  <2>1. UNCHANGED <<applied, queued, issued, files, manifest, rewriting, buffer, child>>
    BY <1>2 DEF vars, set_appendfsync, close, reopen
  <2> QED
    BY <2>1 DEF OnceOK
<1>3. CASE FsyncThread
  <2>1. \A s \in 1..MaxSeq : files'[s].cmds = files[s].cmds
    BY <1>3 DEF FsyncThread, Inv, TypeOK, File, Closed
  <2> QED
    BY <1>3, <2>1 DEF FsyncThread, Inv, TypeOK, OnceOK
<1>4. CASE start_rewrite
  <2>1. applied \o <<>> = applied
    BY ConcatEmptySeq DEF Inv, TypeOK
  <2> QED
    BY <1>4, <2>1 DEF start_rewrite, OnceOK
<1>5. CASE ChildOpens \/ ChildFinishes \/ ChildFails
  <2>1. child'.image = child.image /\ UNCHANGED <<applied, queued, issued, manifest, rewriting, buffer>>
    BY <1>5 DEF ChildOpens, ChildFinishes, ChildFails, Inv, TypeOK, Child
  <2>2. child.seq \in 1..MaxSeq /\ manifest # child.seq
    BY <1>5 DEF ChildOpens, ChildFinishes, ChildFails, Inv, TypeOK, Child, FilesOK, RewriteOK
  <2>3. \A s \in 1..MaxSeq \ {child.seq} : files'[s] = files[s]
    BY <1>5, <2>2 DEF ChildOpens, ChildFinishes, ChildFails, Inv, TypeOK
  <2> QED
    BY <2>1, <2>2, <2>3 DEF Inv, TypeOK, OnceOK
<1>6. CASE AppendBuffer
  <2>1. child.seq \in 1..MaxSeq /\ manifest # child.seq
    BY <1>6 DEF AppendBuffer, Inv, TypeOK, Child, FilesOK, RewriteOK
  <2>2. \A s \in 1..MaxSeq \ {child.seq} : files'[s] = files[s]
    BY <1>6, <2>1 DEF AppendBuffer, Inv, TypeOK
  <2> QED
    BY <1>6, <2>1, <2>2 DEF AppendBuffer, Inv, TypeOK, OnceOK
<1>7. CASE TruncateManifest
  BY <1>7 DEF TruncateManifest, OnceOK
<1>8. CASE SwitchFile
  <2>1. /\ rewriting /\ files[child.seq].cmds = child.image \o buffer
        /\ manifest' = child.seq /\ files' = files
    BY <1>8 DEF SwitchFile, Inv, RewriteOK
  <2> QED
    BY <1>8, <2>1 DEF SwitchFile, OnceOK
<1>9. CASE Restart
  <2>1. manifest # Empty /\ applied' = files[manifest].cmds
    BY <1>9 DEF Restart, read_aof_content, Inv, FilesOK
  <2>2. applied' \in Seq(Writes)
    BY <1>9, NextInv DEF Next, Inv, TypeOK
  <2> QED
    BY <1>1, <1>9, <2>1, <2>2 DEF Restart, Killed, OnceOK
<1>10. CASE FailsToStart
  BY <1>1, <1>10 DEF FailsToStart, Killed, OnceOK
<1>11. CASE RewriteFails
  <2>1. UNCHANGED <<applied, queued, issued, files, manifest>> /\ ~rewriting'
    BY <1>11 DEF RewriteFails
  <2> QED
    BY <2>1 DEF OnceOK
<1> QED
  BY <1>2, <1>3, <1>4, <1>5, <1>6, <1>7, <1>8, <1>9, <1>10, <1>11, CommandsOnce, ExecOnce
     DEF Next, Commands, Rewrites, CheckRewrite

\* A command is never replayed twice: the snapshot holds what was executed
\* before the fork, the buffer what was received after it, and EXEC runs what
\* was logged when it was queued without logging it again.
THEOREM NothingTwice == Spec => []ReplayedOnce
<1>1. Init => OnceOK
  <2> SUFFICES ASSUME Init PROVE OnceOK
    OBVIOUS
  <2>1. Once(<<>>, 0) /\ Apart(<<>>, <<>>)
    BY DEF Once, Apart, IsInjective
  <2>2. manifest \in 1..MaxSeq /\ files[manifest].cmds = <<>>
    BY AofAssumption DEF Init, EmptyFile
  <2> QED
    BY <2>1, <2>2 DEF Init, OnceOK
<1>2. Inv /\ OnceOK => ReplayedOnce
  BY DEF Inv, FilesOK, OnceOK, Once, ReplayedOnce, read_aof_content
<1> QED
  BY <1>1, <1>2, AlwaysInv, NextOnce, PTL DEF Spec
=============================================================================
