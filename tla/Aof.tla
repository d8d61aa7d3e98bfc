-------------------------------- MODULE Aof --------------------------------
(***************************************************************************)
(* The append-only file: aof/aof_manager.cpp, CONFIG SET and BGREWRITEAOF  *)
(* (handler/server_commands.cpp), the replay at startup (main.cpp) and the *)
(* place of check_rewrite_complete in the event loop.                      *)
(*                                                                         *)
(* A write command is a number, given in the order of execution; a         *)
(* keyspace is the sequence of the commands that made it, so that the      *)
(* snapshot a rewrite writes is that sequence too.  (Which commands are    *)
(* logged is the business of CommandHandler, and whether a snapshot        *)
(* rebuilds the keyspace that of Rewrite.)  A file is the commands in it,  *)
(* how many of them were fsynced, and whether its snapshot is whole.       *)
(*                                                                         *)
(* The server is killed between any two system calls that matter, and      *)
(* starts again: what write() was given is still there, what a stream has  *)
(* buffered is not.                                                        *)
(***************************************************************************)
EXTENDS Integers, Sequences, Functions

CONSTANTS MaxWrites,     \* bound on the write commands
          MaxSeq,        \* bound on the sequence number of a file
          MaxCrashes,    \* bound on the number of times the server is killed
          BootFsync,     \* --appendfsync of the command line
          Policies,      \* values CONFIG SET gives to appendfsync
          Toggling,      \* whether CONFIG SET appendonly is used
          Transactions   \* whether writes are also queued by MULTI

FsyncPolicies == {"always", "everysec", "no"}

ASSUME AofAssumption ==
    /\ MaxWrites \in Nat /\ MaxSeq \in Nat \ {0} /\ MaxCrashes \in Nat
    /\ BootFsync \in FsyncPolicies /\ Policies \subseteq FsyncPolicies
    /\ Toggling \in BOOLEAN /\ Transactions \in BOOLEAN

VARIABLES applied,      \* the commands that made the keyspace
          queued,       \* the commands of an open MULTI
          issued,       \* the number of write commands received
          files,        \* the files of the append-only directory, by number
          manifest,     \* the file the manifest names, or Empty
          appendonly, appendfsync,
          aof_fd,       \* the file that is open, or Closed
          current_seq,
          fsync_thread, \* whether the everysec thread runs
          rewriting,    \* rewrite_in_progress_
          buffer,       \* rewrite_buffer_
          child,        \* the rewrite child: its file, its image and how far it is
          swap,         \* how far check_rewrite_complete is, or "down"
          crashes,
          gap           \* whether the log may differ from the keyspace, history:
                        \* a command came with the log off, or inside MULTI

vars == <<applied, queued, issued, gap, files, manifest, appendonly, appendfsync, aof_fd, current_seq,
          fsync_thread, rewriting, buffer, child, swap, crashes>>

Empty == 0
Closed == 0

Writes == 1..MaxWrites
File == [cmds : Seq(Writes), synced : Nat, snapshot : {"partial", "whole"}]
EmptyFile == [cmds |-> <<>>, synced |-> 0, snapshot |-> "whole"]
NoChild == [seq |-> 0, image |-> <<>>, state |-> "none"]
Child == [seq : 0..MaxSeq, image : Seq(Writes), state : {"none", "forked", "writing", "ok", "failed"}]

----------------------------------------------------------------------------
(* What a replay finds.                                                    *)

\* read_aof_content, where the manifest names a file.  A file whose snapshot
\* is not whole is the log of no keyspace.
Garbled == <<0>>
read_aof_content(m) == IF files[m].snapshot = "whole" THEN files[m].cmds ELSE Garbled

\* start_fsync_thread, once the thread is stopped.
start_fsync_thread(policy) == policy = "everysec"

Init ==
    /\ applied = <<>> /\ queued = <<>> /\ issued = 0 /\ gap = FALSE
    /\ files = [s \in 1..MaxSeq |-> EmptyFile]
    /\ manifest = 1
    /\ appendonly = TRUE /\ appendfsync = BootFsync
    /\ aof_fd = 1 /\ current_seq = 1
    /\ fsync_thread = start_fsync_thread(BootFsync)
    /\ rewriting = FALSE /\ buffer = <<>>
    /\ child = NoChild
    /\ swap = "idle"
    /\ crashes = 0

config == <<appendonly, appendfsync>>
loop == <<aof_fd, current_seq, fsync_thread>>

----------------------------------------------------------------------------
(* Commands.                                                               *)

\* Mutant: a command is not kept for the file being rewritten.
append_NoBuffer(n) ==
    /\ files' = IF aof_fd = Closed THEN files
                ELSE [files EXCEPT ![aof_fd].cmds = Append(@, n)]
    /\ UNCHANGED buffer

\* append and append_to_rewrite_buffer.
Appended(file, n) ==
    [file EXCEPT !.cmds = Append(@, n),
                 !.synced = IF appendfsync = "always" THEN Len(file.cmds) + 1 ELSE @]
append(n) ==
    /\ files' = IF aof_fd = Closed THEN files
                ELSE [files EXCEPT ![aof_fd] = Appended(@, n)]
    /\ buffer' = IF rewriting THEN Append(buffer, n) ELSE buffer

Receives == swap = "idle" /\ issued < MaxWrites /\ issued' = issued + 1

Write ==
    /\ Receives
    /\ applied' = Append(applied, issued')
    /\ append(issued')
    /\ gap' = (gap \/ aof_fd = Closed)
    /\ UNCHANGED <<queued, manifest, config, loop, rewriting, child, swap, crashes>>

\* A write inside MULTI is logged when it is queued, and executed by EXEC.
QueueWrite ==
    /\ Transactions
    /\ Receives
    /\ queued' = Append(queued, issued')
    /\ append(issued')
    /\ gap' = TRUE
    /\ UNCHANGED <<applied, manifest, config, loop, rewriting, child, swap, crashes>>

Exec ==
    /\ swap = "idle"
    /\ queued # <<>>
    /\ applied' = applied \o queued
    /\ queued' = <<>>
    /\ UNCHANGED <<issued, gap, files, manifest, config, loop, rewriting, buffer, child, swap, crashes>>

\* Mutant: the value is not checked.
set_appendfsync_Unchecked(policy) ==
    /\ swap = "idle"
    /\ appendfsync' = "sometimes"
    /\ UNCHANGED <<applied, queued, issued, gap, files, manifest, appendonly, loop, rewriting, buffer,
                   child, swap, crashes>>

\* CONFIG SET appendfsync.
set_appendfsync(policy) ==
    /\ swap = "idle"
    /\ policy # appendfsync
    /\ appendfsync' = policy
    /\ fsync_thread' = IF aof_fd # Closed THEN start_fsync_thread(policy) ELSE fsync_thread
    /\ UNCHANGED <<applied, queued, issued, gap, files, manifest, appendonly, aof_fd, current_seq,
                   rewriting, buffer, child, swap, crashes>>

\* CONFIG SET appendonly no, and yes.
close ==
    /\ Toggling
    /\ swap = "idle"
    /\ appendonly
    /\ appendonly' = FALSE
    /\ aof_fd' = Closed
    /\ fsync_thread' = FALSE
    /\ UNCHANGED <<applied, queued, issued, gap, files, manifest, appendfsync, current_seq, rewriting,
                   buffer, child, swap, crashes>>

\* Mutant: the first file is opened, whatever the manifest names.
reopen_First ==
    /\ Toggling
    /\ swap = "idle"
    /\ ~appendonly
    /\ appendonly' = TRUE
    /\ aof_fd' = 1
    /\ current_seq' = 1
    /\ fsync_thread' = start_fsync_thread(appendfsync)
    /\ UNCHANGED <<applied, queued, issued, gap, files, manifest, appendfsync, rewriting, buffer, child,
                   swap, crashes>>

reopen ==
    /\ Toggling
    /\ swap = "idle"
    /\ ~appendonly
    /\ appendonly' = TRUE
    /\ aof_fd' = manifest
    /\ current_seq' = manifest
    /\ fsync_thread' = start_fsync_thread(appendfsync)
    /\ UNCHANGED <<applied, queued, issued, gap, files, manifest, appendfsync, rewriting, buffer, child,
                   swap, crashes>>

\* Mutant: the thread is not enabled again while a rewrite goes on.
FsyncThread_Disabled ==
    /\ fsync_thread /\ ~rewriting
    /\ aof_fd # Closed
    /\ files' = [files EXCEPT ![aof_fd].synced = Len(files[aof_fd].cmds)]
    /\ UNCHANGED <<applied, queued, issued, gap, manifest, config, loop, rewriting, buffer, child, swap, crashes>>

FsyncThread ==
    /\ fsync_thread
    /\ aof_fd # Closed
    /\ files' = [files EXCEPT ![aof_fd].synced = Len(files[aof_fd].cmds)]
    /\ UNCHANGED <<applied, queued, issued, gap, manifest, config, loop, rewriting, buffer, child,
                   swap, crashes>>

----------------------------------------------------------------------------
(* Rewriting.                                                              *)

\* Mutant: the thread stopped for the fork is not started again.
start_rewrite_NoThread ==
    /\ swap = "idle"
    /\ ~rewriting /\ appendonly
    /\ current_seq < MaxSeq
    /\ child' = [seq |-> current_seq + 1, image |-> applied, state |-> "forked"]
    /\ rewriting' = TRUE
    /\ buffer' = <<>>
    /\ fsync_thread' = FALSE
    /\ UNCHANGED <<applied, queued, issued, gap, files, manifest, config, aof_fd, current_seq, swap, crashes>>

\* BGREWRITEAOF: the child gets the keyspace as it is now.
start_rewrite ==
    /\ swap = "idle"
    /\ ~rewriting /\ appendonly
    /\ current_seq < MaxSeq
    /\ child' = [seq |-> current_seq + 1, image |-> applied, state |-> "forked"]
    /\ rewriting' = TRUE
    /\ buffer' = <<>>
    /\ fsync_thread' = start_fsync_thread(appendfsync)
    /\ UNCHANGED <<applied, queued, issued, gap, files, manifest, config, aof_fd, current_seq,
                   swap, crashes>>

\* rewrite_child_main truncates its file, writes the snapshot entry by entry
\* and exits; it may fail at any point.
ChildOpens ==
    /\ child.state = "forked"
    /\ child' = [child EXCEPT !.state = "writing"]
    /\ files' = [files EXCEPT ![child.seq] = [EmptyFile EXCEPT !.snapshot = "partial"]]
    /\ UNCHANGED <<applied, queued, issued, gap, manifest, config, loop, rewriting, buffer, swap, crashes>>

ChildFinishes ==
    /\ child.state = "writing"
    /\ child' = [child EXCEPT !.state = "ok"]
    /\ files' = [files EXCEPT ![child.seq] = [@ EXCEPT !.cmds = child.image,
                                                       !.snapshot = "whole"]]
    /\ UNCHANGED <<applied, queued, issued, gap, manifest, config, loop, rewriting, buffer, swap, crashes>>

ChildFails ==
    /\ child.state \in {"forked", "writing"}
    /\ child' = [child EXCEPT !.state = "failed"]
    /\ UNCHANGED <<applied, queued, issued, gap, files, manifest, config, loop, rewriting, buffer, swap, crashes>>

\* check_rewrite_complete, once the child is gone.  A failed child is
\* forgotten.  Otherwise what was written since the fork is appended, ...
RewriteFails ==
    /\ swap = "idle" /\ rewriting
    /\ child.state = "failed"
    /\ rewriting' = FALSE
    /\ buffer' = <<>>
    /\ child' = NoChild
    /\ UNCHANGED <<applied, queued, issued, gap, files, manifest, config, loop, swap, crashes>>

\* Mutant: the buffer is appended once more when the function is called again.
AppendBuffer_Again ==
    /\ swap = "idle" /\ rewriting
    /\ child.state = "ok"
    /\ files' = [files EXCEPT ![child.seq].cmds = @ \o buffer]
    /\ \E next \in {"idle", "buffered"} : swap' = next
    /\ Len(files'[child.seq].cmds) <= 2 * MaxWrites
    /\ UNCHANGED <<applied, queued, issued, gap, manifest, config, loop, rewriting, buffer, child, crashes>>

AppendBuffer ==
    /\ swap = "idle" /\ rewriting
    /\ child.state = "ok"
    /\ files' = [files EXCEPT ![child.seq].cmds = @ \o buffer]
    /\ swap' = "buffered"
    /\ UNCHANGED <<applied, queued, issued, gap, manifest, config, loop, rewriting, buffer, child, crashes>>

\* ... the manifest is opened, which empties it, ...
TruncateManifest ==
    /\ swap = "buffered"
    /\ manifest' = Empty
    /\ swap' = "truncated"
    /\ UNCHANGED <<applied, queued, issued, gap, files, config, loop, rewriting, buffer, child, crashes>>

\* ... the new file is opened for appending, and the manifest's text is
\* written when its stream is destroyed, at the end of the function.
SwitchFile ==
    /\ swap = "truncated"
    /\ aof_fd' = child.seq
    /\ current_seq' = current_seq + 1
    /\ fsync_thread' = start_fsync_thread(appendfsync)
    /\ manifest' = current_seq'
    /\ rewriting' = FALSE
    /\ buffer' = <<>>
    /\ child' = NoChild
    /\ swap' = "idle"
    /\ UNCHANGED <<applied, queued, issued, gap, files, config, crashes>>

----------------------------------------------------------------------------
\* The server is killed at any point and started again with the same command
\* line.  (A child that is still writing holds the listening socket, so that
\* the new server cannot start before it is gone.)
Killed ==
    /\ swap # "down"
    /\ crashes < MaxCrashes
    /\ crashes' = crashes + 1
    /\ queued' = <<>>
    /\ appendonly' = TRUE /\ appendfsync' = BootFsync
    /\ rewriting' = FALSE /\ buffer' = <<>>
    /\ child' = NoChild
    /\ gap' = FALSE
    /\ UNCHANGED <<issued, files, manifest>>

\* It replays the file, then opens it.
Restart ==
    /\ Killed
    /\ manifest # Empty
    /\ applied' = read_aof_content(manifest)
    /\ aof_fd' = manifest
    /\ current_seq' = manifest
    /\ fsync_thread' = start_fsync_thread(BootFsync)
    /\ swap' = "idle"

\* With an empty manifest it reads the directory as if it were the file,
\* which throws, and does not start.
FailsToStart ==
    /\ Killed
    /\ manifest = Empty
    /\ applied' = <<>>
    /\ aof_fd' = Closed
    /\ fsync_thread' = FALSE
    /\ swap' = "down"
    /\ UNCHANGED current_seq

Commands == Write \/ QueueWrite \/ Exec \/ (\E p \in Policies : set_appendfsync(p)) \/ close \/ reopen
Rewrites == start_rewrite \/ ChildOpens \/ ChildFinishes \/ ChildFails
CheckRewrite == RewriteFails \/ AppendBuffer \/ TruncateManifest \/ SwitchFile

Next == Commands \/ FsyncThread \/ Rewrites \/ CheckRewrite \/ Restart \/ FailsToStart

\* The thread is scheduled, and the loop goes on with a swap it has begun.
Fairness == WF_vars(FsyncThread) /\ WF_vars(TruncateManifest) /\ WF_vars(SwitchFile)

Spec == Init /\ [][Next]_vars /\ Fairness

----------------------------------------------------------------------------
(* Properties.                                                             *)

TypeOK ==
    /\ applied \in Seq(Writes) /\ queued \in Seq(Writes) /\ issued \in 0..MaxWrites
    /\ gap \in BOOLEAN
    /\ files \in [1..MaxSeq -> File]
    /\ manifest \in {Empty} \cup 1..MaxSeq
    /\ appendonly \in BOOLEAN /\ appendfsync \in FsyncPolicies
    /\ aof_fd \in {Closed} \cup 1..MaxSeq /\ current_seq \in 1..MaxSeq
    /\ fsync_thread \in BOOLEAN /\ rewriting \in BOOLEAN
    /\ buffer \in Seq(Writes)
    /\ child \in Child
    /\ swap \in {"idle", "buffered", "truncated", "down"}
    /\ crashes \in 0..MaxCrashes

\* The log is complete: while the manifest names a file, a replay of that file
\* executes exactly the commands that made the keyspace, in their order,
\* whatever rewrites have begun, failed or ended, however CONFIG SET switched
\* the log, and wherever the server was killed before.  Since its start no
\* command may have come while the log was off, nor inside MULTI.
LogComplete ==
    manifest # Empty /\ ~gap => read_aof_content(manifest) = applied

\* No command is ever replayed twice, even when the log is switched off and
\* on while a rewrite is under way and transactions are logged before they
\* are executed: no command is both in a snapshot and in what is appended to
\* it.
ReplayedOnce ==
    manifest # Empty => IsInjective(read_aof_content(manifest))

\* The file that is appended to is the one the manifest names.
AppendsToManifest ==
    swap = "idle" /\ aof_fd # Closed => aof_fd = manifest

\* Under everysec the thread runs whenever a file is open, through rewrites,
\* CONFIG SET and restarts.
FsyncThreadRuns ==
    swap = "idle" /\ aof_fd # Closed => (fsync_thread <=> appendfsync = "everysec")

\* Under everysec a command that was appended does not stay unsynced.
Exposed ==
    /\ aof_fd # Closed
    /\ appendfsync = "everysec"
    /\ files[aof_fd].synced < Len(files[aof_fd].cmds)
WritesReachDisk == Exposed ~> ~Exposed

\* The swap is atomic: at every moment the manifest names a log, so that a
\* server killed at that moment finds it again.
ManifestNamesLog == manifest # Empty

\* Under always a command that was executed is on the disk.
AlwaysDurable ==
    swap = "idle" /\ appendfsync = "always" => files[manifest].synced = Len(files[manifest].cmds)

\* The log is off: after CONFIG SET appendonly no, nothing is appended.
ClosedWhenOff == ~appendonly => aof_fd = Closed

\* No command is lost by a rewrite: outside a transaction, every command that
\* made the keyspace is in the log.
LogKeepsAll ==
    manifest # Empty /\ queued = <<>> =>
        \A i \in 1..Len(applied) : \E j \in 1..Len(read_aof_content(manifest)) :
            read_aof_content(manifest)[j] = applied[i]

=============================================================================
