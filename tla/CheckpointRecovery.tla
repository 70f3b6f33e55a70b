-------------------------- MODULE CheckpointRecovery --------------------------
(***************************************************************************)
(* The files of one database and how they survive a crash: the database     *)
(* file, the write-ahead log, the checkpoint WAL that takes the commits     *)
(* made while a checkpoint runs and the recovery WAL into which the two are *)
(* merged (storage/storage_manager.cpp, storage/write_ahead_log.cpp,        *)
(* storage/checkpoint_manager.cpp, storage/wal_replay.cpp and the header    *)
(* of storage/single_file_block_manager.cpp).                               *)
(*                                                                         *)
(* A WAL file is the sequence of its entries.  All that a transaction       *)
(* writes is one entry, followed by a WAL_FLUSH.  A position in a file is a *)
(* number of entries.  The database file is the list of commits it holds.   *)
(* A crash is possible between any two steps.  It keeps the entries that    *)
(* were synced and any prefix of the others, the last one possibly torn.    *)
(* The database header, a move, a removal and a truncation are taken to be  *)
(* atomic and durable.                                                      *)
(***************************************************************************)
EXTENDS Integers, Sequences, SequencesExt, FiniteSets

CONSTANTS
    Roots,          \* meta blocks that can be the root of a checkpoint
    NoFile,         \* the file does not exist
    NoCommit,       \* no commit is under way
    MaxCommits,     \* bound: commits
    MaxCheckpoints, \* bound: checkpoints
    MaxCrashes,     \* bound: crashes
    Scenarios       \* sets of behaviours that may happen together

\* "iteration": the version entry of a WAL holds the iteration (file version > 66);
\* "torn": a crash may leave part of an entry; "torn_header": or of the version
\* entry; "skip_wal": a commit may checkpoint instead of writing to the WAL;
\* "force_checkpoint": CHECKPOINT with an empty WAL (PRAGMA force_checkpoint);
\* "revert": a commit may fail after it has written to the WAL;
\* "crash_before_remove": a crash may come between the move of the recovery WAL and
\* the removal of the checkpoint WAL.
AllBehaviours == {"iteration", "torn", "torn_header", "skip_wal", "force_checkpoint", "revert",
                  "crash_before_remove"}

ASSUME ConstantsAssumption ==
    /\ Cardinality(Roots) > 1
    /\ {MaxCommits, MaxCheckpoints, MaxCrashes} \subseteq Nat
    /\ Scenarios \subseteq SUBSET AllBehaviours

Commits == 1 .. MaxCommits

VARIABLES
    file,        \* database file: header (root, iteration) and commits
    disk,        \* disk[p]: entries of WAL file p, or NoFile
    synced,      \* synced[p]: how many entries of p are on disk for certain
    wal,         \* WriteAheadLog: path, init_state, checkpoint_iteration, wal_size
    wal_lock,    \* StorageManager::wal_lock: "free", "commit" or "checkpoint"
    iteration_count, \* of the block manager, in memory
    committed,   \* commits that transactions see, in order
    acknowledged,\* commits reported to the client, in order
    commit,      \* the commit under way: its number, pc, initial_wal_size
    checkpoint,  \* the checkpoint under way
    phase,       \* "open", "down", or a step of opening the database
    commits, checkpoints, crashes, \* how many there have been (bounds)
    behaviours   \* what may happen in this behaviour; chosen once, in Scenarios

vars == <<file, disk, synced, wal, wal_lock, iteration_count, committed, acknowledged,
          commit, checkpoint, phase, commits, checkpoints, crashes, behaviours>>
bounds == <<commits, checkpoints, crashes>>
rest == <<bounds, behaviours>>

Paths == {"wal", "checkpoint", "recovery"}

\* Entries.  iteration 0: the version entry has no checkpoint_iteration.
Version(i) == [type |-> "version", iteration |-> i]
Changes(c) == [type |-> "changes", commit |-> c]
Marker(r)  == [type |-> "checkpoint", root |-> r]
Flushed    == [type |-> "flush"]
Torn       == [type |-> "torn"]

Entries ==
    {Version(i) : i \in 0 .. MaxCheckpoints + 2} \cup {Changes(c) : c \in Commits}
      \cup {Marker(r) : r \in Roots} \cup {Flushed, Torn}

ASSUME NullAssumption == NoCommit \notin Commits /\ NoFile \notin Seq(Entries)

NewWAL(p) == [path |-> p, init_state |-> "no_wal", iteration |-> 0, size |-> 0]
NoCheckpoint == [pc |-> "idle", root |-> 0, log |-> <<>>, has_wal |-> FALSE, holds_lock |-> FALSE]
NoCommitUnderway == [id |-> NoCommit, pc |-> "idle", initial_wal_size |-> 0]

\* A new database file: CreateNewDatabase has written both headers.
Init ==
    /\ file \in [log : {<<>>}, root : {0}, iteration : {1}]
    /\ disk = [p \in Paths |-> NoFile]
    /\ synced = [p \in Paths |-> 0]
    /\ wal = NewWAL("wal")
    /\ wal_lock = "free"
    /\ iteration_count = 1
    /\ committed = <<>>
    /\ acknowledged = <<>>
    /\ commit = NoCommitUnderway
    /\ checkpoint = NoCheckpoint
    /\ phase = "open"
    /\ commits = 0 /\ checkpoints = 0 /\ crashes = 0
    /\ behaviours \in Scenarios

-----------------------------------------------------------------------------
(* Writing to the WAL                                                       *)

Contents(p) == IF disk[p] = NoFile THEN <<>> ELSE disk[p]

\* The file the writer of w has open: Initialize creates it, and truncates it
\* to the WAL size if the replay found a torn tail.
InitializedContents(w) ==
    IF w.init_state = "requires_truncate"
      THEN SubSeq(Contents(w.path), 1, w.size)
      ELSE Contents(w.path)

\* WriteHeader: a version entry if the file is empty.  The checkpoint WAL has
\* the iteration it was created with, the main WAL the block manager's.
WithHeader(w, entries) ==
    IF entries = <<>>
      THEN <<Version(IF "iteration" \notin behaviours THEN 0
                     ELSE IF w.iteration # 0 THEN w.iteration
                     ELSE iteration_count)>>
      ELSE entries

\* Initialize, WriteHeader and an entry.  The WAL size stays what it was until
\* the next Flush, save that Initialize reads it from a file it does not truncate.
WriteEntries(es) ==
    LET before == InitializedContents(wal) IN
    /\ disk' = [disk EXCEPT ![wal.path] = WithHeader(wal, before) \o es]
    /\ synced' = [synced EXCEPT ![wal.path] = IF @ < Len(before) THEN @ ELSE Len(before)]
    /\ wal' = [wal EXCEPT !.init_state = "initialized",
                          !.size = IF wal.init_state \in {"no_wal", "uninitialized"}
                                     THEN Len(before) ELSE @]

\* The end of Flush: writer->Sync() and SetWALSize.
SyncWAL ==
    /\ synced' = [synced EXCEPT ![wal.path] = Len(disk[wal.path])]
    /\ wal' = [wal EXCEPT !.size = Len(disk[wal.path])]

-----------------------------------------------------------------------------
(* Commit                                                                   *)

\* The commit takes the WAL lock and writes its changes.
WriteToWAL(c) ==
    /\ phase = "open"
    /\ wal_lock = "free"
    /\ c = commits + 1
    /\ WriteEntries(<<Changes(c)>>)
    /\ wal_lock' = "commit"
    /\ commit' = [id |-> c, pc |-> "flush", initial_wal_size |-> wal.size]
    /\ commits' = c
    /\ UNCHANGED <<file, iteration_count, committed, acknowledged, checkpoint, phase,
                   checkpoints, crashes, behaviours>>

\* The commit succeeded in memory: a WAL_FLUSH entry.
FlushCommit ==
    /\ phase = "open" /\ commit.pc = "flush"
    /\ committed' = Append(committed, commit.id)
    /\ disk' = [disk EXCEPT ![wal.path] = Append(@, Flushed)]
    /\ commit' = [commit EXCEPT !.pc = "sync"]
    /\ UNCHANGED <<file, synced, wal, wal_lock, iteration_count, acknowledged, checkpoint, phase, rest>>

\* The rest of Flush, the end of the commit and the release of the WAL lock.
EndCommit ==
    /\ phase = "open" /\ commit.pc = "sync"
    /\ SyncWAL
    /\ acknowledged' = Append(acknowledged, commit.id)
    /\ wal_lock' = "free"
    /\ commit' = NoCommitUnderway
    /\ UNCHANGED <<file, disk, iteration_count, committed, checkpoint, phase, rest>>

\* Mutant: the part of the file that a failed commit wrote is not removed.
RevertCommitKeepsWAL ==
    /\ "revert" \in behaviours
    /\ phase = "open" /\ commit.pc = "flush"
    /\ wal_lock' = "free"
    /\ commit' = NoCommitUnderway
    /\ UNCHANGED <<file, disk, synced, wal, iteration_count, committed, acknowledged, checkpoint, phase, rest>>

\* The commit fails (in the undo buffer, or while the WAL is written or synced):
\* the WAL is truncated to the size it had.
RevertCommit ==
    /\ "revert" \in behaviours
    /\ phase = "open" /\ commit.pc \in {"flush", "sync"}
    /\ disk' = [disk EXCEPT ![wal.path] = SubSeq(@, 1, commit.initial_wal_size)]
    /\ synced' = [synced EXCEPT ![wal.path] = IF @ < commit.initial_wal_size THEN @ ELSE commit.initial_wal_size]
    /\ wal' = [wal EXCEPT !.size = commit.initial_wal_size]
    /\ committed' = IF commit.pc = "sync" THEN Front(committed) ELSE committed
    /\ wal_lock' = "free"
    /\ commit' = NoCommitUnderway
    /\ UNCHANGED <<file, iteration_count, acknowledged, checkpoint, phase, rest>>

\* A large commit that holds the checkpoint lock does not write to the WAL; it
\* keeps the WAL lock until its checkpoint has ended.
SkipWALWrite(c) ==
    /\ "skip_wal" \in behaviours
    /\ phase = "open" /\ wal_lock = "free"
    /\ checkpoint.pc = "idle" /\ checkpoints < MaxCheckpoints
    /\ c = commits + 1
    /\ committed' = Append(committed, c)
    /\ commit' = [id |-> c, pc |-> "checkpoint", initial_wal_size |-> 0]
    /\ wal_lock' = "checkpoint"
    /\ checkpoint' = [NoCheckpoint EXCEPT !.pc = "start", !.holds_lock = TRUE]
    /\ commits' = c
    /\ checkpoints' = checkpoints + 1
    /\ UNCHANGED <<file, disk, synced, wal, iteration_count, acknowledged, phase, crashes, behaviours>>

-----------------------------------------------------------------------------
(* Checkpoint.  checkpoint_lock is held exclusively, so there is one at a   *)
(* time; the commits made meanwhile hold no checkpoint lock.                *)

\* A CHECKPOINT statement (or the automatic checkpoint of a commit that is in
\* the WAL): nothing to do if the WAL is empty.
CreateCheckpoint ==
    /\ phase = "open"
    /\ checkpoint.pc = "idle" /\ checkpoints < MaxCheckpoints
    /\ wal.size > 0 \/ "force_checkpoint" \in behaviours
    /\ checkpoint' = [NoCheckpoint EXCEPT !.pc = "start"]
    /\ checkpoints' = checkpoints + 1
    /\ UNCHANGED <<file, disk, synced, wal, wal_lock, iteration_count, committed, acknowledged,
                   commit, phase, commits, crashes, behaviours>>

MayHoldWALLock == wal_lock = "free" \/ checkpoint.holds_lock

\* WALStartCheckpoint under the WAL lock: everything committed so far is what
\* this checkpoint writes.  With an empty WAL there is nothing more to do.
WALStartCheckpoint ==
    /\ phase = "open" /\ checkpoint.pc = "start"
    /\ MayHoldWALLock
    /\ \E r \in Roots \ {file.root} :
         LET started == [checkpoint EXCEPT !.root = r, !.log = committed] IN
         IF wal.size = 0
           THEN /\ checkpoint' = [started EXCEPT !.pc = "write"]
                /\ UNCHANGED <<disk, synced, wal, wal_lock>>
           ELSE /\ WriteEntries(<<Marker(r), Flushed>>)
                /\ wal_lock' = "checkpoint"
                /\ checkpoint' = [started EXCEPT !.pc = "marker", !.has_wal = TRUE]
    /\ UNCHANGED <<file, iteration_count, committed, acknowledged, commit, phase, rest>>

\* The marker is synced and the main WAL closed.
FlushMarker ==
    /\ phase = "open" /\ checkpoint.pc = "marker"
    /\ SyncWAL
    /\ checkpoint' = [checkpoint EXCEPT !.pc = "switch"]
    /\ UNCHANGED <<file, disk, wal_lock, iteration_count, committed, acknowledged, commit, phase, rest>>

\* Mutant: the checkpoint WAL is given the iteration of this checkpoint.
SwitchWALSameIteration ==
    /\ phase = "open" /\ checkpoint.pc = "switch"
    /\ disk' = [disk EXCEPT !["checkpoint"] = NoFile]
    /\ synced' = [synced EXCEPT !["checkpoint"] = 0]
    /\ wal' = [NewWAL("checkpoint") EXCEPT !.iteration = iteration_count]
    /\ wal_lock' = IF checkpoint.holds_lock THEN wal_lock ELSE "free"
    /\ checkpoint' = [checkpoint EXCEPT !.pc = "write"]
    /\ UNCHANGED <<file, iteration_count, committed, acknowledged, commit, phase, rest>>

\* An old checkpoint WAL is removed; commits go to a new one, which belongs to
\* the next iteration.  No file is made before the first of them.
SwitchWAL ==
    /\ phase = "open" /\ checkpoint.pc = "switch"
    /\ disk' = [disk EXCEPT !["checkpoint"] = NoFile]
    /\ synced' = [synced EXCEPT !["checkpoint"] = 0]
    /\ wal' = [NewWAL("checkpoint") EXCEPT !.iteration = iteration_count + 1]
    /\ wal_lock' = IF checkpoint.holds_lock THEN wal_lock ELSE "free"
    /\ checkpoint' = [checkpoint EXCEPT !.pc = "write"]
    /\ UNCHANGED <<file, iteration_count, committed, acknowledged, commit, phase, rest>>

\* The tables have been written; WriteHeader increments the iteration.
IncrementIteration ==
    /\ phase = "open" /\ checkpoint.pc = "write"
    /\ iteration_count' = iteration_count + 1
    /\ checkpoint' = [checkpoint EXCEPT !.pc = "header"]
    /\ UNCHANGED <<file, disk, synced, wal, wal_lock, committed, acknowledged, commit, phase, rest>>

\* The header that is not active is written and synced.
WriteHeader ==
    /\ phase = "open" /\ checkpoint.pc = "header"
    /\ file' = [log |-> checkpoint.log, root |-> checkpoint.root, iteration |-> iteration_count]
    /\ checkpoint' = [checkpoint EXCEPT !.pc = IF checkpoint.has_wal THEN "finish" ELSE "end"]
    /\ UNCHANGED <<disk, synced, wal, wal_lock, iteration_count, committed, acknowledged, commit, phase, rest>>

\* The checkpoint WAL takes the place of the main WAL; if nobody wrote to it,
\* the main WAL is removed.
WALFinishCheckpoint ==
    /\ phase = "open" /\ checkpoint.pc = "finish"
    /\ MayHoldWALLock
    /\ IF wal.init_state # "initialized"
         THEN /\ disk' = [disk EXCEPT !["wal"] = NoFile]
              /\ synced' = [synced EXCEPT !["wal"] = 0]
              /\ wal' = NewWAL("wal")
         ELSE /\ disk' = [disk EXCEPT !["wal"] = disk["checkpoint"], !["checkpoint"] = NoFile]
              /\ synced' = [synced EXCEPT !["wal"] = synced["checkpoint"], !["checkpoint"] = 0]
              /\ wal' = [NewWAL("wal") EXCEPT !.init_state = "initialized", !.size = Len(disk["checkpoint"])]
    /\ checkpoint' = [checkpoint EXCEPT !.pc = "end"]
    /\ UNCHANGED <<file, wal_lock, iteration_count, committed, acknowledged, commit, phase, rest>>

\* CreateCheckpoint returns; a commit that skipped the WAL is now reported.
EndCheckpoint ==
    /\ phase = "open" /\ checkpoint.pc = "end"
    /\ checkpoint' = NoCheckpoint
    /\ IF checkpoint.holds_lock
         THEN /\ acknowledged' = Append(acknowledged, commit.id)
              /\ commit' = NoCommitUnderway
              /\ wal_lock' = "free"
         ELSE UNCHANGED <<acknowledged, commit, wal_lock>>
    /\ UNCHANGED <<file, disk, synced, wal, iteration_count, committed, phase, rest>>

-----------------------------------------------------------------------------
(* Crash                                                                    *)

\* What can be left of a file: the synced entries and some of the others, the
\* first that is missing possibly torn.
Remains(p) ==
    IF disk[p] = NoFile THEN {NoFile}
    ELSE LET n == Len(disk[p])
             MayTear(k) == "torn" \in behaviours /\ (k > 0 \/ "torn_header" \in behaviours)
         IN  {SubSeq(disk[p], 1, k) : k \in synced[p] .. n}
               \cup {Append(SubSeq(disk[p], 1, k), Torn) : k \in {j \in synced[p] .. n - 1 : MayTear(j)}}

\* A checkpoint WAL that a crash left behind although it had been merged is merged
\* once more if the next checkpoint is interrupted as well: one crash less is allowed there.
CrashLimit == IF "crash_before_remove" \in behaviours THEN MaxCrashes - 1 ELSE MaxCrashes

\* The process dies at any moment, also while it is opening the database.  The
\* commit under way stays pending: its fate is known when the database is open.
Crash ==
    /\ phase \notin {"down", "failed"}
    /\ phase = "remove_checkpoint" => "crash_before_remove" \in behaviours
    /\ crashes < CrashLimit
    /\ disk' \in {d \in [Paths -> UNION {Remains(p) : p \in Paths}] : \A p \in Paths : d[p] \in Remains(p)}
    /\ synced' = [p \in Paths |-> IF disk'[p] = NoFile THEN 0 ELSE Len(disk'[p])]
    /\ phase' = "down"
    /\ crashes' = crashes + 1
    /\ committed' = <<>>
    /\ commit' = [commit EXCEPT !.pc = "crashed"]
    /\ wal' = NewWAL("wal")
    /\ wal_lock' = "free"
    /\ checkpoint' = NoCheckpoint
    /\ UNCHANGED <<file, iteration_count, acknowledged, commits, checkpoints, behaviours>>

-----------------------------------------------------------------------------
(* Replay                                                                   *)

Positions(es, type) == {i \in DOMAIN es : es[i].type = type}

\* The entries that can be read: those before a torn one.
Readable(es) ==
    LET torn == SelectInSeq(es, LAMBDA e : e.type = "torn")
    IN  IF torn = 0 THEN es ELSE SubSeq(es, 1, torn - 1)

\* The replay reads entries until a WAL_FLUSH ends the file or an entry cannot
\* be read; the position of the last attempt (checkpoint_state.current_position).
LastAttempt(es) ==
    IF Readable(es) = es /\ Last(es).type = "flush" THEN Len(es) ELSE Len(Readable(es)) + 1

\* The end of the last WAL_FLUSH among the first n entries (last_wal_flush_end), 0 if none.
LastFlush(es, n) == SelectLastInSubSeq(es, 1, n, LAMBDA e : e.type = "flush")

\* ReplayVersion: does the WAL belong to this version of the database file?
ReplayVersion(es, mode) ==
    IF es = <<>> \/ es[1].type # "version" \/ es[1].iteration = 0 THEN "match"
    ELSE CASE es[1].iteration = file.iteration -> "match"
           [] es[1].iteration + 1 = file.iteration -> "expects_checkpoint"
           [] mode = "checkpoint_wal" /\ es[1].iteration = file.iteration + 1 -> "match"
           [] OTHER -> "mismatch"

\* IsCheckpointClean: the header of the database file points to the root.
IsCheckpointClean(r) == file.root = r

\* What the first pass over a WAL decides.
ReplayDecision(es, mode) ==
    LET markers == Positions(Readable(es), "checkpoint")
        m == CHOOSE i \in markers : TRUE
    IN  IF es = <<>> THEN "remove"
        ELSE IF ReplayVersion(es, mode) = "mismatch" THEN "error"
        ELSE IF Cardinality(markers) > 1 THEN "error"
        ELSE IF markers # {} /\ (mode = "checkpoint_wal" \/ LastAttempt(es) # m + 1) THEN "error"
        ELSE IF markers # {} /\ IsCheckpointClean(es[m].root)
          THEN IF disk["checkpoint"] = NoFile THEN "remove" ELSE "move"
        ELSE IF markers # {} /\ disk["checkpoint"] # NoFile THEN "merge"
        ELSE IF ReplayVersion(es, mode) = "expects_checkpoint" THEN "error"
        ELSE IF markers # {} THEN "truncate"
        ELSE "replay"

\* Applied(es)[k]: the commits whose changes are among the first k entries.
Applied(es) ==
    LET applied[k \in 0 .. Len(es)] ==
          IF k = 0 THEN <<>>
          ELSE IF es[k].type = "changes" THEN Append(applied[k - 1], es[k].commit)
          ELSE applied[k - 1]
    IN  applied

\* The commits the second pass applies: the changes that a WAL_FLUSH follows.
Replayed(es) == Applied(es)[LastFlush(es, Len(Readable(es)))]

\* LoadExistingDatabase and LoadFromStorage, then the main WAL is opened.
LoadDatabase ==
    /\ phase = "down"
    /\ iteration_count' = file.iteration
    /\ committed' = file.log
    /\ phase' = "main_wal"
    /\ UNCHANGED <<file, disk, synced, wal, wal_lock, acknowledged, commit, checkpoint, rest>>

ReplayModes == {"main_wal", "checkpoint_wal"}
Decided(d) == /\ phase \in ReplayModes
              /\ disk["wal"] # NoFile
              /\ ReplayDecision(disk["wal"], phase) = d

\* The database is open with the given WAL and commits.
Opened(w, log) ==
    /\ wal' = w
    /\ committed' = log
    /\ acknowledged' = log
    /\ commit' = NoCommitUnderway
    /\ phase' = "open"
    /\ UNCHANGED <<file, wal_lock, iteration_count, checkpoint, rest>>

\* There is no WAL, or nothing in it is needed: it is removed.
ReplayRemove ==
    /\ Decided("remove") \/ (phase \in ReplayModes /\ disk["wal"] = NoFile)
    /\ disk' = [disk EXCEPT !["wal"] = NoFile]
    /\ synced' = [synced EXCEPT !["wal"] = 0]
    /\ Opened(NewWAL("wal"), committed)

\* The second pass.  A tail that cannot be read is truncated by the next write.
ReplayEntries ==
    /\ Decided("replay")
    /\ LET es == disk["wal"]
           offset == LastFlush(es, Len(Readable(es)))
       IN  Opened([NewWAL("wal") EXCEPT !.size = offset,
                                        !.init_state = IF offset = Len(es) THEN "uninitialized"
                                                                           ELSE "requires_truncate"],
                  committed \o Replayed(es))
    /\ UNCHANGED <<disk, synced>>

\* The marker of a failed checkpoint is removed before the entries are replayed.
ReplayTruncate ==
    /\ Decided("truncate")
    /\ LET es == disk["wal"]
           m == CHOOSE i \in Positions(es, "checkpoint") : TRUE
           kept == SubSeq(es, 1, LastFlush(es, m))
       IN  /\ disk' = [disk EXCEPT !["wal"] = kept]
           /\ synced' = [synced EXCEPT !["wal"] = Len(kept)]
           /\ Opened(IF kept = <<>> THEN NewWAL("wal")
                     ELSE [NewWAL("wal") EXCEPT !.init_state = "uninitialized", !.size = Len(kept)],
                     committed \o Replayed(kept))

\* The checkpoint was complete: the checkpoint WAL takes the place of the main
\* WAL and is replayed.
MoveCheckpointWAL ==
    /\ Decided("move")
    /\ disk' = [disk EXCEPT !["wal"] = disk["checkpoint"], !["checkpoint"] = NoFile]
    /\ synced' = [synced EXCEPT !["wal"] = synced["checkpoint"], !["checkpoint"] = 0]
    /\ phase' = "checkpoint_wal"
    /\ UNCHANGED <<file, wal, wal_lock, iteration_count, committed, acknowledged, commit, checkpoint, rest>>

\* The checkpoint was not complete: the main WAL up to the marker and the
\* checkpoint WAL without its version entry go to the recovery WAL.  The version
\* entry is read without a handler for a torn entry.
MergeIntoRecoveryWAL ==
    /\ Decided("merge")
    /\ LET es == disk["wal"]
           cs == disk["checkpoint"]
           m == CHOOSE i \in Positions(es, "checkpoint") : TRUE
       IN  IF cs # <<>> /\ (cs[1].type = "torn" \/ ReplayVersion(cs, "checkpoint_wal") = "mismatch")
             THEN /\ phase' = "failed"
                  /\ disk' = [disk EXCEPT !["recovery"] = SubSeq(es, 1, m - 1)]
             ELSE /\ phase' = "sync_recovery"
                  /\ disk' = [disk EXCEPT !["recovery"] =
                                 SubSeq(es, 1, m - 1) \o (IF cs = <<>> THEN <<>> ELSE Tail(cs))]
    /\ synced' = [synced EXCEPT !["recovery"] = 0]
    /\ UNCHANGED <<file, wal, wal_lock, iteration_count, committed, acknowledged, commit, checkpoint, rest>>

\* Mutant: the recovery WAL is moved without being synced.
SyncRecoveryWALSkipped ==
    /\ phase = "sync_recovery"
    /\ phase' = "move_recovery"
    /\ UNCHANGED <<file, disk, synced, wal, wal_lock, iteration_count, committed, acknowledged, commit, checkpoint, rest>>

SyncRecoveryWAL ==
    /\ phase = "sync_recovery"
    /\ synced' = [synced EXCEPT !["recovery"] = Len(disk["recovery"])]
    /\ phase' = "move_recovery"
    /\ UNCHANGED <<file, disk, wal, wal_lock, iteration_count, committed, acknowledged, commit, checkpoint, rest>>

MoveRecoveryWAL ==
    /\ phase = "move_recovery"
    /\ disk' = [disk EXCEPT !["wal"] = disk["recovery"], !["recovery"] = NoFile]
    /\ synced' = [synced EXCEPT !["wal"] = synced["recovery"], !["recovery"] = 0]
    /\ phase' = "remove_checkpoint"
    /\ UNCHANGED <<file, wal, wal_lock, iteration_count, committed, acknowledged, commit, checkpoint, rest>>

RemoveCheckpointWAL ==
    /\ phase = "remove_checkpoint"
    /\ disk' = [disk EXCEPT !["checkpoint"] = NoFile]
    /\ synced' = [synced EXCEPT !["checkpoint"] = 0]
    /\ phase' = "checkpoint_wal"
    /\ UNCHANGED <<file, wal, wal_lock, iteration_count, committed, acknowledged, commit, checkpoint, rest>>

\* The database cannot be opened.
ReplayError ==
    /\ Decided("error")
    /\ phase' = "failed"
    /\ UNCHANGED <<file, disk, synced, wal, wal_lock, iteration_count, committed, acknowledged, commit, checkpoint, rest>>

-----------------------------------------------------------------------------
Next ==
    \/ \E c \in Commits : WriteToWAL(c) \/ SkipWALWrite(c)
    \/ FlushCommit \/ EndCommit \/ RevertCommit
    \/ CreateCheckpoint \/ WALStartCheckpoint \/ FlushMarker \/ SwitchWAL
    \/ IncrementIteration \/ WriteHeader \/ WALFinishCheckpoint \/ EndCheckpoint
    \/ Crash
    \/ LoadDatabase \/ ReplayRemove \/ ReplayEntries \/ ReplayTruncate
    \/ MoveCheckpointWAL \/ MergeIntoRecoveryWAL \/ SyncRecoveryWAL
    \/ MoveRecoveryWAL \/ RemoveCheckpointWAL \/ ReplayError

Spec == Init /\ [][Next]_vars

-----------------------------------------------------------------------------
(* Properties                                                               *)

\* Types.  An entry that is not whole is the last one of its file.
TypeOK ==
    /\ Range(file.log) \subseteq Commits /\ file.root \in Roots \cup {0}
    /\ \A p \in Paths : /\ disk[p] = NoFile \/ Range(disk[p]) \subseteq Entries
                        /\ synced[p] \in 0 .. Len(Contents(p))
                        /\ \A i \in Positions(Contents(p), "torn") : i = Len(Contents(p))
    /\ wal.path \in {"wal", "checkpoint"} /\ wal.size \in 0 .. Len(Contents(wal.path))
    /\ wal.init_state \in {"no_wal", "uninitialized", "requires_truncate", "initialized"}
    /\ wal_lock \in {"free", "commit", "checkpoint"}
    /\ Range(committed) \subseteq Commits /\ Range(acknowledged) \subseteq Commits
    /\ commit.id \in Commits \cup {NoCommit}

Promise == INSTANCE DurableLog WITH log <- acknowledged, pending <- commit.id,
                                    open <- phase = "open"

\* Storage keeps what it reported: with crashes at any step of commits,
\* checkpoints and replays, the database opens with every acknowledged commit,
\* once and in order, and with the interrupted one or without it.
ImplementsDurableLog == Promise!Spec

\* A torn version entry can leave a WAL that is refused and, where a WAL names the
\* iteration it belongs to, a checkpoint that sees an empty WAL can as well.
MayBeRefused ==
    \/ "torn_header" \in behaviours
    \/ "iteration" \in behaviours /\ behaviours \cap {"skip_wal", "force_checkpoint"} # {}

\* Types hold and, whatever a crash leaves behind, the database can be opened.
DatabaseOpens == TypeOK /\ (phase = "failed" => MayBeRefused)

\* What a read-only connection replays: it leaves the files as they are and
\* reads the main WAL, the checkpoint WAL or both.
AllReplayed(es) == LastFlush(es, Len(Readable(es))) = Len(es)
ReadOnlyReplay ==
    IF disk["wal"] = NoFile THEN file.log
    ELSE LET es == disk["wal"]
             cs == Contents("checkpoint")
             decision == ReplayDecision(es, "main_wal")
         IN CASE decision = "error" -> <<>>
              [] decision = "remove" -> file.log
              [] decision = "move" -> file.log \o Replayed(cs)
              [] decision = "merge" -> file.log \o Replayed(es)
                                         \o (IF AllReplayed(es) THEN Replayed(cs) ELSE <<>>)
              [] OTHER -> file.log \o Replayed(es)

\* A read-only connection to the files of a crash, or of an interrupted
\* recovery, sees every acknowledged commit, and at most the interrupted one more.
ReadOnlySeesAcknowledged ==
    phase = "down" /\ ~MayBeRefused =>
        ReadOnlyReplay \in {acknowledged, Append(acknowledged, commit.id)}
=============================================================================
