--------------------------- MODULE DurableCommit ---------------------------
(***************************************************************************)
(* The durable path of a commit (storage/src/lib.rs): the frame in the     *)
(* sidecar log, the backend batch that also moves the applied marker, the  *)
(* syncs of WALSyncMode, checkpoint and compaction, crashes and recovery.  *)
(*                                                                         *)
(* A record holds the number of the call that wrote it last.  What decides *)
(* whether a batch is accepted, and its in-memory effects, are in          *)
(* StorageTransaction: here a batch has passed them when it starts.        *)
(***************************************************************************)
EXTENDS Naturals, Sequences, FiniteSets, SequencesExt

CONSTANTS
    Keys,        \* graph records
    Modes,       \* WALSyncMode of the stores looked at
    AuditModes,  \* those of them where AuditConfig.enabled may be set
    MaxCommits, MaxAudits, MaxCrashes, MaxFailures \* bounds

ASSUME ModesAssumption == Modes \subseteq {"NoSync", "Batch", "Immediate"} /\ AuditModes \subseteq Modes
ASSUME DurableBoundAssumption ==
    {MaxCommits, MaxAudits, MaxCrashes, MaxFailures} \subseteq Nat

Writers == {"commit", "audit"}

VARIABLES
    mode,     \* WALConfig::sync_mode
    auditing, \* AuditConfig::enabled
    wal,      \* the log file; WAL::entries are its frames while the store is open
    nextSeq,  \* WAL::next_seq
    db,       \* Fjall: the durable state, then one state per batch since its last flush
    phase,    \* "down", "recovering", "open"
    replay,   \* places of the frames recover_wal_transactions has still to apply
    op,       \* per writer: the call under way; batches are serialized by
              \* batch_commit_lock, audit records by the chain lock of AuditLog
    keeper,   \* the maintenance call under way
    txs,      \* history: every call of a writer and its answer
    promised, \* history: calls that no crash may lose
    logCut,   \* history: the log lost frames recovery may need, to a power loss, to a
              \* compaction that does not flush, or to a repair
    crashes, failures

vars == << mode, auditing, wal, nextSeq, db, phase, replay, op, keeper, txs, promised,
           logCut, crashes, failures >>
config == << mode, auditing >>
bounds == << crashes, failures >>

----------------------------------------------------------------------------
NoFile == [made |-> FALSE, torn |-> FALSE, frames |-> << >>, next |-> 0,
           compacted |-> 0, synced |-> 0, headSynced |-> TRUE]

Idle == [pc |-> "idle", tx |-> 0, seq |-> 0]
Resting == [pc |-> "idle", upto |-> 0]

Immediate == mode = "Immediate"
Stored == Last(db)
Acked == {i \in DOMAIN txs : txs[i].answer = "ok"}
\* What a barrier covers from now on: no crash lost it before.
Covered == promised \cup (Acked \cap Stored.done)
Answered(w, a) == [txs EXCEPT ![op[w].tx].answer = a]

\* commit_locked holds it from before the frame to the answer, checkpoint_wal
\* from the flush to the compaction.
CommitLockFree == op["commit"].pc = "idle" /\ keeper.pc \notin {"flushed", "covering"}

Init ==
    /\ mode \in Modes
    /\ auditing \in {FALSE} \cup {mode \in AuditModes}
    /\ wal = NoFile
    /\ nextSeq = 0
    /\ db = << [data |-> [k \in Keys |-> 0], marker |-> 0, done |-> {}] >>
    /\ phase = "open"
    /\ replay = {}
    /\ op = [w \in Writers |-> Idle]
    /\ keeper = Resting
    /\ txs = << >>
    /\ promised = {}
    /\ logCut = FALSE
    /\ crashes = 0
    /\ failures = 0

----------------------------------------------------------------------------
\* Mutant of Rewritten: the frames of the old file still count as synced.
RewrittenStillSynced(frames, next, compacted, sync) ==
    [made |-> TRUE, torn |-> FALSE, frames |-> frames, next |-> next,
     compacted |-> compacted, synced |-> wal.synced, headSynced |-> sync]

\* persist_entries: a temporary file, synced in Immediate mode, renamed over the log.
Rewritten(frames, next, compacted, sync) ==
    [made |-> TRUE, torn |-> FALSE, frames |-> frames, next |-> next,
     compacted |-> compacted, synced |-> IF sync THEN Len(frames) ELSE 0,
     headSynced |-> sync]

\* append_entries: the file is created, or the frame is appended to it.
Extended(frame) ==
    IF ~wal.made
    THEN Rewritten(<< frame >>, nextSeq, wal.compacted, Immediate)
    ELSE [wal EXCEPT !.frames = Append(@, frame),
                     !.synced = IF Immediate THEN Len(wal.frames) + 1 ELSE @,
                     !.headSynced = @ \/ Immediate]

\* sync_persistent_file
Synced(w) == [w EXCEPT !.synced = Len(w.frames), !.headSynced = TRUE]

\* compact_up_to: partition_point is a binary search, which on frames that are
\* out of order finds some place where the order changes.
Compactions(next, upto, sync) ==
    LET last == Min({upto, next})
        Ends == {e \in 0..Len(wal.frames) :
                    /\ e = 0 \/ wal.frames[e].seq <= last
                    /\ e = Len(wal.frames) \/ wal.frames[e + 1].seq > last}
    IN {Rewritten(SubSeq(wal.frames, e + 1, Len(wal.frames)), next,
                  Max({wal.compacted, last}), sync) : e \in Ends}

\* Mutant of FileNext: the numbers kept in the header are ignored.
FileNextOfFrames == IF wal.frames = << >> THEN 0 ELSE Last(wal.frames).seq

\* decode_append_wal
FileNext == Max({wal.next, wal.compacted}
                \cup (IF wal.frames = << >> THEN {} ELSE {Last(wal.frames).seq}))

\* Mutant of Applied: the marker is left to a later write.
AppliedUnmarked(s, tx, seq) ==
    [data |-> [k \in Keys |-> IF k \in txs[tx].keys THEN tx ELSE s.data[k]],
     marker |-> s.marker,
     done |-> s.done \cup {tx}]

\* The batch of commit_locked: the records and the applied marker.
Applied(s, tx, seq) ==
    [data |-> [k \in Keys |-> IF k \in txs[tx].keys THEN tx ELSE s.data[k]],
     marker |-> seq,
     done |-> s.done \cup {tx}]

----------------------------------------------------------------------------
(* The calls: BatchWriter::commit and put_system_audit_record.             *)

\* A call starts; WAL::append takes its number before the lock of the entries.
Begin(w, keys) ==
    /\ phase = "open" /\ op[w].pc = "idle"
    /\ op' = [op EXCEPT ![w] = [pc |-> "numbered", tx |-> Len(txs) + 1, seq |-> nextSeq + 1]]
    /\ nextSeq' = nextSeq + 1
    /\ txs' = Append(txs, [audit |-> w = "audit", keys |-> keys, answer |-> "none",
                           logged |-> FALSE])
    /\ UNCHANGED << config, wal, db, phase, replay, keeper, promised, logCut, bounds >>

BeginCommit ==
    /\ CommitLockFree
    /\ Cardinality({i \in DOMAIN txs : ~txs[i].audit}) < MaxCommits
    /\ \E keys \in SUBSET Keys \ {{}} : Begin("commit", keys)

BeginAudit ==
    /\ auditing
    /\ Cardinality({i \in DOMAIN txs : txs[i].audit}) < MaxAudits
    /\ Begin("audit", {})

AppendFrame(w) ==
    /\ op[w].pc = "numbered"
    /\ wal' = Extended([seq |-> op[w].seq, tx |-> op[w].tx])
    /\ op' = [op EXCEPT ![w].pc = "logged"]
    /\ txs' = [txs EXCEPT ![op[w].tx].logged = TRUE]
    /\ UNCHANGED << config, nextSeq, db, phase, replay, keeper, promised, logCut, bounds >>

ApplyBatch(w) ==
    /\ op[w].pc = "logged"
    /\ db' = Append(db, Applied(Stored, op[w].tx, op[w].seq))
    /\ op' = [op EXCEPT ![w].pc = "applied"]
    /\ UNCHANGED << config, wal, nextSeq, phase, replay, keeper, txs, promised, logCut, bounds >>

\* NoSync, and Batch before the interval is over.
AnswerBuffered(w) ==
    /\ op[w].pc = "applied" /\ ~Immediate
    /\ txs' = Answered(w, "ok")
    /\ op' = [op EXCEPT ![w] = Idle]
    /\ UNCHANGED << config, wal, nextSeq, db, phase, replay, keeper, promised, logCut, bounds >>

\* Batch after the interval: sync_wal_if_due syncs the log, then the backend.
SyncLog(w) ==
    /\ op[w].pc = "applied" /\ mode = "Batch"
    /\ wal' = Synced(wal)
    /\ op' = [op EXCEPT ![w].pc = "synced"]
    /\ UNCHANGED << config, nextSeq, db, phase, replay, keeper, txs, promised, logCut, bounds >>

\* Mutant of AnswerFlushed: the backend is not flushed.
AnswerUnflushed(w) ==
    /\ op[w].pc = (IF Immediate THEN "applied" ELSE "synced")
    /\ txs' = Answered(w, "ok")
    /\ promised' = Covered \cup {op[w].tx}
    /\ op' = [op EXCEPT ![w] = Idle]
    /\ UNCHANGED << config, wal, nextSeq, db, phase, replay, keeper, logCut, bounds >>

AnswerFlushed(w) ==
    /\ op[w].pc = (IF Immediate THEN "applied" ELSE "synced")
    /\ db' = << Stored >>
    /\ txs' = Answered(w, "ok")
    /\ promised' = Covered \cup {op[w].tx}
    /\ op' = [op EXCEPT ![w] = Idle]
    /\ UNCHANGED << config, wal, nextSeq, phase, replay, keeper, logCut, bounds >>

\* write_append_frames writes a length and then a frame: a writer that stops in
\* between leaves half of them in an existing file.
TornBy(ws) ==
    {wal.torn, wal.torn \/ (wal.made /\ \E w \in ws : op[w].pc = "numbered")}

\* An input or output error at any step ends the call with an error.  What was
\* done stays: the number, the frame, the batch, or the bytes of half a frame.
Fail(w) ==
    /\ op[w].pc # "idle" /\ failures < MaxFailures
    /\ failures' = failures + 1
    /\ txs' = Answered(w, "error")
    /\ op' = [op EXCEPT ![w] = Idle]
    /\ \E torn \in TornBy({w}) : wal' = [wal EXCEPT !.torn = torn]
    /\ UNCHANGED << config, nextSeq, db, phase, replay, keeper, promised, logCut, crashes >>

----------------------------------------------------------------------------
(* Maintenance: one call at a time.                                        *)

Maintain(next) == keeper' = next /\ UNCHANGED << config, nextSeq, phase, replay, op, txs, bounds >>

\* sync_wal_if_due from the worker of the asynchronous engine: no lock.
TickSync ==
    /\ phase = "open" /\ keeper.pc = "idle" /\ mode = "Batch"
    /\ wal' = Synced(wal)
    /\ UNCHANGED << db, promised, logCut >>
    /\ Maintain([Resting EXCEPT !.pc = "ticking"])

TickFlush ==
    /\ keeper.pc = "ticking"
    /\ db' = << Stored >>
    /\ promised' = Covered
    /\ UNCHANGED << wal, logCut >>
    /\ Maintain(Resting)

\* checkpoint_wal: flush the backend, read the marker, compact.  It also saves
\* the marker as copperdb.wal.snap, which recovery never reads.
CheckpointFlush ==
    /\ phase = "open" /\ keeper.pc = "idle" /\ CommitLockFree
    /\ db' = << Stored >>
    /\ promised' = Covered
    /\ UNCHANGED << wal, logCut >>
    /\ Maintain([Resting EXCEPT !.pc = "flushed"])

CheckpointMark ==
    /\ keeper.pc = "flushed"
    /\ UNCHANGED << wal, db, promised, logCut >>
    /\ Maintain([pc |-> "covering", upto |-> Stored.marker])

\* compact_applied_wal: no lock, no flush.
CompactAppliedMark ==
    /\ phase = "open" /\ keeper.pc = "idle"
    /\ UNCHANGED << wal, db, promised, logCut >>
    /\ Maintain([pc |-> "compacting", upto |-> Stored.marker])

\* The new log misses a frame that the durable backend does not hold, or that is
\* past the marker.
DropsNeeded ==
    \E i \in DOMAIN wal.frames :
        /\ wal.frames[i] \notin ToSet(wal'.frames)
        /\ wal.frames[i].tx \notin db[1].done \/ wal.frames[i].seq > Stored.marker

Compact ==
    /\ keeper.pc \in {"covering", "compacting"}
    /\ wal' \in Compactions(nextSeq, keeper.upto, Immediate)
    /\ logCut' = (logCut \/ (keeper.pc = "compacting" /\ DropsNeeded))
    /\ UNCHANGED << db, promised >>
    /\ Maintain(Resting)

\* A flush, a save or a rewrite that fails ends the call.
MaintenanceFails ==
    /\ keeper.pc # "idle" /\ failures < MaxFailures
    /\ failures' = failures + 1
    /\ keeper' = Resting
    /\ UNCHANGED << config, wal, nextSeq, db, phase, replay, op, txs, promised, logCut, crashes >>

----------------------------------------------------------------------------
(* Crashes and recovery.                                                   *)

Stop ==
    /\ phase # "down" /\ crashes < MaxCrashes
    /\ crashes' = crashes + 1
    /\ phase' = "down"
    /\ replay' = {}
    /\ op' = [w \in Writers |-> Idle]
    /\ keeper' = Resting
    /\ nextSeq' = 0
    /\ UNCHANGED << config, txs, promised, failures >>

\* The process ends, or is closed: what it wrote is with the operating system.
ProcessCrash ==
    /\ Stop
    /\ \E torn \in TornBy(Writers) : wal' = [wal EXCEPT !.torn = torn]
    /\ UNCHANGED << db, logCut >>

\* Power is lost: the backend keeps the batches up to some one since its flush,
\* the log its frames up to some one since its sync, or an empty file when it
\* was renamed into place unsynced.
PowerLoss ==
    /\ Stop
    /\ \E i \in DOMAIN db : db' = << db[i] >>
    /\ \/ \E n \in wal.synced..Len(wal.frames), torn \in BOOLEAN :
            /\ torn \in TornBy(Writers) \cup {wal.torn \/ n < Len(wal.frames)}
            /\ wal' = [wal EXCEPT !.frames = SubSeq(@, 1, n), !.synced = n,
                                  !.headSynced = TRUE, !.torn = torn]
       \/ ~wal.headSynced /\ wal' = NoFile
    /\ logCut' = (logCut \/ wal'.frames # wal.frames \/ wal'.made # wal.made)

\* Mutant of Open: the frame at the marker is taken as unapplied.
OpenFromMarker ==
    /\ phase = "down" /\ ~wal.torn
    /\ nextSeq' = FileNext
    /\ replay' = {n \in DOMAIN wal.frames : wal.frames[n].seq >= Stored.marker}
    /\ phase' = IF replay' = {} THEN "open" ELSE "recovering"
    /\ UNCHANGED << config, wal, db, op, keeper, txs, promised, logCut, bounds >>

\* open: WAL::open refuses a file that ends in half a frame; otherwise
\* recover_wal_transactions collects the frames after the marker.
Open ==
    /\ phase = "down" /\ ~wal.torn
    /\ nextSeq' = FileNext
    /\ replay' = {n \in DOMAIN wal.frames : wal.frames[n].seq > Stored.marker}
    /\ phase' = IF replay' = {} THEN "open" ELSE "recovering"
    /\ UNCHANGED << config, wal, db, op, keeper, txs, promised, logCut, bounds >>

\* commit_with_wal_sequence: the batch of one frame, and the sync of its mode.
Replay ==
    /\ phase = "recovering"
    /\ LET f == wal.frames[Min(replay)]
           s == Applied(Stored, f.tx, f.seq) IN
       \/ ~Immediate /\ db' = Append(db, s) /\ UNCHANGED wal
       \/ Immediate /\ db' = << s >> /\ UNCHANGED wal
       \/ mode = "Batch" /\ db' = << s >> /\ wal' = Synced(wal)
    /\ replay' = replay \ {Min(replay)}
    /\ phase' = IF replay' = {} THEN "open" ELSE "recovering"
    /\ UNCHANGED << config, nextSeq, op, keeper, txs, promised, logCut, bounds >>

\* repair_wal_if_fully_applied, offline, with the default WALConfig (NoSync).
Repair ==
    /\ phase = "down" /\ ~wal.torn
    /\ FileNext <= Stored.marker
    /\ wal' \in Compactions(FileNext, Stored.marker, FALSE)
    /\ logCut' = (logCut \/ DropsNeeded)
    /\ UNCHANGED << config, nextSeq, db, phase, replay, op, keeper, txs, promised, bounds >>

Next ==
    \/ BeginCommit \/ BeginAudit
    \/ \E w \in Writers :
          \/ AppendFrame(w) \/ ApplyBatch(w) \/ AnswerBuffered(w)
          \/ SyncLog(w) \/ AnswerFlushed(w) \/ Fail(w)
    \/ TickSync \/ TickFlush
    \/ CheckpointFlush \/ CheckpointMark \/ CompactAppliedMark \/ Compact
    \/ MaintenanceFails
    \/ ProcessCrash \/ PowerLoss \/ Open \/ Replay \/ Repair

Spec == Init /\ [][Next]_vars

----------------------------------------------------------------------------
(* Properties.                                                             *)

Frames == [seq : Nat \ {0}, tx : DOMAIN txs]

\* The shape of every variable; a frame that was synced is in the file, and no
\* frame carries a number the open log has not given out.
TypeOK ==
    /\ mode \in Modes /\ auditing \in BOOLEAN /\ logCut \in BOOLEAN
    /\ phase \in {"down", "recovering", "open"}
    /\ wal.frames \in Seq(Frames) /\ replay \subseteq DOMAIN wal.frames
    /\ wal.synced \in 0..Len(wal.frames)
    /\ {wal.made, wal.torn, wal.headSynced} \subseteq BOOLEAN
    /\ phase # "down" => \A i \in DOMAIN wal.frames : auditing \/ wal.frames[i].seq <= nextSeq
    /\ db # << >>
    /\ \A i \in DOMAIN db :
          /\ db[i].data \in [Keys -> {0} \cup DOMAIN txs]
          /\ db[i].marker \in Nat /\ db[i].done \subseteq DOMAIN txs
    /\ op \in [Writers -> [pc : {"idle", "numbered", "logged", "applied", "synced"},
                           tx : {0} \cup DOMAIN txs, seq : Nat]]
    /\ keeper \in [pc : {"idle", "ticking", "flushed", "covering", "compacting"}, upto : Nat]
    /\ txs \in Seq([audit : BOOLEAN, keys : SUBSET Keys,
                    answer : {"none", "ok", "error"}, logged : BOOLEAN])
    /\ promised \subseteq DOMAIN txs

\* What a sync barrier covered survives every crash, replay, compaction and
\* repair: an Immediate commit that was acknowledged, a Batch commit acknowledged
\* before a barrier that completed, anything acknowledged before a checkpoint.  An
\* audit record is never overwritten and never lost.  The records of a commit show
\* it or something newer as long as no audit record is written: those put the
\* numbers of the log out of order, and a commit after a restart can then take a
\* number below one in the log, whose older commit the next recovery replays over it.
PromisedSurvive ==
    phase = "open" =>
        \A i \in promised :
            i \in Stored.done /\ (~auditing => \A k \in txs[i].keys : Stored.data[k] >= i)

\* No recovery leaves part of a commit: if one record still shows it, its other
\* records show it or something newer.
NoPartialTransaction ==
    phase = "open" =>
        \A k \in Keys : Stored.data[k] # 0 =>
            \A j \in txs[Stored.data[k]].keys : Stored.data[j] >= Stored.data[k]

\* The same while no audit record can move the marker back: then the frames past
\* the marker are those of the commits after it, whatever the crashes took.
RecoveryWhole == ~auditing => NoPartialTransaction

\* A commit whose frame was written and that was not answered with an error is in
\* the backend or waits in the log past the marker: numbering after a restart,
\* compaction, repair and the marker never hide its frame from recovery.  Left out
\* are stores with audit records, which move the marker outside the commit lock, and
\* every state after the log lost a frame recovery may need: to a power loss that
\* took part of the log, to a compact_applied_wal that dropped a frame the backend
\* had not flushed (see CompactsOnlyDurable), or to a repair that dropped one.
LoggedNeverForgotten ==
    ~auditing /\ ~logCut =>
        \A i \in DOMAIN txs : txs[i].logged /\ txs[i].answer # "error" =>
            \/ i \in Stored.done
            \/ \E n \in DOMAIN wal.frames :
                  wal.frames[n].tx = i /\ wal.frames[n].seq > Stored.marker

\* In a store without audit records recovery applies no frame twice, a crash during
\* recovery included.  Where they are written it does: an audit record moves the
\* marker back over commits that were applied, and the next recovery replays them.
ReplaysOnlyUnapplied ==
    [][~auditing /\ replay # {} /\ phase' # "down" =>
         wal.frames[Min(replay)].tx \notin Stored.done]_vars

\* The doc comment of compact_applied_wal (lib.rs:3042): it compacts only frames
\* already made durable in Fjall.  Of the batches the backend was given, it drops
\* the frames of those that a power loss would not take.
CompactsOnlyDurable ==
    [][keeper.pc = "compacting" /\ keeper'.pc = "idle" =>
         \A i \in DOMAIN wal.frames :
             LET f == wal.frames[i] IN
             f.tx \in Stored.done /\ f \notin ToSet(wal'.frames) => f.tx \in db[1].done]_vars

----------------------------------------------------------------------------
(* What the callers see: DurableHistory.                                   *)

\* The calls in effect: those of the backend, and while the store is not open
\* those whose frames the next recovery will apply.
Visible ==
    Stored.done \cup
    {wal.frames[n].tx : n \in {p \in DOMAIN wal.frames :
                                  phase # "open" /\ wal.frames[p].seq > Stored.marker}}

NewestOf(seen) == [k \in Keys |-> Max({0} \cup {i \in seen : k \in txs[i].keys})]

History == INSTANCE DurableHistory WITH
    immediate <- Immediate,
    calls <- [i \in DOMAIN txs |-> [keys |-> txs[i].keys, answer |-> txs[i].answer]],
    visible <- Visible,
    stable <- promised,
    shown <- IF phase = "open" THEN Stored.data ELSE NewestOf(Visible)

\* A store without audit records implements DurableHistory: commits take effect
\* whole and in order, recovery restores the newest state a crash left in the
\* backend and the log together, an acknowledged commit that a power loss took
\* stays gone, and no barrier's promise is broken.
ImplementsDurableHistory ==
    (~auditing => History!Init) /\ [][~auditing => History!Next]_(History!vars)
============================================================================
