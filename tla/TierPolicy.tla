----------------------------- MODULE TierPolicy -----------------------------
(***************************************************************************)
(* Executions of SOBR policies: every request builds a lifecycle engine of *)
(* its own and has it move aged backups from the performance to the        *)
(* capacity tier and on to the archive, seal old ones and delete expired   *)
(* ones.  No lock keeps two requests apart.  The policies of one daemon    *)
(* share its index and, here, their tiers.                                 *)
(*                                                                         *)
(* Where a backup lives is only known to the engine that moved it, so the  *)
(* next execution takes every backup to be on the performance tier again.  *)
(* A move releases the index references of a backup that goes on existing. *)
(* The seals of a tier are a list in one block: whoever seals a backup     *)
(* reads the list, and a list that cannot be read is an empty one.         *)
(***************************************************************************)
EXTENDS Integers, FiniteSets

CONSTANTS
    TierCall,            \* requests that execute a policy
    Backup, Sha,         \* snapshots of the index, and blocks
    BlocksIn,            \* the blocks each backup's manifest lists
    Policy,              \* [move, archive, seal, retain]: days, Never if unset
    Never,               \* more days than any backup reaches
    LastDay,             \* bound on the age of a backup
    TierRuns             \* bound on the executions

Limits == [move : Nat, archive : Nat, seal : Nat, retain : Nat]

ASSUME TierAssumption ==
    /\ BlocksIn \in [Backup -> SUBSET Sha]
    /\ IsFiniteSet(Backup)
    /\ LastDay \in Nat /\ Never \in Nat /\ LastDay < Never /\ TierRuns \in Nat
    /\ Policy \subseteq Limits

Perf == "performance"  Cap == "capacity"  Arch == "archive"
Tier == {Perf, Cap, Arch}

VARIABLES
    age,         \* days since the backup was created
    indexed,     \* backups with a snapshot row and a manifest
    refs,        \* blocks.refcount
    stored,      \* blocks on the backend of each tier
    sealed,      \* the seal index of each tier
    call,        \* the execution of each request
    runs         \* executions so far

(* History: no action's guard reads these.  The last four are about the    *)
(* performance tier, where backups are written.                            *)
VARIABLES
    released,    \* backups that have released their references
    everSealed,  \* backups that have been on its seal list
    unread,      \* sealed backups that a failed read took for unsealed
    overwritten, \* backups that a write took off its seal list
    overtaken    \* backups sealed after an execution had judged them, or deleted them

seals == <<everSealed, unread, overwritten, overtaken>>
tierVars == <<age, indexed, refs, stored, sealed, call, runs, released, seals>>

(***************************************************************************)
(* listed: backups whose seal is still to be looked up in this phase; todo *)
(* those that were found unsealed; at: the one in hand, with the blocks    *)
(* left of it, the block freed and not yet deleted, or the seal list read. *)
(* placed is DataLifecycleEngine.placements, Perf where there is no entry. *)
(***************************************************************************)
TierPhase == {"idle", "move", "archive", "seal", "retain"}
TierStep == {"look", "copy", "delete", "release", "read", "write"}
Execution == [phase : TierPhase, step : TierStep, policy : Limits,
              listed : SUBSET Backup, todo : SUBSET Backup, at : SUBSET Backup,
              left : SUBSET Sha, freed : SUBSET Sha, list : SUBSET Backup,
              placed : [Backup -> Tier]]
Idle == [phase |-> "idle", step |-> "look",
         policy |-> [move |-> Never, archive |-> Never, seal |-> Never, retain |-> Never],
         listed |-> {}, todo |-> {}, at |-> {}, left |-> {}, freed |-> {}, list |-> {},
         placed |-> [b \in Backup |-> Perf]]

TierTypeOK ==
    /\ age \in [Backup -> 0 .. LastDay] /\ indexed \subseteq Backup
    /\ refs \in [Sha -> 0 .. Cardinality(Backup)]
    /\ stored \in [Tier -> SUBSET Sha] /\ sealed \in [Tier -> SUBSET Backup]
    /\ call \in [TierCall -> Execution] /\ runs \in 0 .. TierRuns
    /\ released \subseteq Backup /\ everSealed \subseteq Backup
    /\ unread \subseteq Backup /\ overwritten \subseteq Backup /\ overtaken \subseteq Backup

TierInit ==
    /\ age \in [Backup -> {0, LastDay}] /\ indexed = Backup
    /\ refs = [h \in Sha |-> Cardinality({b \in Backup : h \in BlocksIn[b]})]
    /\ stored = [t \in Tier |-> IF t = Perf THEN UNION {BlocksIn[b] : b \in Backup} ELSE {}]
    /\ sealed = [t \in Tier |-> {}]
    /\ call = [c \in TierCall |-> Idle] /\ runs = 0
    /\ released = {} /\ everSealed = {} /\ unread = {} /\ overwritten = {} /\ overtaken = {}

Becomes(c, e) == call' = [call EXCEPT ![c] = e]

Placement(c, b) == call[c].placed[b]
Sealed(c, b) == b \in sealed[Placement(c, b)]
Aged(days) == {b \in indexed : age[b] >= days}
InHand(c) == CHOOSE b \in Backup : call[c].at = {b}

(* age_evaluate and the placements that a phase is about *)
Listed(p, phase, placed) ==
    CASE phase = "move"    -> {b \in Aged(p.move) : placed[b] = Perf}
      [] phase = "archive" -> {b \in Aged(p.archive) : placed[b] = Cap}
      [] phase = "seal"    -> Aged(p.seal)
      [] phase = "retain"  -> Aged(p.retain)

Source(c) ==
    CASE call[c].phase = "move" -> Perf
      [] call[c].phase = "archive" -> Cap
      [] OTHER -> Placement(c, InHand(c))
Target(c) == IF call[c].phase = "move" THEN Cap ELSE Arch

TierExecute(c, p) ==
    /\ call[c].phase = "idle" /\ runs < TierRuns /\ runs' = runs + 1
    /\ Becomes(c, [Idle EXCEPT !.phase = "move", !.policy = p, !.listed = Listed(p, "move", Idle.placed)])
    /\ UNCHANGED <<age, indexed, refs, stored, sealed, released, seals>>

(* A phase is over; the backups of the next are looked up now. *)
NextPhase(c) ==
    CASE call[c].phase = "move" -> "archive" [] call[c].phase = "archive" -> "seal"
      [] OTHER -> "retain"

TierAdvance(c) ==
    LET e == call[c] IN
    /\ e.phase # "idle" /\ e.step = "look" /\ e.listed = {} /\ e.todo = {}
    /\ Becomes(c, IF e.phase = "retain" THEN Idle
                  ELSE [e EXCEPT !.phase = NextPhase(c),
                                 !.listed = Listed(e.policy, NextPhase(c), e.placed)])
    /\ UNCHANGED <<runs, age, indexed, refs, stored, sealed, released, seals>>

(***************************************************************************)
(* evaluate_movement, evaluate_archival and evaluate_cleanup look one seal *)
(* up after the other; unwrap_or(false), and the empty list of a read that *)
(* failed, make a backup an unsealed one.                                  *)
(***************************************************************************)
TierLook(c, b, readable) ==
    /\ call[c].phase \in {"move", "archive", "retain"} /\ b \in call[c].listed
    /\ Becomes(c, [call[c] EXCEPT !.listed = @ \ {b},
                                  !.todo = IF readable /\ Sealed(c, b) THEN @ ELSE @ \cup {b}])
    /\ unread' = IF ~readable /\ Placement(c, b) = Perf /\ b \in sealed[Perf]
                 THEN unread \cup {b} ELSE unread
    /\ UNCHANGED <<runs, age, indexed, refs, stored, sealed, released, everSealed, overwritten,
                   overtaken>>

(***************************************************************************)
(* seal_expired looks a backup up and seals it at once: seal_backup reads  *)
(* the list again, and writes the whole of it back.                        *)
(***************************************************************************)
TierLookAtSeal(c, b, readable) ==
    /\ call[c].phase = "seal" /\ call[c].step = "look" /\ b \in call[c].listed
    /\ Becomes(c, IF readable /\ Sealed(c, b) THEN [call[c] EXCEPT !.listed = @ \ {b}]
                  ELSE [call[c] EXCEPT !.listed = @ \ {b}, !.at = {b}, !.step = "read"])
    /\ UNCHANGED <<runs, age, indexed, refs, stored, sealed, released, seals>>

TierReadList(c, readable) ==
    /\ call[c].step = "read"
    /\ Becomes(c, [call[c] EXCEPT !.step = "write",
                     !.list = IF readable THEN sealed[Placement(c, InHand(c))] ELSE {}])
    /\ UNCHANGED <<runs, age, indexed, refs, stored, sealed, released, seals>>

\* Request d goes by what it knew of b: it has found b unsealed, or moved it.
Judged(d, b) ==
    \/ b \in call[d].todo \/ Placement(d, b) # Perf
    \/ call[d].phase # "seal" /\ b \in call[d].at

TierSeal(c) ==
    LET tier == Placement(c, InHand(c))
        list == call[c].list \cup call[c].at
        onPerf == IF tier = Perf THEN list ELSE sealed[Perf]
    IN  /\ call[c].step = "write"
        /\ sealed' = [sealed EXCEPT ![tier] = list]
        /\ Becomes(c, [call[c] EXCEPT !.step = "look", !.at = {}, !.list = {}])
        /\ everSealed' = everSealed \cup onPerf
        /\ overwritten' = overwritten \cup (sealed[Perf] \ onPerf)
        /\ overtaken' = overtaken \cup {b \in onPerf \ sealed[Perf] :
                                           b \notin indexed \/ \E d \in TierCall : Judged(d, b)}
        /\ UNCHANGED <<runs, age, indexed, refs, stored, released, unread>>

(***************************************************************************)
(* A backup is taken up.  Without its manifest a move ends the execution,  *)
(* and retention goes on to the next one.                                  *)
(***************************************************************************)
TierTake(c, b) ==
    LET e == call[c] IN
    /\ e.phase \in {"move", "archive", "retain"} /\ e.step = "look"
    /\ e.listed = {} /\ b \in e.todo
    /\ Becomes(c,
         IF b \in indexed
         THEN [e EXCEPT !.todo = @ \ {b}, !.at = {b}, !.left = BlocksIn[b],
                        !.step = IF e.phase = "retain" THEN "delete" ELSE "copy"]
         ELSE IF e.phase = "retain" THEN [e EXCEPT !.todo = @ \ {b}] ELSE Idle)
    /\ UNCHANGED <<runs, age, indexed, refs, stored, sealed, released, seals>>

(***************************************************************************)
(* copy_blocks_to copies all blocks.  One that the source does not have    *)
(* ends the whole execution.                                               *)
(***************************************************************************)
\* Mutant: a block that could not be written to the target is passed over.
MutantTierCopy(c, h) ==
    /\ call[c].step = "copy" /\ h \in call[c].left
    /\ \E written \in SUBSET {h} : stored' = [stored EXCEPT ![Target(c)] = @ \cup written]
    /\ Becomes(c, [call[c] EXCEPT !.left = @ \ {h}])
    /\ UNCHANGED <<runs, age, indexed, refs, sealed, released, seals>>

TierCopy(c, h) ==
    /\ call[c].step = "copy" /\ h \in call[c].left
    /\ IF h \in stored[Source(c)]
       THEN /\ stored' = [stored EXCEPT ![Target(c)] = @ \cup {h}]
            /\ Becomes(c, [call[c] EXCEPT !.left = @ \ {h}])
       ELSE Becomes(c, Idle) /\ UNCHANGED stored
    /\ UNCHANGED <<runs, age, indexed, refs, sealed, released, seals>>

TierCopied(c) ==
    /\ call[c].step = "copy" /\ call[c].left = {}
    /\ Becomes(c, [call[c] EXCEPT !.step = "release", !.left = BlocksIn[InHand(c)]])
    /\ UNCHANGED <<runs, age, indexed, refs, stored, sealed, released, seals>>

(* apply_retention: the snapshot row goes before the references. *)
TierDelete(c) ==
    /\ call[c].step = "delete"
    /\ indexed' = indexed \ call[c].at
    /\ Becomes(c, [call[c] EXCEPT !.step = "release"])
    /\ UNCHANGED <<runs, age, refs, stored, sealed, released, seals>>

(***************************************************************************)
(* remove_block answers TRUE when it took the last reference; the block is *)
(* then deleted at the source, in a call of its own.                       *)
(***************************************************************************)
\* Mutant: the count is not kept from going below zero.
MutantTierRelease(c, h) ==
    /\ call[c].step = "release" /\ call[c].freed = {} /\ h \in call[c].left
    /\ refs' = [refs EXCEPT ![h] = @ - 1]
    /\ Becomes(c, [call[c] EXCEPT !.left = @ \ {h}, !.freed = IF refs[h] = 1 THEN {h} ELSE {}])
    /\ released' = released \cup call[c].at
    /\ UNCHANGED <<runs, age, indexed, stored, sealed, seals>>

TierRelease(c, h) ==
    /\ call[c].step = "release" /\ call[c].freed = {} /\ h \in call[c].left
    /\ refs' = [refs EXCEPT ![h] = IF @ > 0 THEN @ - 1 ELSE 0]
    /\ Becomes(c, [call[c] EXCEPT !.left = @ \ {h}, !.freed = IF refs[h] = 1 THEN {h} ELSE {}])
    /\ released' = released \cup call[c].at
    /\ UNCHANGED <<runs, age, indexed, stored, sealed, seals>>

TierErase(c) ==
    /\ call[c].freed # {}
    /\ stored' = [stored EXCEPT ![Source(c)] = @ \ call[c].freed]
    /\ Becomes(c, [call[c] EXCEPT !.freed = {}])
    /\ UNCHANGED <<runs, age, indexed, refs, sealed, released, seals>>

(* set_placement, remove_placement *)
TierPlace(c) ==
    /\ call[c].step = "release" /\ call[c].left = {} /\ call[c].freed = {}
    /\ Becomes(c, [call[c] EXCEPT !.step = "look", !.at = {},
         !.placed = [@ EXCEPT ![InHand(c)] = IF call[c].phase = "retain" THEN Perf ELSE Target(c)]])
    /\ UNCHANGED <<runs, age, indexed, refs, stored, sealed, released, seals>>

(* A backend or index call fails, the caller goes away or the daemon dies. *)
TierAbort(c) ==
    /\ call[c].phase # "idle" /\ Becomes(c, Idle)
    /\ UNCHANGED <<runs, age, indexed, refs, stored, sealed, released, seals>>

Day ==
    /\ \E b \in Backup : age[b] < LastDay
    /\ age' = [b \in Backup |-> IF age[b] < LastDay THEN age[b] + 1 ELSE LastDay]
    /\ UNCHANGED <<runs, indexed, refs, stored, sealed, call, released, seals>>

ExecutionStep(c) ==
    \/ \E p \in Policy : TierExecute(c, p)
    \/ TierAdvance(c) \/ TierCopied(c) \/ TierDelete(c) \/ TierErase(c) \/ TierPlace(c)
    \/ TierSeal(c) \/ TierAbort(c)
    \/ \E b \in Backup : TierTake(c, b)
    \/ \E h \in Sha : TierCopy(c, h) \/ TierRelease(c, h)
    \/ \E readable \in BOOLEAN :
        \/ TierReadList(c, readable)
        \/ \E b \in Backup : TierLook(c, b, readable) \/ TierLookAtSeal(c, b, readable)

TierNext == Day \/ \E c \in TierCall : ExecutionStep(c)

TierSpec == TierInit /\ [][TierNext]_tierVars
----------------------------------------------------------------------------
(***************************************************************************)
(* A backup that is in the index has every block on some tier, unless a    *)
(* backup that shares the block has released its references: a move by     *)
(* itself loses nothing, whatever other executions do at the same time.    *)
(***************************************************************************)
MoveKeepsBlocks ==
    \A b \in indexed, h \in Sha :
        h \in BlocksIn[b] /\ (\A d \in released \ {b} : h \notin BlocksIn[d])
        => \E t \in Tier : h \in stored[t]

(***************************************************************************)
(* A backup that was sealed where new backups are written and is deleted   *)
(* was taken for unsealed because the list could not be read, was taken    *)
(* off the list by another write, or was sealed too late for an execution  *)
(* that had already judged it.  (One that was sealed after a move is not   *)
(* even looked up: the next execution looks on the performance tier.)      *)
(***************************************************************************)
SealLossExplained ==
    \A b \in everSealed \ indexed : b \in unread \cup overwritten \cup overtaken

(* A policy loses nothing by itself: neither the blocks of a backup it moves nor a seal's backup. *)
TiersSound == MoveKeepsBlocks /\ SealLossExplained
=============================================================================
