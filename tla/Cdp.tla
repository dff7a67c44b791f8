-------------------------------- MODULE Cdp --------------------------------
(***************************************************************************)
(* Continuous data protection: per session a watcher thread puts change    *)
(* events in a bounded channel, and a loop takes them out, counts them and *)
(* writes them to the journal (a SQLite table and a file).  A stop only    *)
(* sets the status: the loop reads it at its next checkpoint, and then the *)
(* watcher, which cannot be aborted, outlives it.  A restart of the daemon *)
(* forgets the sessions, and whatever was in memory.                       *)
(*                                                                         *)
(* Changes of a session's paths are numbered 1 .. Changes in the order     *)
(* they happen.                                                            *)
(***************************************************************************)
EXTENDS Naturals, Sequences, SequencesExt, FiniteSets

CONSTANTS
    CdpSession,   \* sessions
    Changes,      \* bound on the changes of a session's paths
    ChannelSize   \* capacity of the channel (1024)

ASSUME CdpAssumption == Changes \in Nat /\ ChannelSize \in Nat \ {0}

VARIABLES
    status,       \* CdpSession.status; "none" before the start, "gone" after a restart
    watcher,      \* "none", "starting", "watching", "failed" (or gone)
    changes,      \* changes of the session's paths so far
    channel,      \* events on their way to the loop
    loop,         \* where the loop is: "select", "journal", "file", "ended"
    event,        \* the event in the loop's hands, 0 when there is none
    tracked,      \* CdpSession.changes_tracked
    table,        \* rows of cdp_journal in the order of their ids
    file,         \* lines of cdp-journal-<session>.log
    checkpoint    \* last_checkpoint, as the number of changes there were by then

(* History: no action reads these. *)
VARIABLES
    unwatched,    \* changes before the watcher watched, or without one
    unreported,   \* changes notify had an error for, or an event of another kind
    overrun,      \* events that found the channel full
    refused,      \* events whose row could not be written
    late,         \* events that were in the channel, or came, when the loop ended
    stranded      \* events that a restart found in the channel or in the loop's hands

cdpVars == <<status, watcher, changes, channel, loop, event, tracked, table, file,
             checkpoint, unwatched, unreported, overrun, refused, late, stranded>>

Events == 1 .. Changes

CdpTypeOK ==
    /\ status \in [CdpSession -> {"none", "Active", "Stopped", "gone"}]
    /\ watcher \in [CdpSession -> {"none", "starting", "watching", "failed"}]
    /\ changes \in [CdpSession -> 0 .. Changes] /\ tracked \in [CdpSession -> 0 .. Changes]
    /\ loop \in [CdpSession -> {"none", "select", "journal", "file", "ended"}]
    /\ event \in [CdpSession -> 0 .. Changes] /\ checkpoint \in [CdpSession -> 0 .. Changes]
    /\ \A s \in CdpSession :
        /\ Len(channel[s]) <= ChannelSize
        /\ ToSet(channel[s]) \cup ToSet(table[s]) \cup ToSet(file[s]) \subseteq Events
        /\ unwatched[s] \cup unreported[s] \cup overrun[s] \cup refused[s] \cup late[s]
               \cup stranded[s] \subseteq Events

CdpInit ==
    /\ status = [s \in CdpSession |-> "none"] /\ watcher = status /\ loop = status
    /\ changes = [s \in CdpSession |-> 0] /\ event = changes /\ tracked = changes
    /\ channel = [s \in CdpSession |-> <<>>] /\ table = channel /\ file = channel
    /\ checkpoint = changes
    /\ unwatched = [s \in CdpSession |-> {}]
    /\ unreported = unwatched /\ overrun = unwatched /\ refused = unwatched
    /\ late = unwatched /\ stranded = unwatched

Set(f, s, x) == [f EXCEPT ![s] = x]

(***************************************************************************)
(* The session is pushed, the watcher spawned and the journal opened.  If  *)
(* the journal cannot be opened the call ends with the error: the session  *)
(* is listed as Active and the watcher runs, with no loop behind it.       *)
(***************************************************************************)
StartProtection(s, opened) ==
    /\ status[s] = "none"
    /\ status' = Set(status, s, "Active")
    /\ watcher' = Set(watcher, s, "starting")
    /\ loop' = Set(loop, s, IF opened THEN "select" ELSE "ended")
    /\ UNCHANGED <<changes, channel, event, tracked, table, file, checkpoint, unwatched,
                   unreported, overrun, refused, late, stranded>>

(* A path that cannot be watched ends the watcher with a warning. *)
WatcherStarts(s, ok) ==
    /\ watcher[s] = "starting"
    /\ watcher' = Set(watcher, s, IF ok THEN "watching" ELSE "failed")
    /\ UNCHANGED <<status, changes, channel, loop, event, tracked, table, file, checkpoint,
                   unwatched, unreported, overrun, refused, late, stranded>>

\* Mutant: the channel takes whatever is sent.
MutantChange(s, reported) ==
    /\ watcher[s] = "watching" /\ reported /\ loop[s] # "ended" /\ changes[s] < Changes
    /\ changes' = Set(changes, s, changes[s] + 1)
    /\ channel' = Set(channel, s, Append(channel[s], changes[s] + 1))
    /\ UNCHANGED <<status, watcher, loop, event, tracked, table, file, checkpoint, unwatched,
                   unreported, overrun, refused, late, stranded>>

(***************************************************************************)
(* A file changes.  notify may have an error for it, or an event that is   *)
(* neither a creation, a modification nor a removal (the Rescan of a queue *)
(* that overflowed in the kernel): the watcher warns or goes on.  Of the   *)
(* others handle_event tries to send, and drops what it cannot.            *)
(***************************************************************************)
Change(s, reported) ==
    LET e == changes[s] + 1
        Lost(f) == f' = Set(f, s, f[s] \cup {e})
    IN  /\ status[s] # "none" /\ changes[s] < Changes
        /\ changes' = Set(changes, s, e)
        /\ IF watcher[s] # "watching"
           THEN Lost(unwatched) /\ UNCHANGED <<channel, unreported, overrun, late>>
           ELSE IF ~reported
           THEN Lost(unreported) /\ UNCHANGED <<channel, unwatched, overrun, late>>
           ELSE IF loop[s] = "ended"
           THEN Lost(late) /\ UNCHANGED <<channel, unwatched, unreported, overrun>>
           ELSE IF Len(channel[s]) = ChannelSize
           THEN Lost(overrun) /\ UNCHANGED <<channel, unwatched, unreported, late>>
           ELSE /\ channel' = Set(channel, s, Append(channel[s], e))
                /\ UNCHANGED <<unwatched, unreported, overrun, late>>
        /\ UNCHANGED <<status, watcher, loop, event, tracked, table, file, checkpoint, refused,
                       stranded>>

(***************************************************************************)
(* The loop: select! takes an event or the ticker, whichever it likes.     *)
(***************************************************************************)
Receive(s) ==
    /\ loop[s] = "select" /\ channel[s] # <<>>
    /\ event' = Set(event, s, Head(channel[s]))
    /\ channel' = Set(channel, s, Tail(channel[s]))
    /\ tracked' = Set(tracked, s, tracked[s] + 1)
    /\ loop' = Set(loop, s, "journal")
    /\ UNCHANGED <<status, watcher, changes, table, file, checkpoint, unwatched, unreported,
                   overrun, refused, late, stranded>>

(* A row that cannot be written is only warned of. *)
Record(s, ok) ==
    /\ loop[s] = "journal"
    /\ loop' = Set(loop, s, "file")
    /\ table' = IF ok THEN Set(table, s, Append(table[s], event[s])) ELSE table
    /\ refused' = IF ok THEN refused ELSE Set(refused, s, refused[s] \cup {event[s]})
    /\ UNCHANGED <<status, watcher, changes, channel, event, tracked, file, checkpoint,
                   unwatched, unreported, overrun, late, stranded>>

WriteLine(s, ok) ==
    /\ loop[s] = "file"
    /\ loop' = Set(loop, s, "select") /\ event' = Set(event, s, 0)
    /\ file' = IF ok THEN Set(file, s, Append(file[s], event[s])) ELSE file
    /\ UNCHANGED <<status, watcher, changes, channel, tracked, table, checkpoint, unwatched,
                   unreported, overrun, refused, late, stranded>>

Checkpoint(s) ==
    /\ loop[s] = "select" /\ status[s] = "Active"
    /\ checkpoint' = Set(checkpoint, s, changes[s])
    /\ UNCHANGED <<status, watcher, changes, channel, loop, event, tracked, table, file,
                   unwatched, unreported, overrun, refused, late, stranded>>

\* Mutant: what is left in the channel is taken as recorded.
MutantEndLoop(s) ==
    /\ loop[s] = "select" /\ status[s] = "Stopped"
    /\ loop' = Set(loop, s, "ended") /\ channel' = Set(channel, s, <<>>)
    /\ UNCHANGED <<status, watcher, changes, event, tracked, table, file, checkpoint, unwatched,
                   unreported, overrun, refused, late, stranded>>

(* The tick that reads Stopped drops the channel with what it holds. *)
EndLoop(s) ==
    /\ loop[s] = "select" /\ status[s] = "Stopped"
    /\ loop' = Set(loop, s, "ended") /\ channel' = Set(channel, s, <<>>)
    /\ late' = Set(late, s, late[s] \cup ToSet(channel[s]))
    /\ UNCHANGED <<status, watcher, changes, event, tracked, table, file, checkpoint, unwatched,
                   unreported, overrun, refused, stranded>>

StopProtection(s) ==
    /\ status[s] = "Active"
    /\ status' = Set(status, s, "Stopped")
    /\ UNCHANGED <<watcher, changes, channel, loop, event, tracked, table, file, checkpoint,
                   unwatched, unreported, overrun, refused, late, stranded>>

LoopStep(s) ==
    \/ Receive(s) \/ Checkpoint(s) \/ EndLoop(s)
    \/ \E ok \in BOOLEAN : Record(s, ok) \/ WriteLine(s, ok)

(***************************************************************************)
(* The daemon stops, or dies, and comes up again: the policies are         *)
(* hydrated and the sessions are not, so nothing watches until a new       *)
(* session is started.                                                     *)
(***************************************************************************)
Started == {s \in CdpSession : status[s] # "none"}

InHands(s) == IF loop[s] = "journal" THEN {event[s]} ELSE {}

AtStarted(f, x) == [s \in CdpSession |-> IF s \in Started THEN x ELSE f[s]]

DaemonRestart ==
    /\ Started # {}
    /\ status' = AtStarted(status, "gone") /\ watcher' = AtStarted(watcher, "failed")
    /\ loop' = AtStarted(loop, "ended")
    /\ channel' = AtStarted(channel, <<>>) /\ event' = AtStarted(event, 0)
    /\ tracked' = AtStarted(tracked, 0)
    /\ stranded' = [s \in CdpSession |-> stranded[s] \cup ToSet(channel[s]) \cup InHands(s)]
    /\ UNCHANGED <<changes, table, file, checkpoint, unwatched, unreported, overrun, refused, late>>

CdpNext ==
    \/ DaemonRestart
    \/ \E s \in CdpSession :
        \/ StopProtection(s) \/ LoopStep(s)
        \/ \E ok \in BOOLEAN :
            Change(s, ok) \/ StartProtection(s, ok) \/ WatcherStarts(s, ok)

CdpSpec == CdpInit /\ [][CdpNext]_cdpVars
----------------------------------------------------------------------------
(***************************************************************************)
(* The counter a caller reads of a session that is listed runs ahead of    *)
(* the table by the event in the loop's hands and by the rows that were    *)
(* refused, and by nothing else.                                           *)
(***************************************************************************)
TrackedExplained(s) ==
    status[s] # "gone" =>
        tracked[s] = Len(table[s]) + Cardinality(refused[s])
                     + (IF loop[s] = "journal" THEN 1 ELSE 0)

(***************************************************************************)
(* Every change is in the table, once and in order, or is lost for one of  *)
(* six reasons: nothing watched, it was not reported as a change, the      *)
(* channel was full, the row was refused, the loop had ended, or a restart *)
(* found it on its way.                                                    *)
(***************************************************************************)
AccountedAt(s) ==
    /\ 1 .. changes[s] = ToSet(table[s]) \cup ToSet(channel[s]) \cup InHands(s)
            \cup unwatched[s] \cup unreported[s] \cup overrun[s] \cup refused[s] \cup late[s]
            \cup stranded[s]
    /\ \A i, j \in DOMAIN table[s] : i < j => table[s][i] < table[s][j]
    /\ TrackedExplained(s)

ChangesAccounted == \A s \in CdpSession : AccountedAt(s)
=============================================================================
