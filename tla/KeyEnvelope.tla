----------------------------- MODULE KeyEnvelope -----------------------------
(***************************************************************************)
(* The keys of encrypted backups.  The application key (KEK) lives in a    *)
(* file that the first load creates and that a load under a passphrase     *)
(* rewrites in wrapped form; loads run on several threads and can be cut   *)
(* off.  A repository has a data key (DEK) of its own, wrapped by the KEK. *)
(* A run encrypts what it stores with the key it has chosen at its start,  *)
(* and each way to read a backup chooses its key again.                    *)
(***************************************************************************)
EXTENDS Naturals, FiniteSets

CONSTANTS
    Loader,       \* threads that load the KEK
    Repository,   \* repositories
    Block,        \* blocks of a repository
    KeysMade      \* bound on the KEKs that are generated

ASSUME KeyAssumption == KeysMade \in Nat \ {0}

VARIABLES
    phrase,       \* whether encryption.passphrase is set in this life of the daemon
    keyfile,      \* the key file: [form, key]
    migrating,    \* the temporary file of a migration: "absent", "empty" or "full"
    loader,       \* [at, key]: where a load is and the key in its hands
    made          \* KEKs generated so far

VARIABLES
    dek,          \* repositories that have a row in repo_keys
    known,        \* repositories
    enveloping,   \* repositories whose creation has not come to the end of ensure_repo_dek
    runKey,       \* the key the run of a repository encrypts with, "idle" without a run
    encoded        \* what each block is encrypted with, "none" when not stored

(* History: no action reads these. *)
VARIABLES
    returned,     \* KEKs that loads returned
    fellBack,     \* repositories whose DEK a query failed to find
    hasty,        \* repositories with a run that began before the DEK was there
    undecoded     \* <<repository, reader>>: a block the reader could not decode

fileVars == <<phrase, keyfile, migrating, loader, made, returned>>
dekVars == <<dek, known, enveloping, runKey, encoded, fellBack, hasty, undecoded>>
keyVars == <<phrase, keyfile, migrating, loader, made, returned,
             dek, known, enveloping, runKey, encoded, fellBack, hasty, undecoded>>

Keys == 0 .. KeysMade
NoLoad == [at |-> "idle", key |-> 0]
Reader == {"restore", "instant", "grpc"}

KeyTypeOK ==
    /\ phrase \in BOOLEAN /\ made \in Keys /\ returned \subseteq Keys
    /\ keyfile \in [form : {"absent", "empty", "raw", "wrapped"}, key : Keys]
    /\ migrating \in {"absent", "empty", "full"}
    /\ loader \in [Loader -> [at : {"idle", "create", "fill", "migrate", "fill tmp", "rename"},
                              key : Keys]]
    /\ dek \cup enveloping \cup hasty \subseteq known /\ known \subseteq Repository
    /\ runKey \in [Repository -> {"idle", "plain", "kek", "dek"}]
    /\ encoded \in [Repository \X Block -> {"none", "plain", "kek", "dek"}]
    /\ fellBack \subseteq Repository /\ undecoded \subseteq Repository \X Reader

KeyInit ==
    /\ phrase \in BOOLEAN /\ keyfile = [form |-> "absent", key |-> 0]
    /\ migrating = "absent" /\ loader = [l \in Loader |-> NoLoad] /\ made = 0
    /\ dek = {} /\ known = {} /\ enveloping = {} /\ hasty = {} /\ runKey = [r \in Repository |-> "idle"]
    /\ encoded = [p \in Repository \X Block |-> "none"]
    /\ returned = {} /\ fellBack = {} /\ undecoded = {}

-----------------------------------------------------------------------------
(* The key file *)

At(l, at, key) == loader' = [loader EXCEPT ![l] = [at |-> at, key |-> key]]
Fail(l) == At(l, "idle", 0) /\ UNCHANGED <<keyfile, migrating, made, returned>>
Return(l, key) == At(l, "idle", 0) /\ returned' = returned \cup {key}

(* A load looks at the file: a wrapped key asks for a passphrase, a raw one is migrated if there is
   one, a file that is absent or empty makes it generate a key. *)
LoadKey(l) ==
    /\ loader[l].at = "idle"
    /\ \/ /\ keyfile.form = (IF phrase THEN "wrapped" ELSE "raw")
          /\ Return(l, keyfile.key) /\ UNCHANGED <<keyfile, migrating, made>>
       \/ /\ keyfile.form = "raw" /\ phrase
          /\ At(l, "migrate", keyfile.key) /\ UNCHANGED <<keyfile, migrating, made, returned>>
       \/ /\ keyfile.form \in {"absent", "empty"} /\ made < KeysMade
          /\ made' = made + 1 /\ At(l, "create", made + 1)
          /\ UNCHANGED <<keyfile, migrating, returned>>
    /\ UNCHANGED phrase

(* write_key_file opens with create_new: of several creators one wins, the others fail. *)
CreateFile(l) ==
    /\ loader[l].at = "create"
    /\ \/ /\ keyfile.form = "absent" /\ keyfile' = [form |-> "empty", key |-> 0]
          /\ At(l, "fill", loader[l].key) /\ UNCHANGED <<migrating, made, returned>>
       \/ keyfile.form # "absent" /\ Fail(l)
    /\ UNCHANGED phrase

FillFile(l) ==
    /\ loader[l].at = "fill"
    /\ keyfile' = [form |-> IF phrase THEN "wrapped" ELSE "raw", key |-> loader[l].key]
    /\ Return(l, loader[l].key) /\ UNCHANGED <<migrating, made, phrase>>

(* The migration writes a temporary file, also with create_new, and renames it. *)
Migrate(l) ==
    /\ \/ /\ loader[l].at = "migrate" /\ migrating = "absent"
          /\ migrating' = "empty" /\ At(l, "fill tmp", loader[l].key)
          /\ UNCHANGED <<keyfile, made, returned>>
       \/ loader[l].at = "migrate" /\ migrating # "absent" /\ Fail(l)
       \/ /\ loader[l].at = "fill tmp"
          /\ migrating' = "full" /\ At(l, "rename", loader[l].key)
          /\ UNCHANGED <<keyfile, made, returned>>
       \/ /\ loader[l].at = "rename"
          /\ keyfile' = [form |-> "wrapped", key |-> loader[l].key] /\ migrating' = "absent"
          /\ Return(l, loader[l].key) /\ UNCHANGED made
    /\ UNCHANGED phrase

(* The daemon stops or dies, and starts again with a passphrase or without. *)
Restart ==
    /\ loader' = [l \in Loader |-> NoLoad] /\ runKey' = [r \in Repository |-> "idle"]
    /\ phrase' \in BOOLEAN /\ enveloping' = {}
    /\ UNCHANGED <<keyfile, migrating, made, returned, dek, known, encoded, fellBack, hasty,
                   undecoded>>

-----------------------------------------------------------------------------
(* The data keys *)

(* POST /repositories inserts the row, and then the repository can be used. *)
CreateRepository(r) ==
    /\ r \notin known /\ known' = known \cup {r} /\ enveloping' = enveloping \cup {r}
    /\ UNCHANGED <<dek, runKey, encoded, fellBack, hasty, undecoded>>

(* ensure_repo_dek comes after it; its failure is only logged, that of the INSERT not even that. *)
EnsureRepoDek(r) ==
    /\ r \in enveloping /\ enveloping' = enveloping \ {r}
    /\ dek' \in {dek, dek \cup {r}}
    /\ UNCHANGED <<known, runKey, encoded, fellBack, hasty, undecoded>>

(* data_key_for_repo: a query that fails reads as a repository without a DEK. *)
DataKey(r, answered) == IF r \in dek /\ answered THEN "dek" ELSE "kek"
Missed(r, answered) == IF r \in dek /\ ~answered THEN {r} ELSE {}

\* Mutant: a run always takes the KEK.
MutantRunKey(r, answered) == "kek"
RunKey(r, answered) == DataKey(r, answered)

(* build_pipeline: the key is chosen once for a run; encryption may be off in the configuration. *)
BeginRun(r) ==
    /\ r \in known /\ runKey[r] = "idle"
    /\ \/ runKey' = [runKey EXCEPT ![r] = "plain"] /\ UNCHANGED fellBack
       \/ \E answered \in BOOLEAN :
            /\ runKey' = [runKey EXCEPT ![r] = RunKey(r, answered)]
            /\ fellBack' = fellBack \cup Missed(r, answered)
    /\ hasty' = hasty \cup ({r} \cap enveloping)
    /\ UNCHANGED <<dek, known, enveloping, encoded, undecoded>>

(* encode_block, for a block that is not stored yet; a duplicate keeps the key it has. *)
StoreBlock(r, b) ==
    /\ runKey[r] # "idle" /\ encoded[<<r, b>>] = "none"
    /\ encoded' = [encoded EXCEPT ![<<r, b>>] = runKey[r]]
    /\ UNCHANGED <<dek, known, enveloping, runKey, fellBack, hasty, undecoded>>

EndRun(r) ==
    /\ runKey[r] # "idle" /\ runKey' = [runKey EXCEPT ![r] = "idle"]
    /\ UNCHANGED <<dek, known, enveloping, encoded, fellBack, hasty, undecoded>>

(* A restore asks for the repository's key; an instant recovery and a SureBackup take the KEK; a
   gRPC restore has no key. *)
ReaderKey(reader, r, answered) ==
    CASE reader = "restore" -> DataKey(r, answered)
      [] reader = "instant" -> "kek"
      [] reader = "grpc"    -> "no key"

(* decode_block: the first byte says whether a block is encrypted. *)
Decodes(key, r, b) == encoded[<<r, b>>] = "plain" \/ encoded[<<r, b>>] = key

ReadBlock(r, b, reader) ==
    /\ encoded[<<r, b>>] # "none"
    /\ \E answered \in BOOLEAN :
        /\ undecoded' = IF Decodes(ReaderKey(reader, r, answered), r, b) THEN undecoded
                        ELSE undecoded \cup {<<r, reader>>}
        /\ fellBack' = IF reader = "restore" THEN fellBack \cup Missed(r, answered) ELSE fellBack
    /\ UNCHANGED <<dek, known, enveloping, runKey, encoded, hasty>>

KeyNext ==
    \/ \E l \in Loader :
        (LoadKey(l) \/ CreateFile(l) \/ FillFile(l) \/ Migrate(l)) /\ UNCHANGED dekVars
    \/ Restart
    \/ \E r \in Repository :
        /\ \/ CreateRepository(r) \/ EnsureRepoDek(r) \/ BeginRun(r) \/ EndRun(r)
           \/ \E b \in Block : StoreBlock(r, b) \/ \E reader \in Reader : ReadBlock(r, b, reader)
        /\ UNCHANGED fileVars

KeySpec == KeyInit /\ [][KeyNext]_keyVars

-----------------------------------------------------------------------------
(* The KEK never changes once a load has returned one, through loads that race to create or to
   migrate the file and restarts that cut them off: everything encrypted so far hangs on it. *)
OneKey == Cardinality(returned) <= 1

(* A restore fails to decode a block only after a query for the repository's data key has failed,
   when the block was stored or when it is read, or when a run was quicker than the creation.  An
   instant recovery, which takes the KEK, fails only in a repository that has a data key. *)
UndecodedExplained ==
    \A r \in Repository :
        /\ <<r, "restore">> \in undecoded => r \in fellBack \cup hasty
        /\ <<r, "instant">> \in undecoded => r \in dek

(* What was encrypted stays readable: one KEK for good, and a block that cannot be decoded has one
   of the known reasons. *)
KeysSound == OneKey /\ UndecodedExplained

=============================================================================
