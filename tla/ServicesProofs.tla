--------------------------- MODULE ServicesProofs ---------------------------
(***************************************************************************)
(* Safety of the services beside the backup path, each proved for its own  *)
(* specification and for every value of its constants: the keys, the tier  *)
(* policies, the restores of cloud resources, continuous data protection,  *)
(* and the jobs of Microsoft 365.                                          *)
(***************************************************************************)
EXTENDS KeyEnvelope, TierPolicy, CloudRestore, Cdp, M365Backup,
        FiniteSetTheorems, SequenceTheorems, TLAPS

(***************************************************************************)
(* The keys stay sound for any number of loaders, repositories and blocks. *)
(*                                                                         *)
(* OneKey is not inductive: it does not say which key a load that is still *)
(* under way will return.  The file decides: as long as it is absent or    *)
(* empty nothing was returned and nobody migrates, and from then on every  *)
(* key in hands, returned or about to be written is the file's.            *)
(* UndecodedExplained needs to know with what a run and a block may be     *)
(* encrypted.                                                              *)
(***************************************************************************)

\* Loads past the raw file they have read.
Migrating(l) == loader[l].at \in {"migrate", "fill tmp", "rename"}
Settled == keyfile.form \in {"raw", "wrapped"}

\* One load fills the file, while it is empty.
OneFiller ==
    \A l \in Loader : loader[l].at = "fill" =>
        /\ keyfile.form = "empty"
        /\ \A k \in Loader : loader[k].at = "fill" => k = l

\* Nothing was returned before the file was filled, and all are the file's key afterwards.
FileDecides ==
    /\ ~Settled => returned = {} /\ \A l \in Loader : ~Migrating(l)
    /\ Settled => /\ returned \subseteq {keyfile.key}
                  /\ \A l \in Loader : Migrating(l) => loader[l].key = keyfile.key

\* What a run encrypts with, and what a block is encrypted with: the data key only if there is one,
\* the application key only if there was none for good, or for one of the known reasons.
Explained(r, key) ==
    /\ key = "dek" => r \in dek
    /\ key = "kek" => r \in fellBack \cup hasty \/ (r \notin dek /\ r \notin enveloping)
    /\ key \notin {"idle", "none"} => r \in known

EncodedExplained ==
    \A r \in Repository :
        /\ Explained(r, runKey[r])
        /\ \A b \in Block : Explained(r, encoded[<<r, b>>])

KeyInv == KeyTypeOK /\ OneFiller /\ FileDecides /\ EncodedExplained /\ UndecodedExplained
-----------------------------------------------------------------------------
(* Loads. *)

\* The initial state satisfies the invariant.
LEMMA KeyInvInit == KeyInit => KeyInv
  <1> SUFFICES ASSUME KeyInit PROVE KeyInv
    OBVIOUS
  <1>1. KeyTypeOK
    BY KeyAssumption DEF KeyInit, KeyTypeOK, Keys, NoLoad
  <1>2. OneFiller /\ FileDecides
    BY DEF KeyInit, OneFiller, FileDecides, Settled, Migrating, NoLoad
  <1>3. EncodedExplained /\ UndecodedExplained
    BY DEF KeyInit, EncodedExplained, UndecodedExplained, Explained
  <1> QED
    BY <1>1, <1>2, <1>3 DEF KeyInv

\* A step of a load.
LoadStep(l) == LoadKey(l) \/ CreateFile(l) \/ FillFile(l) \/ Migrate(l)

LoadTypeOK == loader \in [Loader -> [at : {"idle", "create", "fill", "migrate", "fill tmp", "rename"},
                                     key : Keys]]
FileTypeOK == keyfile \in [form : {"absent", "empty", "raw", "wrapped"}, key : Keys]

\* What a load has in its hands after a step, and all others as before.
LEMMA Onwards ==
    ASSUME KeyTypeOK, NEW l \in Loader, NEW key \in Keys,
           NEW at \in {"idle", "create", "fill", "migrate", "fill tmp", "rename"}, At(l, at, key)
    PROVE  /\ LoadTypeOK'
           /\ loader'[l].at = at /\ loader'[l].key = key
           /\ \A k \in Loader \ {l} : loader'[k] = loader[k]
  BY DEF KeyTypeOK, LoadTypeOK, At

\* The keys a load may have to do with are keys.
LEMMA KeysAtHand ==
    ASSUME KeyTypeOK, NEW l \in Loader
    PROVE  /\ 0 \in Keys /\ keyfile.key \in Keys /\ loader[l].key \in Keys
           /\ made < KeysMade => made + 1 \in Keys
  <1>1. 0 \in Keys
    BY KeyAssumption DEF Keys
  <1>2. keyfile.key \in Keys /\ loader[l].key \in Keys /\ made \in Keys
    BY DEF KeyTypeOK
  <1>3. made < KeysMade => made + 1 \in Keys
    BY <1>2, KeyAssumption DEF Keys
  <1> QED
    BY <1>1, <1>2, <1>3

\* Loads keep the types.
LEMMA LoadType ==
    ASSUME KeyInv, NEW l \in Loader, LoadStep(l), UNCHANGED dekVars
    PROVE  KeyTypeOK'
  <1>1. KeyTypeOK /\ LoadTypeOK /\ FileTypeOK
    BY DEF KeyInv, KeyTypeOK, LoadTypeOK, FileTypeOK
  <1>2. /\ 0 \in Keys /\ keyfile.key \in Keys /\ loader[l].key \in Keys
        /\ made < KeysMade => made + 1 \in Keys
    BY <1>1, KeysAtHand
  <1>3. phrase' \in BOOLEAN /\ made' \in Keys /\ returned' \subseteq Keys
    BY <1>1, <1>2 DEF LoadStep, LoadKey, CreateFile, FillFile, Migrate, Fail, Return, KeyTypeOK
  <1>4. migrating' \in {"absent", "empty", "full"}
    BY <1>1 DEF LoadStep, LoadKey, CreateFile, FillFile, Migrate, Fail, KeyTypeOK
  <1>5. FileTypeOK'
    <2>1. \/ keyfile' = keyfile
          \/ \E form \in {"empty", "raw", "wrapped"}, key \in Keys :
                keyfile' = [form |-> form, key |-> key]
      BY <1>2 DEF LoadStep, LoadKey, CreateFile, FillFile, Migrate, Fail
    <2> QED
      BY <1>1, <2>1 DEF FileTypeOK
  <1>6. \E at \in {"idle", "create", "fill", "migrate", "fill tmp", "rename"}, key \in Keys :
            At(l, at, key)
    <2>1. CASE LoadKey(l)
      BY <1>2, <2>1 DEF LoadKey, Return
    <2>2. CASE CreateFile(l)
      BY <1>2, <2>2 DEF CreateFile, Fail
    <2>3. CASE FillFile(l)
      BY <1>2, <2>3 DEF FillFile, Return
    <2>4. CASE Migrate(l)
      BY <1>2, <2>4 DEF Migrate, Fail, Return
    <2> QED
      BY <2>1, <2>2, <2>3, <2>4 DEF LoadStep
  <1>7. LoadTypeOK'
    BY <1>1, <1>6, Onwards
  <1> QED
    BY <1>1, <1>3, <1>4, <1>5, <1>7 DEF KeyTypeOK, LoadTypeOK, FileTypeOK, dekVars

\* Of the creators one wins, and only it fills the file.
LEMMA LoadFiller ==
    ASSUME KeyInv, NEW l \in Loader, LoadStep(l)
    PROVE  OneFiller'
  <1>1. KeyTypeOK /\ OneFiller /\ FileDecides
    BY DEF KeyInv
  <1>2. /\ 0 \in Keys /\ keyfile.key \in Keys /\ loader[l].key \in Keys
        /\ made < KeysMade => made + 1 \in Keys
    BY <1>1, KeysAtHand
  \* A load that does not begin to fill leaves the filling of the others as it is.
  <1>3. ASSUME NEW at \in {"idle", "create", "migrate", "fill tmp", "rename"}, NEW key \in Keys,
               At(l, at, key), keyfile' = keyfile \/ loader[l].at = "fill"
        PROVE  OneFiller'
    <2>1. loader'[l].at # "fill" /\ \A k \in Loader \ {l} : loader'[k] = loader[k]
      BY <1>1, <1>3, Onwards, ZenonT(30)
    <2> QED
      BY <1>1, <1>3, <2>1 DEF OneFiller
  <1>4. CASE LoadKey(l)
    BY <1>2, <1>3, <1>4 DEF LoadKey, Return
  <1>5. CASE CreateFile(l)
    <2>1. CASE keyfile.form = "absent"
      <3>1. At(l, "fill", loader[l].key) /\ keyfile' = [form |-> "empty", key |-> 0]
        BY <1>5, <2>1 DEF CreateFile
      <3>2. \A k \in Loader \ {l} : loader'[k] = loader[k]
        BY <1>1, <1>2, <3>1, Onwards
      <3> QED
        BY <1>1, <2>1, <3>1, <3>2 DEF OneFiller
    <2>2. CASE keyfile.form # "absent"
      BY <1>2, <1>3, <1>5, <2>2 DEF CreateFile, Fail
    <2> QED
      BY <2>1, <2>2
  <1>6. CASE FillFile(l)
    BY <1>2, <1>3, <1>6 DEF FillFile, Return
  <1>7. CASE Migrate(l)
    <2>1. CASE loader[l].at = "rename"
      <3>1. At(l, "idle", 0)
        BY <1>7, <2>1 DEF Migrate, Return
      <3>2. loader'[l].at = "idle" /\ \A k \in Loader \ {l} : loader'[k] = loader[k]
        BY <1>1, <1>2, <3>1, Onwards
      <3>3. Settled
        BY <1>1, <2>1 DEF FileDecides, Migrating
      <3> QED
        BY <1>1, <3>2, <3>3 DEF OneFiller, Settled
    <2>2. CASE loader[l].at # "rename"
      BY <1>2, <1>3, <1>7, <2>2 DEF Migrate, Fail
    <2> QED
      BY <2>1, <2>2
  <1> QED
    BY <1>4, <1>5, <1>6, <1>7 DEF LoadStep

\* The key that is returned, or carried to the migrated file, is the file's.
LEMMA LoadDecides ==
    ASSUME KeyInv, NEW l \in Loader, LoadStep(l)
    PROVE  FileDecides'
  <1>1. KeyTypeOK /\ OneFiller /\ FileDecides
    BY DEF KeyInv
  <1>2. /\ 0 \in Keys /\ keyfile.key \in Keys /\ loader[l].key \in Keys
        /\ made < KeysMade => made + 1 \in Keys
    BY <1>1, KeysAtHand
  \* A load that does not migrate, and returns at most the key of a settled file.
  <1>3. ASSUME NEW at \in {"idle", "create", "fill"}, NEW key \in Keys, At(l, at, key),
               Settled' <=> Settled, keyfile'.key = keyfile.key \/ ~Settled,
               returned' = returned \/ (Settled /\ returned' = returned \cup {keyfile.key})
        PROVE  FileDecides'
    <2>1. loader'[l].at = at /\ \A k \in Loader \ {l} : loader'[k] = loader[k]
      BY <1>1, <1>3, Onwards, ZenonT(30)
    <2> QED
      BY <1>1, <1>3, <2>1 DEF FileDecides, Migrating
  \* A load that carries on the key of a settled file.
  <1>4. ASSUME NEW at \in {"migrate", "fill tmp", "rename"}, At(l, at, keyfile.key),
               Settled, UNCHANGED <<keyfile, returned>>
        PROVE  FileDecides'
    <2>1. loader'[l].key = keyfile.key /\ \A k \in Loader \ {l} : loader'[k] = loader[k]
      BY <1>1, <1>2, <1>4, Onwards, ZenonT(30)
    <2>2. Settled'
      BY <1>4 DEF Settled
    <2> QED
      BY <1>1, <1>4, <2>1, <2>2 DEF FileDecides, Migrating
  <1>5. CASE LoadKey(l)
    <2>1. CASE keyfile.form = (IF phrase THEN "wrapped" ELSE "raw") /\ Return(l, keyfile.key)
               /\ keyfile' = keyfile
      BY <1>2, <1>3, <2>1 DEF Return, Settled
    <2>2. CASE keyfile.form = "raw" /\ At(l, "migrate", keyfile.key) /\ UNCHANGED <<keyfile, returned>>
      BY <1>4, <2>2 DEF Settled
    <2>3. CASE made < KeysMade /\ At(l, "create", made + 1) /\ UNCHANGED <<keyfile, returned>>
      BY <1>2, <1>3, <2>3 DEF Settled
    <2> QED
      BY <1>5, <2>1, <2>2, <2>3 DEF LoadKey
  <1>6. CASE CreateFile(l)
    <2>1. CASE keyfile.form = "absent"
      BY <1>2, <1>3, <1>6, <2>1 DEF CreateFile, Settled
    <2>2. CASE keyfile.form # "absent"
      BY <1>2, <1>3, <1>6, <2>2 DEF CreateFile, Fail, Settled
    <2> QED
      BY <2>1, <2>2
  <1>7. CASE FillFile(l)
    <2>1. ~Settled /\ Settled' /\ keyfile'.key = loader[l].key
      BY <1>1, <1>7 DEF FillFile, OneFiller, Settled
    <2>2. returned' = {loader[l].key}
      BY <1>1, <1>7, <2>1 DEF FillFile, Return, FileDecides
    <2>3. loader'[l].at = "idle" /\ \A k \in Loader \ {l} : loader'[k] = loader[k]
      BY <1>1, <1>2, <1>7, Onwards DEF FillFile, Return
    <2> QED
      BY <1>1, <2>1, <2>2, <2>3 DEF FileDecides, Migrating
  <1>8. CASE Migrate(l)
    <2>1. Settled /\ loader[l].key = keyfile.key
      BY <1>1, <1>8 DEF Migrate, FileDecides, Migrating
    <2>2. CASE loader[l].at = "rename"
      <3>1. Settled' /\ keyfile'.key = keyfile.key /\ returned' = returned \cup {keyfile.key}
            /\ At(l, "idle", 0)
        BY <1>8, <2>1, <2>2 DEF Migrate, Return, Settled
      <3> QED
        BY <1>2, <1>3, <2>1, <3>1
    <2>3. CASE loader[l].at = "fill tmp" \/ (loader[l].at = "migrate" /\ migrating = "absent")
      BY <1>4, <1>8, <2>1, <2>3 DEF Migrate
    <2>4. CASE loader[l].at = "migrate" /\ migrating # "absent"
      BY <1>2, <1>3, <1>8, <2>1, <2>4 DEF Migrate, Fail, Settled
    <2> QED
      BY <1>8, <2>2, <2>3, <2>4 DEF Migrate
  <1> QED
    BY <1>5, <1>6, <1>7, <1>8 DEF LoadStep

\* A load preserves the invariant.
LEMMA LoadNext ==
    ASSUME KeyInv, NEW l \in Loader, LoadStep(l), UNCHANGED dekVars
    PROVE  KeyInv'
  <1>1. EncodedExplained' /\ UndecodedExplained'
    BY DEF KeyInv, dekVars, EncodedExplained, UndecodedExplained, Explained
  <1> QED
    BY <1>1, LoadType, LoadFiller, LoadDecides DEF KeyInv

\* A restart drops what loads and runs have in their hands.
LEMMA RestartNext ==
    ASSUME KeyInv, Restart
    PROVE  KeyInv'
  <1>1. KeyTypeOK'
    <2>1. 0 \in Keys
      BY KeyAssumption DEF Keys
    <2> QED
      BY <2>1 DEF KeyInv, KeyTypeOK, Restart, NoLoad
  <1>2. OneFiller' /\ FileDecides'
    BY DEF KeyInv, Restart, NoLoad, OneFiller, FileDecides, Migrating, Settled
  <1>3. EncodedExplained' /\ UndecodedExplained'
    BY DEF KeyInv, Restart, EncodedExplained, UndecodedExplained, Explained
  <1> QED
    BY <1>1, <1>2, <1>3 DEF KeyInv
-----------------------------------------------------------------------------
(* Repositories. *)

\* A step of a repository, its run or a reader of its blocks.
RepositoryStep(r) ==
    \/ CreateRepository(r) \/ EnsureRepoDek(r) \/ BeginRun(r) \/ EndRun(r)
    \/ \E b \in Block : StoreBlock(r, b) \/ \E reader \in Reader : ReadBlock(r, b, reader)

\* Repositories keep the types.
LEMMA RepositoryType ==
    ASSUME KeyInv, NEW r \in Repository, RepositoryStep(r), UNCHANGED fileVars
    PROVE  KeyTypeOK'
  <1>1. KeyTypeOK /\ EncodedExplained
    BY DEF KeyInv
  <1>2. UNCHANGED <<phrase, keyfile, migrating, loader, made, returned>>
    BY DEF fileVars
  <1>3. CASE CreateRepository(r)
    BY <1>1, <1>2, <1>3 DEF CreateRepository, KeyTypeOK
  <1>4. CASE EnsureRepoDek(r)
    BY <1>1, <1>2, <1>4 DEF EnsureRepoDek, KeyTypeOK
  <1>5. CASE BeginRun(r)
    BY <1>1, <1>2, <1>5 DEF BeginRun, KeyTypeOK, RunKey, DataKey, Missed
  <1>6. CASE EndRun(r)
    BY <1>1, <1>2, <1>6 DEF EndRun, KeyTypeOK
  <1>7. ASSUME NEW b \in Block, StoreBlock(r, b) PROVE KeyTypeOK'
    BY <1>1, <1>2, <1>7 DEF StoreBlock, KeyTypeOK
  <1>8. ASSUME NEW b \in Block, NEW reader \in Reader, ReadBlock(r, b, reader) PROVE KeyTypeOK'
    <2>1. undecoded' \subseteq Repository \X Reader
      <3>1. <<r, reader>> \in Repository \X Reader
        OBVIOUS
      <3>2. undecoded' \subseteq undecoded \cup {<<r, reader>>}
        BY <1>8 DEF ReadBlock
      <3> QED
        BY <1>1, <3>1, <3>2 DEF KeyTypeOK
    <2>2. fellBack' \subseteq Repository
      BY <1>1, <1>8 DEF ReadBlock, KeyTypeOK, Missed
    <2> QED
      BY <1>1, <1>2, <1>8, <2>1, <2>2 DEF ReadBlock, KeyTypeOK
  <1> QED
    BY <1>3, <1>4, <1>5, <1>6, <1>7, <1>8 DEF RepositoryStep

\* What runs and blocks are encrypted with stays explained.
LEMMA RepositoryEncoded ==
    ASSUME KeyInv, NEW r \in Repository, RepositoryStep(r)
    PROVE  EncodedExplained'
  <1> USE DEF EncodedExplained, Explained
  <1>1. KeyTypeOK /\ EncodedExplained
    BY DEF KeyInv
  <1>2. CASE CreateRepository(r)
    BY <1>1, <1>2 DEF CreateRepository, KeyTypeOK
  <1>3. CASE EnsureRepoDek(r)
    BY <1>1, <1>3 DEF EnsureRepoDek, KeyTypeOK
  <1>4. CASE BeginRun(r)
    BY <1>1, <1>4, ZenonT(30) DEF BeginRun, KeyTypeOK, RunKey, DataKey, Missed
  <1>5. CASE EndRun(r)
    BY <1>1, <1>5 DEF EndRun, KeyTypeOK
  <1>6. ASSUME NEW b \in Block, StoreBlock(r, b) PROVE EncodedExplained'
    BY <1>1, <1>6 DEF StoreBlock, KeyTypeOK
  <1>7. ASSUME NEW b \in Block, NEW reader \in Reader, ReadBlock(r, b, reader)
        PROVE EncodedExplained'
    BY <1>1, <1>7 DEF ReadBlock, KeyTypeOK, Missed
  <1> QED
    BY <1>2, <1>3, <1>4, <1>5, <1>6, <1>7 DEF RepositoryStep

\* A block that a reader cannot decode has its reason when it is read, and keeps it.
LEMMA RepositoryUndecoded ==
    ASSUME KeyInv, NEW r \in Repository, RepositoryStep(r)
    PROVE  UndecodedExplained'
  <1>1. KeyTypeOK /\ EncodedExplained /\ UndecodedExplained
    BY DEF KeyInv
  <1>2. ASSUME UNCHANGED undecoded, dek \subseteq dek', fellBack \subseteq fellBack',
               hasty \subseteq hasty'
        PROVE  UndecodedExplained'
    BY <1>1, <1>2 DEF UndecodedExplained
  <1>3. CASE CreateRepository(r) \/ EnsureRepoDek(r) \/ BeginRun(r) \/ EndRun(r)
    BY <1>2, <1>3 DEF CreateRepository, EnsureRepoDek, BeginRun, EndRun
  <1>4. ASSUME NEW b \in Block, StoreBlock(r, b) PROVE UndecodedExplained'
    BY <1>2, <1>4 DEF StoreBlock
  <1>5. ASSUME NEW b \in Block, NEW reader \in Reader, ReadBlock(r, b, reader)
        PROVE  UndecodedExplained'
    <2> PICK answered \in BOOLEAN :
            /\ undecoded' = IF Decodes(ReaderKey(reader, r, answered), r, b) THEN undecoded
                            ELSE undecoded \cup {<<r, reader>>}
            /\ fellBack' = IF reader = "restore" THEN fellBack \cup Missed(r, answered)
                           ELSE fellBack
      BY <1>5 DEF ReadBlock
    <2>1. UNCHANGED <<dek, hasty, encoded>> /\ encoded[<<r, b>>] # "none"
      BY <1>5 DEF ReadBlock
    <2>2. CASE Decodes(ReaderKey(reader, r, answered), r, b)
      BY <1>2, <2>1, <2>2
    <2>3. CASE ~Decodes(ReaderKey(reader, r, answered), r, b)
      <3>1. encoded[<<r, b>>] \in {"kek", "dek"}
        BY <1>1, <2>1, <2>3 DEF Decodes, KeyTypeOK
      <3>2. Explained(r, encoded[<<r, b>>])
        BY <1>1 DEF EncodedExplained
      <3>3. reader = "restore" => r \in fellBack' \cup hasty'
        BY <2>1, <2>3, <3>1, <3>2 DEF Decodes, ReaderKey, DataKey, Missed, Explained
      <3>4. reader = "instant" => r \in dek'
        BY <2>1, <2>3, <3>1, <3>2 DEF Decodes, ReaderKey, Explained
      <3> QED
        BY <1>1, <2>1, <2>3, <3>3, <3>4 DEF UndecodedExplained
    <2> QED
      BY <2>2, <2>3
  <1> QED
    BY <1>3, <1>4, <1>5 DEF RepositoryStep

\* A step of a repository preserves the invariant.
LEMMA RepositoryNext ==
    ASSUME KeyInv, NEW r \in Repository, RepositoryStep(r), UNCHANGED fileVars
    PROVE  KeyInv'
  <1>1. OneFiller' /\ FileDecides'
    BY DEF KeyInv, fileVars, OneFiller, FileDecides, Migrating, Settled
  <1> QED
    BY <1>1, RepositoryType, RepositoryEncoded, RepositoryUndecoded DEF KeyInv
-----------------------------------------------------------------------------
\* Every step preserves the invariant.
LEMMA KeyInvNext == KeyInv /\ [KeyNext]_keyVars => KeyInv'
  <1> SUFFICES ASSUME KeyInv, [KeyNext]_keyVars PROVE KeyInv'
    OBVIOUS
  <1>1. ASSUME NEW l \in Loader, LoadStep(l), UNCHANGED dekVars PROVE KeyInv'
    BY <1>1, LoadNext
  <1>2. CASE Restart
    BY <1>2, RestartNext
  <1>3. ASSUME NEW r \in Repository, RepositoryStep(r), UNCHANGED fileVars PROVE KeyInv'
    BY <1>3, RepositoryNext
  <1>4. CASE UNCHANGED keyVars
    BY <1>4, ZenonT(30) DEF keyVars, KeyInv, KeyTypeOK, OneFiller, FileDecides, Migrating, Settled,
                EncodedExplained, Explained, UndecodedExplained
  <1> QED
    BY <1>1, <1>2, <1>3, <1>4 DEF KeyNext, LoadStep, RepositoryStep

\* What the models of the key file, the runs and the readers always satisfy.
THEOREM KeyInvariant == KeySpec => []KeyInv
  BY KeyInvInit, KeyInvNext, PTL DEF KeySpec

\* All returned keys are one.
LEMMA OneKeyReturned == KeyInv => OneKey
  <1> SUFFICES ASSUME KeyInv PROVE OneKey
    OBVIOUS
  <1>1. returned \subseteq {keyfile.key}
    BY DEF KeyInv, FileDecides
  <1>2. IsFiniteSet({keyfile.key}) /\ Cardinality({keyfile.key}) = 1
    BY FS_Singleton
  <1>3. Cardinality(returned) <= Cardinality({keyfile.key})
    BY <1>1, <1>2, FS_Subset
  <1> QED
    BY <1>2, <1>3 DEF OneKey

\* The application key never changes once it has been returned, and a block that cannot be decoded
\* has one of the known reasons: for any number of loads, restarts, repositories and runs.
THEOREM KeysStaySound == KeySpec => []KeysSound
  <1>1. KeyInv => KeysSound
    BY OneKeyReturned DEF KeyInv, KeysSound
  <1> QED
    BY <1>1, KeyInvariant, PTL

-----------------------------------------------------------------------------
(***************************************************************************)
(* The executions of SOBR policies.                                        *)
(***************************************************************************)
\* An execution has a backup in hand in every step but "look", and what is left of it is its own.
OnHand(e) ==
    /\ e.phase = "idle" => e.step = "look" /\ e.todo = {} /\ \A b \in Backup : e.placed[b] = Perf
    /\ e.step = "look" => e.at = {}
    /\ e.step # "look" => \E b \in Backup : e.at = {b}
    /\ e.step = "copy" => e.phase \in {"move", "archive"}
    /\ e.step = "delete" => e.phase = "retain"
    /\ e.step = "release" => e.phase \in {"move", "archive", "retain"}
    /\ e.step \in {"read", "write"} => e.phase = "seal"
    /\ e.step \notin {"copy", "delete", "release"} => e.left = {}
    /\ e.step # "release" => e.freed = {}
    /\ \A b \in e.at : e.left \subseteq BlocksIn[b] /\ e.freed \subseteq BlocksIn[b]

\* Another backup that shares the block has released its references.
SharedAway(b, h) == \E d \in released \ {b} : h \in BlocksIn[d]

\* The tiers that hold what a move has copied, whatever is erased at its source.
Beyond(phase) == IF phase = "move" THEN {Cap, Arch} ELSE {Arch}

\* What a move has copied of a backup stays ahead of it; retention erases only what has no row.
Ahead(c) ==
    /\ call[c].step \in {"copy", "release"} /\ call[c].phase \in {"move", "archive"} =>
         \A b \in call[c].at \cap indexed, h \in Sha :
            h \in BlocksIn[b] /\ (call[c].step = "copy" => h \notin call[c].left)
            => SharedAway(b, h) \/ \E t \in Beyond(call[c].phase) : h \in stored[t]
    /\ call[c].step = "release" /\ call[c].phase = "retain" => call[c].at \cap indexed = {}
    /\ call[c].freed # {} => call[c].at \subseteq released

\* A backup on the seal list is there, and no execution takes it for unsealed, but for a reason.
SealsHold ==
    /\ \A b \in sealed[Perf] : \/ b \in unread \cup overwritten \cup overtaken
                               \/ b \in indexed /\ \A c \in TierCall : ~Judged(c, b)
    /\ everSealed \subseteq sealed[Perf] \cup overwritten

TierInv ==
    /\ TierTypeOK
    /\ \A c \in TierCall : OnHand(call[c])
    /\ \A c \in TierCall : Ahead(c)
    /\ MoveKeepsBlocks /\ SealsHold

LEMMA TierStart == TierInit => TierInv
  <1> SUFFICES ASSUME TierInit PROVE TierInv
    OBVIOUS
  <1> USE DEF TierInit
  <1>1. TierTypeOK
    <2>1. refs \in [Sha -> 0 .. Cardinality(Backup)]
      <3>1. ASSUME NEW h \in Sha
            PROVE  Cardinality({b \in Backup : h \in BlocksIn[b]}) \in 0 .. Cardinality(Backup)
        <4>1. {b \in Backup : h \in BlocksIn[b]} \subseteq Backup
          OBVIOUS
        <4> QED
          BY <4>1, TierAssumption, FS_Subset, FS_CardinalityType
      <3> QED
        BY <3>1
    <2>2. Idle \in Execution
      BY TierAssumption DEF Idle, Execution, Limits, TierPhase, TierStep, Tier
    <2>3. stored \in [Tier -> SUBSET Sha]
      BY TierAssumption DEF Tier
    <2>4. age \in [Backup -> 0 .. LastDay]
      BY TierAssumption
    <2> QED
      BY <2>1, <2>2, <2>3, <2>4, TierAssumption DEF TierTypeOK
  <1>2. OnHand(Idle)
    BY DEF OnHand, Idle
  <1>3. \A c \in TierCall : call[c].step = "look" /\ call[c].freed = {}
    BY DEF Idle
  <1>4. MoveKeepsBlocks
    <2> SUFFICES ASSUME NEW b \in indexed, NEW h \in BlocksIn[b] PROVE h \in stored[Perf] /\ Perf \in Tier
      BY DEF MoveKeepsBlocks
    <2> QED
      BY DEF Tier
  <1>5. sealed[Perf] = {} /\ everSealed = {}
    BY DEF Tier
  <1> QED
    BY <1>1, <1>2, <1>3, <1>4, <1>5 DEF TierInv, Ahead, SealsHold

\* What a step of a request leaves alone, and what its record becomes.
LEMMA TierRecord ==
    ASSUME TierTypeOK, NEW c \in TierCall, NEW e, Becomes(c, e)
    PROVE  call'[c] = e /\ \A d \in TierCall \ {c} : call'[d] = call[d]
  BY DEF TierTypeOK, Becomes

LEMMA TierAlone ==
    ASSUME TierTypeOK, NEW c \in TierCall, ExecutionStep(c)
    PROVE  \A d \in TierCall \ {c} : call'[d] = call[d]
  <1>1. \E e : Becomes(c, e)
    BY DEF ExecutionStep, TierExecute, TierAdvance, TierCopied, TierDelete, TierErase, TierPlace, TierSeal,
           TierAbort, TierTake, TierCopy, TierRelease, TierReadList, TierLook, TierLookAtSeal
  <1> QED
    BY <1>1, TierRecord

LEMMA TierInHand ==
    ASSUME TierTypeOK, NEW c \in TierCall, OnHand(call[c]), call[c].step # "look"
    PROVE  /\ InHand(c) \in Backup /\ call[c].at = {InHand(c)}
           /\ Placement(c, InHand(c)) \in Tier
  <1>1. PICK b \in Backup : call[c].at = {b}
    BY DEF OnHand
  <1>2. InHand(c) \in Backup /\ call[c].at = {InHand(c)}
    BY <1>1 DEF InHand
  <1> QED
    BY <1>2 DEF Placement, TierTypeOK, Execution

\* A request's record after each of its steps.
LEMMA TierHandStep ==
    ASSUME TierTypeOK, NEW c \in TierCall, OnHand(call[c]), ExecutionStep(c)
    PROVE  call'[c] \in Execution /\ OnHand(call'[c])
  <1> DEFINE e == call[c]
             f == call'[c]
  <1>0. e \in Execution /\ e.placed \in [Backup -> Tier]
    BY DEF TierTypeOK, Execution
  <1>i. Idle \in Execution /\ OnHand(Idle)
    BY TierAssumption DEF Idle, Execution, Limits, TierPhase, TierStep, Tier, OnHand
  <1>l. \A p, placed : \A phase \in {"move", "archive", "seal", "retain"} :
           Listed(p, phase, placed) \subseteq Backup
    BY DEF Listed, Aged, TierTypeOK
  <1>b. \A b \in Backup : BlocksIn[b] \subseteq Sha
    BY TierAssumption
  <1>n. NextPhase(c) \in {"archive", "seal", "retain"}
    BY DEF NextPhase
  <1> USE DEF Execution, OnHand, TierPhase, TierStep
  <1>1. ASSUME NEW p \in Policy, TierExecute(c, p) PROVE f \in Execution /\ OnHand(f)
    <2>1. f = [Idle EXCEPT !.phase = "move", !.policy = p, !.listed = Listed(p, "move", Idle.placed)]
      BY <1>1, TierRecord DEF TierExecute
    <2>2. p \in Limits /\ Listed(p, "move", Idle.placed) \subseteq Backup
      BY <1>l, TierAssumption
    <2>3. f \in Execution
      BY <2>1, <2>2, <1>i
    <2>4. /\ f.phase = "move" /\ f.step = "look" /\ f.at = {} /\ f.left = {} /\ f.freed = {}
      BY <2>1 DEF Idle
    <2> QED
      BY <2>3, <2>4
  <1>2. ASSUME TierAdvance(c) PROVE f \in Execution /\ OnHand(f)
    <2>1. CASE e.phase = "retain"
      BY <1>2, <2>1, <1>i, TierRecord DEF TierAdvance
    <2>2. CASE e.phase # "retain"
      <3>1. f = [e EXCEPT !.phase = NextPhase(c), !.listed = Listed(e.policy, NextPhase(c), e.placed)]
        BY <1>2, <2>2, TierRecord DEF TierAdvance
      <3>2. e.step = "look"
        BY <1>2 DEF TierAdvance
      <3>3. Listed(e.policy, NextPhase(c), e.placed) \subseteq Backup
        BY <1>l, <1>n
      <3>4. f \in Execution
        BY <3>1, <3>3, <1>0, <1>n
      <3>5. f.phase # "idle" /\ f.step = "look" /\ f.at = {} /\ f.left = {} /\ f.freed = {}
        BY <3>1, <3>2, <1>0, <1>n
      <3> QED
        BY <3>4, <3>5
    <2> QED
      BY <2>1, <2>2
  <1>3. ASSUME NEW b \in Backup, NEW readable \in BOOLEAN, TierLook(c, b, readable)
        PROVE  f \in Execution /\ OnHand(f)
    <2>1. PICK todo \in SUBSET Backup : f = [e EXCEPT !.listed = @ \ {b}, !.todo = todo]
      <3>1. f = [e EXCEPT !.listed = @ \ {b},
                          !.todo = IF readable /\ Sealed(c, b) THEN @ ELSE @ \cup {b}]
        BY <1>3, TierRecord DEF TierLook
      <3> QED
        BY <3>1, <1>0
    <2>2. e.phase # "idle"
      BY <1>3 DEF TierLook
    <2> QED
      BY <2>1, <2>2, <1>0
  <1>4. ASSUME NEW b \in Backup, NEW readable \in BOOLEAN, TierLookAtSeal(c, b, readable)
        PROVE  f \in Execution /\ OnHand(f)
    <2>1. PICK listed \in SUBSET Backup :
            \/ f = [e EXCEPT !.listed = listed]
            \/ f = [e EXCEPT !.listed = listed, !.at = {b}, !.step = "read"]
      <3>1. \/ f = [e EXCEPT !.listed = @ \ {b}]
            \/ f = [e EXCEPT !.listed = @ \ {b}, !.at = {b}, !.step = "read"]
        BY <1>4, TierRecord DEF TierLookAtSeal
      <3> QED
        BY <3>1, <1>0
    <2>2. e.phase = "seal" /\ e.step = "look" /\ e.at = {} /\ e.left = {} /\ e.freed = {}
      BY <1>4 DEF TierLookAtSeal
    <2>3. CASE f = [e EXCEPT !.listed = listed]
      BY <2>2, <2>3, <1>0
    <2>4. CASE f = [e EXCEPT !.listed = listed, !.at = {b}, !.step = "read"]
      <3>1. f \in Execution
        <4>1. {b} \in SUBSET Backup
          OBVIOUS
        <4> QED
          BY <2>4, <4>1, <1>0
      <3>2. f.phase = "seal" /\ f.left = {} /\ f.freed = {} /\ f.step = "read" /\ f.at = {b}
        BY <2>2, <2>4, <1>0
      <3> QED
        BY <3>1, <3>2
    <2> QED
      BY <2>1, <2>3, <2>4
  <1>5. ASSUME NEW readable \in BOOLEAN, TierReadList(c, readable) PROVE f \in Execution /\ OnHand(f)
    <2>1. e.step = "read"
      BY <1>5 DEF TierReadList
    <2>2. sealed[Placement(c, InHand(c))] \subseteq Backup
      BY <2>1, TierInHand DEF TierTypeOK
    <2>3. PICK list \in SUBSET Backup : f = [e EXCEPT !.step = "write", !.list = list]
      <3>1. f = [e EXCEPT !.step = "write",
                   !.list = IF readable THEN sealed[Placement(c, InHand(c))] ELSE {}]
        BY <1>5, TierRecord DEF TierReadList
      <3> QED
        BY <2>2, <3>1
    <2> QED
      BY <2>1, <2>3, <1>0
  <1>6. ASSUME TierSeal(c) PROVE f \in Execution /\ OnHand(f)
    <2>1. f = [e EXCEPT !.step = "look", !.at = {}, !.list = {}] /\ e.step = "write"
      BY <1>6, TierRecord DEF TierSeal
    <2> QED
      BY <2>1, <1>0
  <1>7. ASSUME NEW b \in Backup, TierTake(c, b) PROVE f \in Execution /\ OnHand(f)
    <2>1. e.step = "look" /\ e.phase \in {"move", "archive", "retain"}
      BY <1>7 DEF TierTake
    <2>2. \/ f = [e EXCEPT !.todo = @ \ {b}, !.at = {b}, !.left = BlocksIn[b],
                           !.step = IF e.phase = "retain" THEN "delete" ELSE "copy"]
          \/ f = [e EXCEPT !.todo = @ \ {b}]
          \/ f = Idle
      BY <1>7, TierRecord DEF TierTake
    <2>3. CASE f = [e EXCEPT !.todo = @ \ {b}, !.at = {b}, !.left = BlocksIn[b],
                             !.step = IF e.phase = "retain" THEN "delete" ELSE "copy"]
      <3>1. f \in Execution
        <4>1. e.todo \ {b} \subseteq Backup /\ {b} \subseteq Backup /\ BlocksIn[b] \subseteq Sha
          BY <1>0, <1>b
        <4>2. PICK todo \in SUBSET Backup, at \in SUBSET Backup, left \in SUBSET Sha :
                todo = e.todo \ {b} /\ at = {b} /\ left = BlocksIn[b]
          BY <4>1
        <4>3. CASE e.phase = "retain"
          <5>1. f = [e EXCEPT !.todo = todo, !.at = at, !.left = left, !.step = "delete"]
            BY <2>3, <4>2, <4>3
          <5> QED
            BY <5>1, <1>0
        <4>4. CASE e.phase # "retain"
          <5>1. f = [e EXCEPT !.todo = todo, !.at = at, !.left = left, !.step = "copy"]
            BY <2>3, <4>2, <4>4
          <5> QED
            BY <5>1, <1>0
        <4> QED
          BY <4>3, <4>4
      <3>2. /\ f.phase = e.phase /\ f.at = {b} /\ f.left = BlocksIn[b] /\ f.freed = {}
            /\ f.step = IF e.phase = "retain" THEN "delete" ELSE "copy"
        BY <2>1, <2>3, <1>0
      <3> QED
        BY <2>1, <3>1, <3>2
    <2>4. CASE f = [e EXCEPT !.todo = @ \ {b}]
      BY <2>1, <2>4, <1>0
    <2> QED
      BY <2>2, <2>3, <2>4, <1>i
  <1>8. ASSUME NEW h \in Sha, TierCopy(c, h) PROVE f \in Execution /\ OnHand(f)
    <2>1. f = [e EXCEPT !.left = @ \ {h}] \/ f = Idle
      BY <1>8, TierRecord DEF TierCopy
    <2>2. e.step = "copy"
      BY <1>8 DEF TierCopy
    <2> QED
      BY <2>1, <2>2, <1>0, <1>i
  <1>9. ASSUME TierCopied(c) PROVE f \in Execution /\ OnHand(f)
    <2>1. f = [e EXCEPT !.step = "release", !.left = BlocksIn[InHand(c)]] /\ e.step = "copy"
      BY <1>9, TierRecord DEF TierCopied
    <2>2. InHand(c) \in Backup /\ e.at = {InHand(c)}
      BY <2>1, TierInHand
    <2>3. f \in Execution
      BY <2>1, <2>2, <1>0, <1>b
    <2>4. /\ f.phase = e.phase /\ f.at = e.at /\ f.step = "release" /\ f.left = BlocksIn[InHand(c)]
          /\ f.freed = {} /\ e.phase \in {"move", "archive"}
      BY <2>1, <1>0
    <2> QED
      BY <2>2, <2>3, <2>4
  <1>10. ASSUME TierDelete(c) PROVE f \in Execution /\ OnHand(f)
    <2>1. f = [e EXCEPT !.step = "release"] /\ e.step = "delete"
      BY <1>10, TierRecord DEF TierDelete
    <2> QED
      BY <2>1, <1>0
  <1>11. ASSUME NEW h \in Sha, TierRelease(c, h) PROVE f \in Execution /\ OnHand(f)
    <2>1. /\ f = [e EXCEPT !.left = @ \ {h}, !.freed = IF refs[h] = 1 THEN {h} ELSE {}]
          /\ e.step = "release" /\ h \in e.left
      BY <1>11, TierRecord DEF TierRelease
    <2>2. f \in Execution
      <3>1. e.left \ {h} \subseteq Sha /\ {h} \subseteq Sha
        BY <1>0
      <3>2. PICK left, freed \in SUBSET Sha : f = [e EXCEPT !.left = left, !.freed = freed]
        BY <2>1, <3>1
      <3> QED
        BY <3>2, <1>0
    <2>3. /\ f.phase = e.phase /\ f.at = e.at /\ f.step = "release" /\ f.left \subseteq e.left
          /\ f.freed \subseteq e.left
      BY <2>1, <1>0
    <2> QED
      BY <2>1, <2>2, <2>3
  <1>12. ASSUME TierErase(c) PROVE f \in Execution /\ OnHand(f)
    <2>1. f = [e EXCEPT !.freed = {}] /\ e.freed # {}
      BY <1>12, TierRecord DEF TierErase
    <2> QED
      BY <2>1, <1>0
  <1>13. ASSUME TierPlace(c) PROVE f \in Execution /\ OnHand(f)
    <2>1. e.step = "release" /\ e.left = {} /\ e.freed = {}
      BY <1>13 DEF TierPlace
    <2>2. Target(c) \in Tier
      BY DEF Target, Tier
    <2>3. PICK placed \in [Backup -> Tier] : f = [e EXCEPT !.step = "look", !.at = {}, !.placed = placed]
      <3>1. f = [e EXCEPT !.step = "look", !.at = {},
                   !.placed = [@ EXCEPT ![InHand(c)] = IF e.phase = "retain" THEN Perf ELSE Target(c)]]
        BY <1>13, TierRecord DEF TierPlace
      <3>2. [e.placed EXCEPT ![InHand(c)] = IF e.phase = "retain" THEN Perf ELSE Target(c)]
              \in [Backup -> Tier]
        BY <2>2, <1>0 DEF Tier
      <3> QED
        BY <3>1, <3>2
    <2>4. e.phase # "idle"
      BY <2>1
    <2> QED
      BY <2>1, <2>3, <2>4, <1>0
  <1>14. ASSUME TierAbort(c) PROVE f \in Execution /\ OnHand(f)
    BY <1>14, <1>i, TierRecord DEF TierAbort
  <1> QED
    BY <1>1, <1>2, <1>3, <1>4, <1>5, <1>6, <1>7, <1>8, <1>9, <1>10, <1>11, <1>12, <1>13, <1>14
    DEF ExecutionStep

LEMMA TierTypeStep ==
    ASSUME TierTypeOK, \A c \in TierCall : OnHand(call[c]), [TierNext]_tierVars
    PROVE  TierTypeOK' /\ \A c \in TierCall : OnHand(call'[c])
  <1>1. CASE UNCHANGED tierVars
    BY <1>1 DEF tierVars, seals, TierTypeOK
  <1>2. CASE Day
    <2>1. age' \in [Backup -> 0 .. LastDay]
      BY <1>2, TierAssumption DEF Day, TierTypeOK
    <2> QED
      BY <1>2, <2>1 DEF Day, TierTypeOK, seals
  <1>3. ASSUME NEW c \in TierCall, ExecutionStep(c) PROVE TierTypeOK' /\ \A d \in TierCall : OnHand(call'[d])
    <2>1. call'[c] \in Execution /\ \A d \in TierCall : OnHand(call'[d])
      BY <1>3, TierHandStep, TierAlone
    <2>2. call' \in [TierCall -> Execution]
      <3>1. \E e : Becomes(c, e)
        BY <1>3 DEF ExecutionStep, TierExecute, TierAdvance, TierCopied, TierDelete, TierErase, TierPlace,
               TierSeal, TierAbort, TierTake, TierCopy, TierRelease, TierReadList, TierLook, TierLookAtSeal
      <3> QED
        BY <2>1, <3>1 DEF Becomes, TierTypeOK
    <2>3. /\ call[c] \in Execution /\ age \in [Backup -> 0 .. LastDay] /\ indexed \subseteq Backup
          /\ refs \in [Sha -> 0 .. Cardinality(Backup)] /\ Cardinality(Backup) \in Nat
          /\ stored \in [Tier -> SUBSET Sha] /\ sealed \in [Tier -> SUBSET Backup]
          /\ runs \in 0 .. TierRuns /\ released \subseteq Backup /\ everSealed \subseteq Backup
          /\ unread \subseteq Backup /\ overwritten \subseteq Backup /\ overtaken \subseteq Backup
      BY TierAssumption, FS_CardinalityType DEF TierTypeOK
    <2> USE <2>2, <2>3 DEF TierTypeOK
    <2>4. ASSUME NEW p \in Policy, TierExecute(c, p) PROVE TierTypeOK'
      BY <2>4, TierAssumption DEF TierExecute, seals
    <2>5. ASSUME TierAdvance(c) \/ TierCopied(c) \/ TierAbort(c) \/ TierPlace(c)
                 \/ (\E b \in Backup : TierTake(c, b)) \/ \E readable \in BOOLEAN : TierReadList(c, readable)
                    \/ \E b \in Backup : TierLookAtSeal(c, b, readable)
          PROVE  TierTypeOK'
      BY <2>5 DEF TierAdvance, TierCopied, TierAbort, TierPlace, TierTake, TierReadList, TierLookAtSeal, seals
    <2>6. ASSUME NEW b \in Backup, NEW readable \in BOOLEAN, TierLook(c, b, readable) PROVE TierTypeOK'
      BY <2>6 DEF TierLook
    <2>7. ASSUME TierSeal(c) PROVE TierTypeOK'
      <3>1. call[c].at \subseteq Backup /\ call[c].list \subseteq Backup
        BY DEF Execution
      <3>2. sealed[Perf] \subseteq Backup
        BY DEF Tier
      <3>3. PICK list \in SUBSET Backup :
              /\ sealed' = [sealed EXCEPT ![Placement(c, InHand(c))] = list]
              /\ everSealed' \subseteq everSealed \cup list \cup sealed[Perf]
              /\ overwritten' \subseteq overwritten \cup sealed[Perf]
              /\ overtaken' \subseteq overtaken \cup list \cup sealed[Perf]
        BY <2>7, <3>1 DEF TierSeal
      <3> QED
        BY <2>7, <3>2, <3>3 DEF TierSeal
    <2>8. ASSUME NEW h \in Sha, TierCopy(c, h) PROVE TierTypeOK'
      BY <2>8 DEF TierCopy, seals, Target, Tier
    <2>9. ASSUME TierDelete(c) PROVE TierTypeOK'
      BY <2>9 DEF TierDelete, seals
    <2>10. ASSUME NEW h \in Sha, TierRelease(c, h) PROVE TierTypeOK'
      <3>1. call[c].at \subseteq Backup
        BY DEF Execution
      <3>2. refs' \in [Sha -> 0 .. Cardinality(Backup)]
        BY <2>10 DEF TierRelease
      <3> QED
        BY <2>10, <3>1, <3>2 DEF TierRelease, seals
    <2>11. ASSUME TierErase(c) PROVE TierTypeOK'
      <3>1. stored' \in [Tier -> SUBSET Sha]
        BY <2>11 DEF TierErase
      <3> QED
        BY <2>11, <3>1 DEF TierErase, seals
    <2> QED
      BY <1>3, <2>1, <2>4, <2>5, <2>6, <2>7, <2>8, <2>9, <2>10, <2>11 DEF ExecutionStep
  <1> QED
    BY <1>1, <1>2, <1>3 DEF TierNext

\* What an execution erases is shared with a backup that has released it, or lies on a tier beyond.
LEMMA TierStays ==
    ASSUME TierInv, NEW c \in TierCall, ExecutionStep(c),
           NEW T \in {Tier, {Cap, Arch}, {Arch}},
           NEW b \in indexed', NEW h \in BlocksIn[b], \E t \in T : h \in stored[t]
    PROVE  SharedAway(b, h)' \/ \E t \in T : h \in stored'[t]
  <1>0. TierTypeOK /\ OnHand(call[c]) /\ Ahead(c) /\ b \in indexed
    BY DEF TierInv, ExecutionStep, TierExecute, TierAdvance, TierCopied, TierDelete, TierErase, TierPlace,
           TierSeal, TierAbort, TierTake, TierCopy, TierRelease, TierReadList, TierLook, TierLookAtSeal
  <1>1. CASE TierErase(c)
    <2>1. call[c].step = "release" /\ call[c].freed # {} /\ released' = released /\ indexed' = indexed
      BY <1>0, <1>1 DEF TierErase, OnHand, seals
    <2>2. PICK a \in Backup : call[c].at = {a} /\ call[c].freed \subseteq BlocksIn[a] /\ a \in released
      BY <1>0, <2>1 DEF OnHand, Ahead
    <2>3. CASE h \notin call[c].freed
      BY <1>0, <1>1, <2>3 DEF TierErase, TierTypeOK, Tier
    <2>4. CASE h \in call[c].freed /\ a # b
      BY <2>1, <2>2, <2>4 DEF SharedAway
    <2>5. CASE h \in call[c].freed /\ a = b
      <3>1. call[c].phase \in {"move", "archive"}
        BY <1>0, <2>1, <2>2, <2>5 DEF OnHand, Ahead
      <3>2. SharedAway(b, h) \/ \E t \in Beyond(call[c].phase) : h \in stored[t]
        BY <1>0, <2>1, <2>2, <2>5, <3>1, TierAssumption DEF Ahead, TierTypeOK
      <3>3. CASE SharedAway(b, h)
        BY <2>1, <3>3 DEF SharedAway
      <3>4. CASE call[c].phase = "move" /\ \E t \in {Cap, Arch} : h \in stored[t]
        <4>1. stored' = [stored EXCEPT ![Perf] = @ \ call[c].freed]
          BY <1>1, <3>4 DEF TierErase, Source
        <4>2. stored'[Cap] = stored[Cap] /\ stored'[Arch] = stored[Arch]
          BY <1>0, <4>1 DEF TierTypeOK, Tier, Perf, Cap, Arch
        <4> QED
          BY <3>4, <4>2 DEF Tier
      <3>5. CASE call[c].phase = "archive" /\ h \in stored[Arch]
        <4>1. stored' = [stored EXCEPT ![Cap] = @ \ call[c].freed]
          BY <1>1, <3>5 DEF TierErase, Source
        <4>2. stored'[Arch] = stored[Arch]
          BY <1>0, <4>1 DEF TierTypeOK, Tier, Cap, Arch
        <4> QED
          BY <3>5, <4>2 DEF Tier
      <3> QED
        BY <3>1, <3>2, <3>3, <3>4, <3>5 DEF Beyond
    <2> QED
      BY <2>3, <2>4, <2>5
  <1>2. CASE \E g \in Sha : TierCopy(c, g)
    BY <1>0, <1>2 DEF TierCopy, TierTypeOK, Tier
  <1>3. CASE ~TierErase(c) /\ ~\E g \in Sha : TierCopy(c, g)
    <2>1. stored' = stored
      BY <1>3 DEF ExecutionStep, TierExecute, TierAdvance, TierCopied, TierDelete, TierPlace, TierSeal,
             TierAbort, TierTake, TierRelease, TierReadList, TierLook, TierLookAtSeal
    <2> QED
      BY <2>1
  <1> QED
    BY <1>1, <1>2, <1>3

\* What has been copied stays ahead of every move.
LEMMA TierAheadStep ==
    ASSUME TierInv, NEW c \in TierCall, ExecutionStep(c), NEW d \in TierCall
    PROVE  Ahead(d)'
  <1>0. TierTypeOK /\ OnHand(call[d]) /\ Ahead(d) /\ OnHand(call'[d])
    BY TierHandStep, TierAlone DEF TierInv
  <1>k. indexed' \subseteq indexed /\ released \subseteq released'
    BY DEF ExecutionStep, TierExecute, TierAdvance, TierCopied, TierDelete, TierErase, TierPlace, TierSeal,
           TierAbort, TierTake, TierCopy, TierRelease, TierReadList, TierLook, TierLookAtSeal, seals
  \* Whoever has copied as much before still has it beyond.
  <1>s. ASSUME call'[d].phase = call[d].phase, call'[d].step = call[d].step, call'[d].at = call[d].at,
               call'[d].left = call[d].left \/ call[d].step = "release",
               call'[d].freed # {} => call'[d].at \subseteq released'
        PROVE  Ahead(d)'
    <2>1. ASSUME call[d].step \in {"copy", "release"}, call[d].phase \in {"move", "archive"},
                 NEW b \in call[d].at, b \in indexed', NEW h \in Sha, h \in BlocksIn[b],
                 call[d].step = "copy" => h \notin call[d].left
          PROVE  SharedAway(b, h)' \/ \E t \in Beyond(call[d].phase) : h \in stored'[t]
      <3>1. SharedAway(b, h) \/ \E t \in Beyond(call[d].phase) : h \in stored[t]
        BY <1>0, <1>k, <2>1 DEF Ahead
      <3>2. CASE SharedAway(b, h)
        BY <1>k, <3>2 DEF SharedAway
      <3>3. CASE \E t \in Beyond(call[d].phase) : h \in stored[t]
        <4>1. Beyond(call[d].phase) \in {Tier, {Cap, Arch}, {Arch}}
          BY DEF Beyond
        <4> QED
          BY <2>1, <3>3, <4>1, TierStays
      <3> QED
        BY <3>1, <3>2, <3>3
    <2>2. call[d].step = "release" /\ call[d].phase = "retain" => call[d].at \cap indexed' = {}
      BY <1>0, <1>k DEF Ahead
    <2> QED
      BY <1>s, <2>1, <2>2 DEF Ahead
  <1>1. CASE d # c
    <2>1. call'[d] = call[d]
      BY <1>0, <1>1, TierAlone
    <2>2. call[d].freed # {} => call[d].at \subseteq released'
      BY <1>0, <1>k DEF Ahead
    <2> QED
      BY <2>1, <2>2, <1>s
  <1>2. ASSUME call'[c].step \notin {"copy", "release"} PROVE Ahead(c)'
    <2>1. OnHand(call'[c])
      BY TierHandStep DEF TierInv
    <2> QED
      BY <1>2, <2>1 DEF Ahead, OnHand
  <1>3. CASE d = c
    <2> DEFINE e == call[c]
    <2>0. e \in Execution
      BY <1>0 DEF TierTypeOK
    <2>1. CASE call'[c].step \notin {"copy", "release"}
      BY <1>2, <1>3, <2>1
    <2>2. ASSUME NEW b \in Backup, NEW readable \in BOOLEAN, TierLook(c, b, readable) PROVE Ahead(c)'
      <3>1. call'[c] = [e EXCEPT !.listed = @ \ {b},
                          !.todo = IF readable /\ Sealed(c, b) THEN @ ELSE @ \cup {b}]
            /\ released' = released
        BY <1>0, <2>2, TierRecord DEF TierLook
      <3>2. /\ call'[c].phase = e.phase /\ call'[c].step = e.step /\ call'[c].at = e.at
            /\ call'[c].left = e.left /\ call'[c].freed = e.freed
        BY <2>0, <3>1 DEF Execution
      <3>3. e.freed # {} => e.at \subseteq released'
        BY <1>0, <1>3, <3>1 DEF Ahead
      <3> QED
        BY <1>3, <1>s, <3>2, <3>3
    <2>3. ASSUME NEW b \in Backup, TierTake(c, b), call'[c].step \in {"copy", "release"} PROVE Ahead(c)'
      <3>1. /\ call'[c] = [e EXCEPT !.todo = @ \ {b}, !.at = {b}, !.left = BlocksIn[b],
                           !.step = IF e.phase = "retain" THEN "delete" ELSE "copy"]
            /\ e.step = "look"
        <4>1. \/ call'[c] = [e EXCEPT !.todo = @ \ {b}, !.at = {b}, !.left = BlocksIn[b],
                           !.step = IF e.phase = "retain" THEN "delete" ELSE "copy"]
              \/ call'[c] = [e EXCEPT !.todo = @ \ {b}] \/ call'[c] = Idle
          BY <1>0, <2>3, TierRecord DEF TierTake
        <4>2. e.step = "look"
          BY <2>3 DEF TierTake
        <4> QED
          BY <2>0, <2>3, <4>1, <4>2 DEF Execution, Idle
      <3>2. /\ call'[c].at = {b} /\ call'[c].left = BlocksIn[b] /\ call'[c].step \in {"copy", "delete"}
        BY <2>0, <3>1 DEF Execution
      <3>3. call'[c].freed = {}
        BY <1>0, <1>3, <3>2 DEF OnHand
      <3> QED
        BY <3>2, <3>3 DEF Ahead
    <2>4. ASSUME NEW g \in Sha, TierCopy(c, g), call'[c].step \in {"copy", "release"} PROVE Ahead(c)'
      <3>1. e.step = "copy"
        BY <2>4 DEF TierCopy
      <3>2. /\ call'[c] = [e EXCEPT !.left = @ \ {g}] /\ released' = released /\ indexed' = indexed
            /\ stored' = [stored EXCEPT ![Target(c)] = @ \cup {g}]
        BY <1>0, <2>4, TierRecord DEF TierCopy, Idle, seals
      <3>3. /\ call'[c].phase = e.phase /\ call'[c].step = "copy" /\ call'[c].at = e.at
            /\ call'[c].left = e.left \ {g} /\ call'[c].freed = e.freed
        BY <2>0, <3>1, <3>2 DEF Execution
      <3>4. e.phase \in {"move", "archive"} /\ e.freed = {}
        BY <1>0, <1>3, <3>1 DEF OnHand
      <3>5. ASSUME NEW b \in e.at, b \in indexed, NEW h \in Sha, h \in BlocksIn[b], h \notin e.left \ {g}
            PROVE  SharedAway(b, h)' \/ \E t \in Beyond(e.phase) : h \in stored'[t]
        <4>1. Target(c) \in Beyond(e.phase) /\ Target(c) \in Tier
          BY DEF Target, Beyond, Tier
        <4>2. CASE h = g
          BY <1>0, <3>2, <4>1, <4>2 DEF TierTypeOK
        <4>3. CASE h \notin e.left
          <5>1. SharedAway(b, h) \/ \E t \in Beyond(e.phase) : h \in stored[t]
            BY <1>0, <1>3, <3>1, <3>4, <3>5, <4>3 DEF Ahead
          <5>2. \A t \in Beyond(e.phase) : stored[t] \subseteq stored'[t]
            BY <1>0, <3>2 DEF TierTypeOK, Beyond, Tier
          <5> QED
            BY <3>2, <5>1, <5>2 DEF SharedAway
        <4> QED
          BY <3>5, <4>2, <4>3
      <3> QED
        BY <3>2, <3>3, <3>4, <3>5 DEF Ahead
    <2>5. ASSUME TierCopied(c) PROVE Ahead(c)'
      <3>1. /\ e.step = "copy" /\ e.left = {} /\ UNCHANGED <<stored, indexed, released>>
            /\ call'[c] = [e EXCEPT !.step = "release", !.left = BlocksIn[InHand(c)]]
        BY <1>0, <2>5, TierRecord DEF TierCopied, seals
      <3>2. call'[c].phase = e.phase /\ call'[c].step = "release" /\ call'[c].at = e.at
            /\ call'[c].freed = e.freed
        BY <2>0, <3>1 DEF Execution
      <3>3. e.phase \in {"move", "archive"} /\ e.freed = {}
        BY <1>0, <1>3, <3>1 DEF OnHand
      <3>4. \A b \in e.at \cap indexed, h \in Sha : h \in BlocksIn[b]
              => SharedAway(b, h) \/ \E t \in Beyond(e.phase) : h \in stored[t]
        BY <1>0, <1>3, <3>1, <3>3 DEF Ahead
      <3>5. \A b, h : SharedAway(b, h)' <=> SharedAway(b, h)
        BY <3>1 DEF SharedAway
      <3> QED
        BY <3>1, <3>2, <3>3, <3>4, <3>5 DEF Ahead
    <2>6. ASSUME TierDelete(c) PROVE Ahead(c)'
      <3>1. /\ e.step = "delete" /\ indexed' = indexed \ e.at
            /\ call'[c] = [e EXCEPT !.step = "release"]
        BY <1>0, <2>6, TierRecord DEF TierDelete
      <3>2. call'[c].phase = e.phase /\ call'[c].step = "release" /\ call'[c].at = e.at
            /\ call'[c].freed = e.freed
        BY <2>0, <3>1 DEF Execution
      <3>3. e.phase = "retain" /\ e.freed = {}
        BY <1>0, <1>3, <3>1 DEF OnHand
      <3> QED
        BY <3>1, <3>2, <3>3 DEF Ahead
    <2>7. ASSUME NEW h \in Sha, TierRelease(c, h) PROVE Ahead(c)'
      <3>1. /\ call'[c] = [e EXCEPT !.left = @ \ {h}, !.freed = IF refs[h] = 1 THEN {h} ELSE {}]
            /\ e.step = "release" /\ released' = released \cup e.at
        BY <1>0, <2>7, TierRecord DEF TierRelease
      <3>2. call'[c].phase = e.phase /\ call'[c].step = e.step /\ call'[c].at = e.at
        BY <2>0, <3>1 DEF Execution
      <3>3. call'[c].at \subseteq released'
        BY <3>1, <3>2
      <3> QED
        BY <1>3, <1>s, <3>1, <3>2, <3>3
    <2>8. ASSUME TierErase(c) PROVE Ahead(c)'
      <3>1. call'[c] = [e EXCEPT !.freed = {}]
        BY <1>0, <2>8, TierRecord DEF TierErase
      <3>2. call'[c].phase = e.phase /\ call'[c].step = e.step /\ call'[c].at = e.at
            /\ call'[c].left = e.left /\ call'[c].freed = {}
        BY <2>0, <3>1 DEF Execution
      <3> QED
        BY <1>3, <1>s, <3>2
    <2>9. ASSUME \/ \E p \in Policy : TierExecute(c, p)
                 \/ TierAdvance(c) \/ TierSeal(c) \/ TierAbort(c) \/ TierPlace(c)
                 \/ \E readable \in BOOLEAN, b \in Backup : TierLookAtSeal(c, b, readable)
                 \/ \E readable \in BOOLEAN : TierReadList(c, readable)
          PROVE  call'[c].step \notin {"copy", "release"}
      <3>1. Idle.step = "look"
        BY DEF Idle
      <3>2. ASSUME NEW p \in Policy, TierExecute(c, p) PROVE call'[c].step = "look"
        <4>1. call'[c] = [Idle EXCEPT !.phase = "move", !.policy = p, !.listed = Listed(p, "move", Idle.placed)]
          BY <1>0, <3>2, TierRecord DEF TierExecute
        <4> QED
          BY <4>1 DEF Idle
      <3>3. ASSUME TierAdvance(c) PROVE call'[c].step = "look"
        <4>1. /\ e.step = "look"
              /\ \/ call'[c] = Idle
                 \/ call'[c] = [e EXCEPT !.phase = NextPhase(c),
                                        !.listed = Listed(e.policy, NextPhase(c), e.placed)]
          BY <1>0, <3>3, TierRecord DEF TierAdvance
        <4> QED
          BY <2>0, <3>1, <4>1 DEF Execution
      <3>4. ASSUME TierSeal(c) \/ TierPlace(c) PROVE call'[c].step = "look"
        <4>1. \/ call'[c] = [e EXCEPT !.step = "look", !.at = {}, !.list = {}]
              \/ call'[c] = [e EXCEPT !.step = "look", !.at = {}, !.placed =
                   [@ EXCEPT ![InHand(c)] = IF e.phase = "retain" THEN Perf ELSE Target(c)]]
          BY <1>0, <3>4, TierRecord DEF TierSeal, TierPlace
        <4> QED
          BY <2>0, <4>1 DEF Execution
      <3>5. ASSUME TierAbort(c) PROVE call'[c].step = "look"
        BY <1>0, <3>1, <3>5, TierRecord DEF TierAbort
      <3>6. ASSUME NEW readable \in BOOLEAN, NEW b \in Backup, TierLookAtSeal(c, b, readable)
            PROVE  call'[c].step \in {"look", "read"}
        <4>1. \/ call'[c] = [e EXCEPT !.listed = @ \ {b}]
              \/ call'[c] = [e EXCEPT !.listed = @ \ {b}, !.at = {b}, !.step = "read"]
          BY <1>0, <3>6, TierRecord DEF TierLookAtSeal
        <4> QED
          BY <2>0, <3>6, <4>1 DEF TierLookAtSeal, Execution
      <3>7. ASSUME NEW readable \in BOOLEAN, TierReadList(c, readable) PROVE call'[c].step = "write"
        <4>1. call'[c] = [e EXCEPT !.step = "write",
                 !.list = IF readable THEN sealed[Placement(c, InHand(c))] ELSE {}]
          BY <1>0, <3>7, TierRecord DEF TierReadList
        <4> QED
          BY <2>0, <4>1 DEF Execution
      <3> QED
        BY <2>9, <3>2, <3>3, <3>4, <3>5, <3>6, <3>7
    <2> QED
      BY <1>3, <2>1, <2>2, <2>3, <2>4, <2>5, <2>6, <2>7, <2>8, <2>9 DEF ExecutionStep
  <1> QED
    BY <1>1, <1>3

\* A backup that nobody has judged stays so, unless the list cannot be read for it.
LEMMA TierJudgeStep ==
    ASSUME TierInv, NEW c \in TierCall, ExecutionStep(c), NEW b \in indexed,
           \A d \in TierCall : ~Judged(d, b), b \in sealed[Perf] \/ TierSeal(c), b \notin unread'
    PROVE  b \in indexed' /\ \A d \in TierCall : ~Judged(d, b)'
  <1> DEFINE e == call[c]
             f == call'[c]
  <1>0. TierTypeOK /\ OnHand(e) /\ e \in Execution /\ b \in Backup
    BY DEF TierInv, TierTypeOK
  <1>1. /\ b \notin e.todo /\ e.placed[b] = Perf /\ (e.phase # "seal" => b \notin e.at)
    BY DEF Judged, Placement
  <1>2. ASSUME b \notin f.todo, f.placed[b] = Perf, f.phase # "seal" => b \notin f.at
        PROVE  \A d \in TierCall : ~Judged(d, b)'
    <2>1. ~Judged(c, b)'
      BY <1>2 DEF Judged, Placement
    <2>2. ASSUME NEW d \in TierCall \ {c} PROVE ~Judged(d, b)'
      <3>1. call'[d] = call[d]
        BY <1>0, TierAlone
      <3> QED
        BY <3>1 DEF Judged, Placement
    <2> QED
      BY <2>1, <2>2
  <1>i. Idle.todo = {} /\ Idle.placed[b] = Perf /\ Idle.at = {}
    BY <1>0 DEF Idle
  <1> DEFINE Kept == b \in indexed' /\ b \notin f.todo /\ f.placed[b] = Perf
                     /\ (f.phase # "seal" => b \notin f.at)
  <1>3. ASSUME f = Idle, indexed' = indexed PROVE Kept
    BY <1>3, <1>i
  <1>4. ASSUME NEW p \in Policy, TierExecute(c, p) PROVE Kept
    <2>1. f = [Idle EXCEPT !.phase = "move", !.policy = p, !.listed = Listed(p, "move", Idle.placed)]
          /\ indexed' = indexed
      BY <1>0, <1>4, TierRecord DEF TierExecute
    <2> QED
      BY <2>1, <1>0 DEF Idle
  <1>5. ASSUME TierAdvance(c) PROVE Kept
    <2>1. /\ e.step = "look" /\ indexed' = indexed
          /\ \/ f = Idle
             \/ f = [e EXCEPT !.phase = NextPhase(c), !.listed = Listed(e.policy, NextPhase(c), e.placed)]
      BY <1>0, <1>5, TierRecord DEF TierAdvance
    <2>2. e.at = {}
      BY <1>0, <2>1 DEF OnHand
    <2> QED
      BY <2>1, <2>2, <1>0, <1>1, <1>3 DEF Execution
  <1>6. ASSUME NEW a \in Backup, NEW readable \in BOOLEAN, TierLook(c, a, readable) PROVE Kept
    <2>1. /\ f = [e EXCEPT !.listed = @ \ {a},
                    !.todo = IF readable /\ Sealed(c, a) THEN @ ELSE @ \cup {a}]
          /\ indexed' = indexed
      BY <1>0, <1>6, TierRecord DEF TierLook
    <2>2. (readable /\ Sealed(c, a)) \/ a # b
      <3>1. SUFFICES ASSUME a = b PROVE readable /\ Sealed(c, b)
        OBVIOUS
      <3>2. b \in sealed[Perf]
        <4>1. ~TierSeal(c)
          BY <1>0, <1>6 DEF TierLook, TierSeal, OnHand
        <4> QED
          BY <4>1
      <3>3. Placement(c, b) = Perf
        BY <1>1 DEF Placement
      <3>4. Sealed(c, b)
        BY <3>2, <3>3 DEF Sealed
      <3>5. readable
        BY <1>6, <3>1, <3>2, <3>3 DEF TierLook
      <3> QED
        BY <3>4, <3>5
    <2>3. f.placed = e.placed /\ f.phase = e.phase /\ f.at = e.at
      BY <2>1, <1>0 DEF Execution
    <2>4. f.todo = IF readable /\ Sealed(c, a) THEN e.todo ELSE e.todo \cup {a}
      BY <2>1, <1>0 DEF Execution
    <2> QED
      BY <2>1, <2>2, <2>3, <2>4, <1>1
  <1>7. ASSUME NEW a \in Backup, NEW readable \in BOOLEAN, TierLookAtSeal(c, a, readable) PROVE Kept
    <2>1. /\ e.phase = "seal" /\ indexed' = indexed
          /\ \/ f = [e EXCEPT !.listed = @ \ {a}]
             \/ f = [e EXCEPT !.listed = @ \ {a}, !.at = {a}, !.step = "read"]
      BY <1>0, <1>7, TierRecord DEF TierLookAtSeal
    <2>2. f.placed = e.placed /\ f.phase = e.phase /\ f.todo = e.todo
      BY <2>1, <1>0 DEF Execution
    <2> QED
      BY <2>1, <2>2, <1>1
  <1>8. ASSUME NEW readable \in BOOLEAN, TierReadList(c, readable) PROVE Kept
    <2>1. /\ f = [e EXCEPT !.step = "write",
                    !.list = IF readable THEN sealed[Placement(c, InHand(c))] ELSE {}]
          /\ indexed' = indexed
      BY <1>0, <1>8, TierRecord DEF TierReadList
    <2>2. f.placed = e.placed /\ f.phase = e.phase /\ f.todo = e.todo /\ f.at = e.at
      BY <2>1, <1>0 DEF Execution
    <2> QED
      BY <2>1, <2>2, <1>1
  <1>9. ASSUME TierSeal(c) PROVE Kept
    <2>1. f = [e EXCEPT !.step = "look", !.at = {}, !.list = {}] /\ indexed' = indexed
      BY <1>0, <1>9, TierRecord DEF TierSeal
    <2> QED
      BY <2>1, <1>0, <1>1 DEF Execution
  <1>10. ASSUME NEW a \in Backup, TierTake(c, a) PROVE Kept
    <2>1. a \in e.todo /\ indexed' = indexed
      BY <1>10 DEF TierTake
    <2>2. \/ f = [e EXCEPT !.todo = @ \ {a}, !.at = {a}, !.left = BlocksIn[a],
                           !.step = IF e.phase = "retain" THEN "delete" ELSE "copy"]
          \/ f = [e EXCEPT !.todo = @ \ {a}] /\ e.phase # "seal"
          \/ f = Idle
      BY <1>0, <1>10, TierRecord DEF TierTake
    <2>3. CASE f = [e EXCEPT !.todo = @ \ {a}, !.at = {a}, !.left = BlocksIn[a],
                           !.step = IF e.phase = "retain" THEN "delete" ELSE "copy"]
      <3>1. f.placed = e.placed /\ f.todo = e.todo \ {a} /\ f.at = {a}
        BY <2>3, <1>0 DEF Execution
      <3> QED
        BY <2>1, <3>1, <1>1
    <2>4. CASE f = [e EXCEPT !.todo = @ \ {a}] /\ e.phase # "seal"
      <3>1. f.placed = e.placed /\ f.todo = e.todo \ {a} /\ f.at = e.at
        BY <2>4, <1>0 DEF Execution
      <3> QED
        BY <2>1, <2>4, <3>1, <1>1
    <2> QED
      BY <2>1, <2>2, <2>3, <2>4, <1>3
  <1>11. ASSUME NEW h \in Sha, TierCopy(c, h) PROVE Kept
    <2>1. (f = [e EXCEPT !.left = @ \ {h}] \/ f = Idle) /\ indexed' = indexed
      BY <1>0, <1>11, TierRecord DEF TierCopy
    <2> QED
      BY <2>1, <1>0, <1>1, <1>3 DEF Execution
  <1>12. ASSUME TierCopied(c) PROVE Kept
    <2>1. f = [e EXCEPT !.step = "release", !.left = BlocksIn[InHand(c)]] /\ indexed' = indexed
      BY <1>0, <1>12, TierRecord DEF TierCopied
    <2> QED
      BY <2>1, <1>0, <1>1 DEF Execution
  <1>13. ASSUME TierDelete(c) PROVE Kept
    <2>1. f = [e EXCEPT !.step = "release"] /\ indexed' = indexed \ e.at /\ e.step = "delete"
      BY <1>0, <1>13, TierRecord DEF TierDelete
    <2>2. e.phase = "retain"
      BY <1>0, <2>1 DEF OnHand
    <2>3. f.placed = e.placed /\ f.todo = e.todo /\ f.at = e.at
      BY <2>1, <1>0 DEF Execution
    <2> QED
      BY <2>1, <2>2, <2>3, <1>1
  <1>14. ASSUME NEW h \in Sha, TierRelease(c, h) PROVE Kept
    <2>1. /\ f = [e EXCEPT !.left = @ \ {h}, !.freed = IF refs[h] = 1 THEN {h} ELSE {}]
          /\ indexed' = indexed
      BY <1>0, <1>14, TierRecord DEF TierRelease
    <2>2. f.placed = e.placed /\ f.phase = e.phase /\ f.todo = e.todo /\ f.at = e.at
      BY <2>1, <1>0 DEF Execution
    <2> QED
      BY <2>1, <2>2, <1>1
  <1>15. ASSUME TierErase(c) PROVE Kept
    <2>1. f = [e EXCEPT !.freed = {}] /\ indexed' = indexed
      BY <1>0, <1>15, TierRecord DEF TierErase
    <2> QED
      BY <2>1, <1>0, <1>1 DEF Execution
  <1>16. ASSUME TierPlace(c) PROVE Kept
    <2>1. /\ f = [e EXCEPT !.step = "look", !.at = {}, !.placed =
                    [@ EXCEPT ![InHand(c)] = IF e.phase = "retain" THEN Perf ELSE Target(c)]]
          /\ indexed' = indexed /\ e.step = "release"
      BY <1>0, <1>16, TierRecord DEF TierPlace
    <2>2. InHand(c) # b
      BY <1>0, <1>1, <2>1, TierInHand DEF OnHand
    <2>3. /\ f.at = {} /\ f.todo = e.todo
          /\ f.placed = [e.placed EXCEPT ![InHand(c)] = IF e.phase = "retain" THEN Perf ELSE Target(c)]
      BY <2>1, <1>0 DEF Execution
    <2>4. f.placed[b] = e.placed[b]
      BY <2>2, <2>3, <1>0 DEF Execution
    <2> QED
      BY <2>1, <2>3, <2>4, <1>1
  <1>17. ASSUME TierAbort(c) PROVE Kept
    BY <1>0, <1>17, <1>3, TierRecord DEF TierAbort
  <1>18. Kept
    BY <1>4, <1>5, <1>6, <1>7, <1>8, <1>9, <1>10, <1>11, <1>12, <1>13, <1>14, <1>15, <1>16, <1>17
    DEF ExecutionStep
  <1> QED
    BY <1>2, <1>18

\* A seal holds as long as none of the three reasons has come up.
LEMMA TierSealStep ==
    ASSUME TierInv, NEW c \in TierCall, ExecutionStep(c)
    PROVE  SealsHold'
  <1>0. TierTypeOK /\ SealsHold /\ OnHand(call[c]) /\ sealed[Perf] \subseteq Backup
    BY DEF TierInv, TierTypeOK, Tier
  <1>m. /\ unread \subseteq unread' /\ overwritten \subseteq overwritten' /\ overtaken \subseteq overtaken'
    BY DEF ExecutionStep, TierExecute, TierAdvance, TierCopied, TierDelete, TierErase, TierPlace, TierSeal,
           TierAbort, TierTake, TierCopy, TierRelease, TierReadList, TierLook, TierLookAtSeal, seals
  <1>1. CASE TierSeal(c)
    <2> DEFINE tier == Placement(c, InHand(c))
               list == call[c].list \cup call[c].at
               onPerf == IF tier = Perf THEN list ELSE sealed[Perf]
    <2>1. /\ sealed' = [sealed EXCEPT ![tier] = list]
          /\ everSealed' = everSealed \cup onPerf
          /\ overwritten' = overwritten \cup (sealed[Perf] \ onPerf)
          /\ overtaken' = overtaken \cup {b \in onPerf \ sealed[Perf] :
                                             b \notin indexed \/ \E d \in TierCall : Judged(d, b)}
          /\ unread' = unread
      BY <1>1 DEF TierSeal
    <2>2. sealed'[Perf] = onPerf
      BY <1>0, <2>1 DEF TierTypeOK, Tier
    <2>3. everSealed' \subseteq sealed'[Perf] \cup overwritten'
      BY <1>0, <2>1, <2>2 DEF SealsHold
    <2>4. ASSUME NEW b \in onPerf, b \notin unread' \cup overwritten' \cup overtaken'
          PROVE  b \in indexed' /\ \A d \in TierCall : ~Judged(d, b)'
      <3>1. b \in indexed /\ \A d \in TierCall : ~Judged(d, b)
        <4>1. CASE b \in sealed[Perf]
          BY <1>0, <1>m, <2>4, <4>1 DEF SealsHold
        <4>2. CASE b \notin sealed[Perf]
          BY <2>1, <2>4, <4>2
        <4> QED
          BY <4>1, <4>2
      <3> QED
        BY <1>1, <2>4, <3>1, TierJudgeStep
    <2> QED
      BY <2>2, <2>3, <2>4 DEF SealsHold
  <1>2. CASE ~TierSeal(c)
    <2>1. sealed' = sealed /\ everSealed' = everSealed
      BY <1>2 DEF ExecutionStep, TierExecute, TierAdvance, TierCopied, TierDelete, TierErase, TierPlace,
             TierAbort, TierTake, TierCopy, TierRelease, TierReadList, TierLook, TierLookAtSeal, seals
    <2>2. everSealed' \subseteq sealed'[Perf] \cup overwritten'
      BY <1>0, <1>m, <2>1 DEF SealsHold
    <2>3. ASSUME NEW b \in sealed[Perf], b \notin unread' \cup overwritten' \cup overtaken'
          PROVE  b \in indexed' /\ \A d \in TierCall : ~Judged(d, b)'
      <3>1. b \in indexed /\ \A d \in TierCall : ~Judged(d, b)
        BY <1>0, <1>m, <2>3 DEF SealsHold
      <3> QED
        BY <2>3, <3>1, TierJudgeStep
    <2> QED
      BY <2>1, <2>2, <2>3 DEF SealsHold
  <1> QED
    BY <1>1, <1>2

(***************************************************************************)
(* Where the blocks of a backup are while executions copy, release and     *)
(* erase them side by side, and how far a seal is known to every one of    *)
(* them, are kept by every step.                                           *)
(***************************************************************************)
THEOREM TierInvariant == TierSpec => []TierInv
  <1>1. ASSUME TierInv, NEW c \in TierCall, ExecutionStep(c) PROVE MoveKeepsBlocks'
    <2> SUFFICES ASSUME NEW b \in indexed', NEW h \in Sha, h \in BlocksIn[b], ~SharedAway(b, h)'
                 PROVE  \E t \in Tier : h \in stored'[t]
      BY DEF MoveKeepsBlocks, SharedAway
    <2>1. b \in indexed /\ released \subseteq released'
      BY <1>1 DEF ExecutionStep, TierExecute, TierAdvance, TierCopied, TierDelete, TierErase, TierPlace, TierSeal,
             TierAbort, TierTake, TierCopy, TierRelease, TierReadList, TierLook, TierLookAtSeal, seals
    <2>2. \E t \in Tier : h \in stored[t]
      BY <1>1, <2>1 DEF TierInv, MoveKeepsBlocks, SharedAway
    <2> QED
      BY <1>1, <2>2, TierStays
  <1>2. ASSUME TierInv, Day PROVE TierInv'
    <2>1. \A c \in TierCall : Ahead(c)'
      BY <1>2 DEF Day, seals, Ahead, TierInv, SharedAway
    <2>2. MoveKeepsBlocks' /\ SealsHold'
      BY <1>2 DEF Day, seals, TierInv, MoveKeepsBlocks, SealsHold, Judged, Placement
    <2>3. TierTypeOK' /\ \A c \in TierCall : OnHand(call'[c])
      BY <1>2, TierTypeStep DEF TierInv, TierNext
    <2> QED
      BY <2>1, <2>2, <2>3 DEF TierInv
  <1>3. ASSUME TierInv, UNCHANGED tierVars PROVE TierInv'
    <2>1. TierTypeOK' /\ \A c \in TierCall : OnHand(call'[c])
      BY <1>3, TierTypeStep DEF TierInv
    <2>2. \A c \in TierCall : Ahead(c)'
      BY <1>3 DEF tierVars, Ahead, TierInv, SharedAway
    <2>3. MoveKeepsBlocks' /\ SealsHold'
      BY <1>3 DEF tierVars, seals, TierInv, MoveKeepsBlocks, SealsHold, Judged, Placement
    <2> QED
      BY <2>1, <2>2, <2>3 DEF TierInv
  <1>4. TierInv /\ [TierNext]_tierVars => TierInv'
    <2>1. ASSUME TierInv, NEW c \in TierCall, ExecutionStep(c) PROVE TierInv'
      <3>1. TierTypeOK' /\ \A d \in TierCall : OnHand(call'[d])
        BY <2>1, TierTypeStep DEF TierInv, TierNext
      <3>2. \A d \in TierCall : Ahead(d)'
        BY <2>1, TierAheadStep
      <3> QED
        BY <2>1, <3>1, <3>2, <1>1, TierSealStep DEF TierInv
    <2> QED
      BY <2>1, <1>2, <1>3 DEF TierNext
  <1> QED
    BY <1>4, TierStart, PTL DEF TierSpec

\* A move by itself loses no block of a backup that is in the index, and a sealed backup is deleted
\* only after its seal could not be read, was written over, or came after it had been judged: for
\* any number of requests, policies, backups and days.
THEOREM PoliciesStaySound == TierSpec => []TiersSound
  <1>1. TierInv => TiersSound
    BY DEF TierInv, TiersSound, SealsHold, SealLossExplained
  <1> QED
    BY <1>1, TierInvariant, PTL

-----------------------------------------------------------------------------
(***************************************************************************)
(* The restores of cloud resources.                                        *)
(***************************************************************************)
AskedFields == {"at", "account", "given", "kind", "hint"}

\* A call that has no keys of its account asks AWS with those of the environment.
EnvironmentKeys(c) ==
    asked[c].given.provider = "aws" /\ ~asked[c].given.own => setting.keys

\* What is known of a call at each of its requests to the provider.
AskedOf(c) ==
    /\ DOMAIN asked[c] = AskedFields /\ asked[c].at \in InFlight \cup {"new", "over"}
    /\ asked[c].at \notin {"new", "over"} => asked[c].given \in AccountData
    /\ asked[c].at \in {"new", "prepare", "ask", "ask wrong"} => c \notin created
    /\ asked[c].at \in {"answer", "poll", "ok"} => c \in created
    /\ asked[c].at = "err" /\ c \in created => c \in unanswered
    /\ asked[c].at \in {"ask", "answer", "poll", "ok"} => EnvironmentKeys(c)
    /\ asked[c].at = "err" /\ c \in created => EnvironmentKeys(c)

AskedShape == DOMAIN asked = CloudCall /\ \A c \in CloudCall : AskedOf(c)

\* What is recorded is of a call that is over.
RecordsOver == \A r \in restores : r.of \in CloudCall /\ asked[r.of].at = "over"

CloudInv == CloudTypeOK /\ AskedShape /\ RecordsOver /\ CloudAccounted

\* A request of call c was answered, or refused; the other calls stay where they are.
AskedMoves(c, at, hint) ==
    /\ DOMAIN asked' = CloudCall /\ \A d \in CloudCall \ {c} : asked'[d] = asked[d]
    /\ DOMAIN asked'[c] = AskedFields
    /\ asked'[c].at = at /\ asked'[c].hint = hint
    /\ asked'[c].account = asked[c].account /\ asked'[c].given = asked[c].given
    /\ asked'[c].kind = asked[c].kind

LEMMA CloudReach ==
    ASSUME AskedShape, NEW c \in CloudCall, NEW at, NEW hint, Reach(c, at, hint)
    PROVE  AskedMoves(c, at, hint)
BY DEF AskedShape, AskedOf, AskedFields, AskedMoves, Reach

LEMMA CloudEnded ==
    /\ DOMAIN NotAsked = AskedFields /\ NotAsked.at = "new" /\ NotAsked.hint = FALSE
    /\ DOMAIN Ended = AskedFields /\ Ended.at = "over"
BY DEF NotAsked, Ended, AskedFields

\* Each step keeps what is known of the calls.
LEMMA CloudShapeStep ==
    ASSUME CloudTypeOK, AskedShape, CloudNext
    PROVE  AskedShape' /\ setting' = setting
<1>1. ASSUME NEW c \in CloudCall, NEW at, NEW hint, AskedMoves(c, at, hint), AskedOf(c)',
             \A d \in CloudCall \ {c} : (d \in created' <=> d \in created) /\ (d \in unanswered => d \in unanswered'),
             setting' = setting
      PROVE  AskedShape' /\ setting' = setting
  <2>1. ASSUME NEW d \in CloudCall \ {c}
        PROVE  AskedOf(d)'
    BY <1>1, <2>1 DEF AskedShape, AskedOf, AskedMoves, EnvironmentKeys
  <2>2. QED
    BY <1>1, <2>1 DEF AskedShape, AskedMoves
<1>2. ASSUME NEW c \in CloudCall, NEW a \in CloudAccount, Submit(c, a)
      PROVE  AskedShape' /\ setting' = setting
  <2>1. PICK k : asked' = [asked EXCEPT ![c] = [at |-> "prepare", account |-> a, given |-> accounts[a],
                                                kind |-> k, hint |-> FALSE]]
    BY <1>2 DEF Submit
  <2>2. DOMAIN asked' = CloudCall /\ \A d \in CloudCall \ {c} : asked'[d] = asked[d]
    BY <2>1 DEF AskedShape
  <2>3. /\ DOMAIN asked'[c] = AskedFields /\ asked'[c].at = "prepare" /\ asked'[c].hint = FALSE
        /\ asked'[c].given = accounts[a]
    BY <2>1 DEF AskedShape, AskedFields
  <2>4. c \notin created /\ accounts[a] \in AccountData /\ UNCHANGED <<setting, created, unanswered>>
    BY <1>2 DEF Submit, AskedShape, AskedOf, CloudTypeOK
  <2>5. AskedOf(c)'
    BY <2>3, <2>4 DEF AskedOf, InFlight, EnvironmentKeys
  <2>6. ASSUME NEW d \in CloudCall \ {c}
        PROVE  AskedOf(d)'
    BY <2>2, <2>4, <2>6 DEF AskedShape, AskedOf, EnvironmentKeys
  <2>7. QED
    BY <2>2, <2>4, <2>5, <2>6 DEF AskedShape
<1>3. ASSUME NEW c \in CloudCall, Prepare(c)
      PROVE  AskedShape' /\ setting' = setting
  <2>1. asked[c].at = "prepare" /\ UNCHANGED <<setting, created, unanswered>>
    BY <1>3 DEF Prepare
  <2>2. \/ AskedMoves(c, "ask", FALSE) /\ EnvironmentKeys(c)
        \/ AskedMoves(c, "ask wrong", FALSE)
        \/ AskedMoves(c, "err", TRUE)
    <3>1. CASE PrepareAws(c)
      BY <3>1, CloudReach DEF PrepareAws, EnvironmentKeys
    <3>2. CASE PrepareAzure(c)
      BY <3>2, CloudReach DEF PrepareAzure
    <3>3. CASE PrepareGcp(c)
      BY <3>3, CloudReach DEF PrepareGcp, EnvironmentKeys
    <3>4. QED
      BY <1>3, <3>1, <3>2, <3>3 DEF Prepare
  <2>3. AskedOf(c) /\ c \notin created
    BY <2>1 DEF AskedShape, AskedOf
  <2>4. CASE AskedMoves(c, "ask", FALSE) /\ EnvironmentKeys(c)
    <3>1. AskedOf(c)'
      BY <2>1, <2>3, <2>4 DEF AskedOf, AskedMoves, InFlight, EnvironmentKeys
    <3>2. QED
      BY <1>1, <2>1, <2>4, <3>1
  <2>5. CASE AskedMoves(c, "ask wrong", FALSE)
    <3>1. AskedOf(c)'
      BY <2>1, <2>3, <2>5 DEF AskedOf, AskedMoves, InFlight
    <3>2. QED
      BY <1>1, <2>1, <2>5, <3>1
  <2>6. CASE AskedMoves(c, "err", TRUE)
    <3>1. AskedOf(c)'
      BY <2>1, <2>3, <2>6 DEF AskedOf, AskedMoves, InFlight
    <3>2. QED
      BY <1>1, <2>1, <2>6, <3>1
  <2>7. QED
    BY <2>2, <2>4, <2>5, <2>6
<1>4. ASSUME NEW c \in CloudCall, Refused(c)
      PROVE  AskedShape' /\ setting' = setting
  <2>1. asked[c].at \in {"ask", "ask wrong"} /\ UNCHANGED <<setting, created, unanswered>>
    BY <1>4 DEF Refused
  <2>2. PICK hint \in BOOLEAN : AskedMoves(c, "err", hint)
    BY <1>4, CloudReach DEF Refused
  <2>3. AskedOf(c)'
    BY <2>1, <2>2 DEF AskedShape, AskedOf, AskedMoves, InFlight
  <2>4. QED
    BY <1>1, <2>1, <2>2, <2>3
<1>5. ASSUME NEW c \in CloudCall, Accepted(c)
      PROVE  AskedShape' /\ setting' = setting
  <2>1. /\ asked[c].at = "ask" /\ UNCHANGED <<setting, unanswered>> /\ created' = created \cup {c}
    BY <1>5 DEF Accepted
  <2>2. AskedMoves(c, "poll", FALSE) \/ AskedMoves(c, "answer", FALSE)
    <3>1. Reach(c, "poll", FALSE) \/ Reach(c, "answer", FALSE)
      BY <1>5 DEF Accepted
    <3>2. QED
      BY <3>1, CloudReach
  <2>3. AskedOf(c)'
    BY <2>1, <2>2 DEF AskedShape, AskedOf, AskedMoves, InFlight, EnvironmentKeys
  <2>4. QED
    BY <1>1, <2>1, <2>2, <2>3
<1>6. ASSUME NEW c \in CloudCall, Answered(c) \/ Polled(c)
      PROVE  AskedShape' /\ setting' = setting
  <2>1. /\ asked[c].at \in {"answer", "poll"} /\ setting' = setting
        /\ \A d \in CloudCall \ {c} : (d \in created' <=> d \in created) /\ (d \in unanswered => d \in unanswered')
    BY <1>6 DEF Answered, Polled
  <2>2. \/ AskedMoves(c, "ok", FALSE) /\ UNCHANGED created
        \/ /\ \E hint \in BOOLEAN : AskedMoves(c, "err", hint)
           /\ c \in created' => created' = created /\ c \in unanswered'
    BY <1>6, CloudReach DEF Answered, Polled
  <2>3. AskedOf(c) /\ c \in created
    BY <2>1 DEF AskedShape, AskedOf
  <2>4. CASE AskedMoves(c, "ok", FALSE) /\ UNCHANGED created
    <3>1. AskedOf(c)'
      BY <2>1, <2>3, <2>4 DEF AskedOf, AskedMoves, InFlight, EnvironmentKeys
    <3>2. QED
      BY <1>1, <2>1, <2>4, <3>1
  <2>5. ASSUME NEW hint \in BOOLEAN, AskedMoves(c, "err", hint),
               c \in created' => created' = created /\ c \in unanswered'
        PROVE  AskedShape' /\ setting' = setting
    <3>1. AskedOf(c)'
      BY <2>1, <2>3, <2>5 DEF AskedOf, AskedMoves, InFlight, EnvironmentKeys
    <3>2. QED
      BY <1>1, <2>1, <2>5, <3>1
  <2>6. QED
    BY <2>2, <2>4, <2>5
<1>7. ASSUME NEW c \in CloudCall, Recorded(c) \/ CallerGone(c)
      PROVE  AskedShape' /\ setting' = setting
  <2>1. asked' = [asked EXCEPT ![c] = Ended] /\ UNCHANGED <<setting, unanswered>>
        /\ \A d \in CloudCall \ {c} : d \in created' <=> d \in created
    BY <1>7 DEF Recorded, CallerGone
  <2>2. DOMAIN asked' = CloudCall /\ asked'[c] = Ended /\ \A d \in CloudCall \ {c} : asked'[d] = asked[d]
    BY <2>1 DEF AskedShape
  <2>3. AskedOf(c)'
    BY <2>2, CloudEnded DEF AskedOf
  <2>4. ASSUME NEW d \in CloudCall \ {c}
        PROVE  AskedOf(d)'
    BY <2>1, <2>2, <2>4 DEF AskedShape, AskedOf, EnvironmentKeys
  <2>5. QED
    BY <2>1, <2>2, <2>3, <2>4 DEF AskedShape
<1>8. ASSUME CloudRestart
      PROVE  AskedShape' /\ setting' = setting
  <2>1. UNCHANGED <<setting, created, unanswered>> /\ DOMAIN asked' = CloudCall
        /\ \A c \in CloudCall : asked'[c] = IF asked[c].at = "new" THEN NotAsked ELSE Ended
    BY <1>8 DEF CloudRestart
  <2>2. ASSUME NEW c \in CloudCall
        PROVE  AskedOf(c)'
    <3>1. CASE asked[c].at = "new"
      BY <2>1, <3>1, CloudEnded DEF AskedShape, AskedOf
    <3>2. CASE asked[c].at # "new"
      BY <2>1, <3>2, CloudEnded DEF AskedOf
    <3>3. QED
      BY <3>1, <3>2
  <2>3. QED
    BY <2>1, <2>2 DEF AskedShape
<1>9. ASSUME NEW a \in CloudAccount, RemoveAccount(a) \/ \E account \in AccountData : RegisterAccount(a, account)
      PROVE  AskedShape' /\ setting' = setting
  <2>1. UNCHANGED <<setting, asked, created, unanswered>>
    BY <1>9 DEF RemoveAccount, RegisterAccount
  <2>2. QED
    BY <2>1 DEF AskedShape, AskedOf, EnvironmentKeys
<1>10. QED
  BY <1>2, <1>3, <1>4, <1>5, <1>6, <1>7, <1>8, <1>9 DEF CloudNext

\* A call is recorded with what it came to; what the provider has created of it
\* does not change after.
LEMMA CloudRecordStep ==
    ASSUME CloudTypeOK, AskedShape, RecordsOver, CloudAccounted, CloudNext
    PROVE  RecordsOver' /\ CloudAccounted'
<1>1. setting' = setting /\ AskedShape'
  BY CloudShapeStep
<1>2. ASSUME NEW c \in CloudCall, asked[c].at # "over", restores' = restores, dropped \subseteq dropped',
             unanswered \subseteq unanswered',
             \A d \in CloudCall \ {c} : asked'[d] = asked[d] /\ (d \in created' <=> d \in created),
             asked'[c].at = "over" => c \in dropped'
      PROVE  RecordsOver' /\ CloudAccounted'
  <2>1. \A r \in restores : r.of \in CloudCall \ {c}
    BY <1>2 DEF RecordsOver
  <2>2. RecordsOver'
    BY <1>2, <2>1 DEF RecordsOver
  <2>3. created' \subseteq CloudCall
    BY <1>2 DEF CloudTypeOK, CloudNext, RemoveAccount, RegisterAccount, Submit, Prepare, Refused, Accepted,
                Answered, Polled, Recorded, CallerGone, CloudRestart
  <2>4. QED
    BY <1>1, <1>2, <2>1, <2>2, <2>3 DEF CloudAccounted
<1>3. ASSUME NEW c \in CloudCall, NEW at, NEW hint, AskedMoves(c, at, hint), at # "over", asked[c].at # "over",
             restores' = restores, dropped' = dropped, unanswered \subseteq unanswered',
             \A d \in CloudCall \ {c} : d \in created' <=> d \in created
      PROVE  RecordsOver' /\ CloudAccounted'
  BY <1>2, <1>3 DEF AskedMoves
<1>4. ASSUME NEW c \in CloudCall, NEW a \in CloudAccount, Submit(c, a)
      PROVE  RecordsOver' /\ CloudAccounted'
  <2>1. PICK k : asked' = [asked EXCEPT ![c] = [at |-> "prepare", account |-> a, given |-> accounts[a],
                                                kind |-> k, hint |-> FALSE]]
    BY <1>4 DEF Submit
  <2>2. asked'[c].at = "prepare" /\ \A d \in CloudCall \ {c} : asked'[d] = asked[d]
    BY <2>1 DEF AskedShape
  <2>3. UNCHANGED <<restores, created, unanswered, dropped>> /\ asked[c].at = "new"
    BY <1>4 DEF Submit
  <2>4. QED
    BY <1>2, <2>2, <2>3
<1>5. ASSUME NEW c \in CloudCall, Prepare(c) \/ Refused(c)
      PROVE  RecordsOver' /\ CloudAccounted'
  <2>1. UNCHANGED <<restores, created, unanswered, dropped>> /\ asked[c].at # "over"
    BY <1>5 DEF Prepare, Refused
  <2>2. \/ Reach(c, "ask", FALSE) \/ Reach(c, "ask wrong", FALSE)
        \/ Reach(c, "err", FALSE) \/ Reach(c, "err", TRUE)
    BY <1>5 DEF Prepare, Refused, PrepareAws, PrepareAzure, PrepareGcp
  <2>3. QED
    BY <1>3, <2>1, <2>2, CloudReach
<1>6. ASSUME NEW c \in CloudCall, Accepted(c) \/ Answered(c) \/ Polled(c)
      PROVE  RecordsOver' /\ CloudAccounted'
  <2>1. UNCHANGED <<restores, dropped>> /\ unanswered \subseteq unanswered' /\ asked[c].at # "over"
        /\ \A d \in CloudCall \ {c} : d \in created' <=> d \in created
    BY <1>6 DEF Accepted, Answered, Polled
  <2>2. \/ Reach(c, "poll", FALSE) \/ Reach(c, "answer", FALSE)
        \/ Reach(c, "ok", FALSE) \/ Reach(c, "err", FALSE) \/ Reach(c, "err", TRUE)
    BY <1>6 DEF Accepted, Answered, Polled
  <2>3. QED
    BY <1>3, <2>1, <2>2, CloudReach
<1>7. ASSUME NEW c \in CloudCall, CallerGone(c)
      PROVE  RecordsOver' /\ CloudAccounted'
  <2>1. /\ restores' = restores /\ dropped' = dropped \cup {c} /\ asked[c].at # "over"
        /\ unanswered' = unanswered /\ \A d \in CloudCall \ {c} : d \in created' <=> d \in created
    BY <1>7 DEF CallerGone, InFlight
  <2>2. \A d \in CloudCall \ {c} : asked'[d] = asked[d]
    BY <1>7 DEF CallerGone, AskedShape
  <2>3. QED
    BY <1>2, <2>1, <2>2
<1>8. ASSUME NEW c \in CloudCall, Recorded(c)
      PROVE  RecordsOver' /\ CloudAccounted'
  <2> DEFINE r == [of |-> c, account |-> asked[c].account, given |-> asked[c].given,
                   kind |-> asked[c].kind, hint |-> asked[c].hint,
                   status |-> IF asked[c].at = "ok" THEN "Completed"
                              ELSE IF is_missing_credentials(c) THEN "Planned" ELSE "Failed"]
  <2>1. /\ restores' = restores \cup {r} /\ UNCHANGED <<created, unanswered, dropped>>
        /\ asked[c].at \in {"ok", "err"}
    BY <1>8 DEF Recorded
  <2>2. asked'[c].at = "over" /\ \A d \in CloudCall \ {c} : asked'[d] = asked[d]
    BY <1>8, CloudEnded DEF Recorded, AskedShape
  <2>3. /\ r.of = c /\ r.given = asked[c].given /\ r.kind = asked[c].kind
        /\ r.hint = asked[c].hint
        /\ r.status = IF asked[c].at = "ok" THEN "Completed"
                      ELSE IF is_missing_credentials(c) THEN "Planned" ELSE "Failed"
    OBVIOUS
  <2> HIDE DEF r
  <2>4. /\ r.status = "Completed" => c \in created
        /\ r.status # "Completed" /\ c \in created => c \in unanswered
        /\ r.status = "Planned" /\ c \in created =>
              \/ r.hint
              \/ r.given.provider = "aws" /\ ~r.given.own /\ setting.keys /\ r.kind # "ec2_ami"
    BY <2>1, <2>3 DEF AskedShape, AskedOf, is_missing_credentials, EnvironmentKeys
  <2>5. RecordsOver'
    BY <2>1, <2>2, <2>3 DEF RecordsOver
  <2>6. \A e \in restores' : /\ e.status = "Completed" => e.of \in created
                             /\ e.status # "Completed" /\ e.of \in created => e.of \in unanswered
                             /\ e.status = "Planned" /\ e.of \in created =>
                                  \/ e.hint
                                  \/ /\ e.given.provider = "aws" /\ ~e.given.own
                                     /\ setting.keys /\ e.kind # "ec2_ami"
    BY <2>1, <2>3, <2>4 DEF CloudAccounted
  <2>7. \A d \in created : asked'[d].at = "over" => d \in dropped \/ \E e \in restores' : e.of = d
    <3>1. ASSUME NEW d \in created, asked'[d].at = "over"
          PROVE  d \in dropped \/ \E e \in restores' : e.of = d
      <4>1. d \in CloudCall
        BY DEF CloudTypeOK
      <4>2. QED
        BY <2>1, <2>2, <2>3, <3>1, <4>1 DEF CloudAccounted
    <3>2. QED
      BY <3>1
  <2>8. QED
    BY <1>1, <2>1, <2>5, <2>6, <2>7 DEF CloudAccounted
<1>9. ASSUME CloudRestart
      PROVE  RecordsOver' /\ CloudAccounted'
  <2>1. restores' = {} /\ created' = created
    BY <1>9 DEF CloudRestart
  <2>2. \A c \in created : c \in dropped'
    BY <1>9 DEF CloudRestart, AskedShape, AskedOf, CloudTypeOK
  <2>3. QED
    BY <2>1, <2>2 DEF RecordsOver, CloudAccounted
<1>10. ASSUME NEW a \in CloudAccount, RemoveAccount(a) \/ \E account \in AccountData : RegisterAccount(a, account)
       PROVE  RecordsOver' /\ CloudAccounted'
  <2>1. UNCHANGED <<setting, restores, asked, created, unanswered, dropped>>
    BY <1>10 DEF RemoveAccount, RegisterAccount
  <2>2. QED
    BY <2>1 DEF RecordsOver, CloudAccounted
<1>11. QED
  BY <1>4, <1>5, <1>6, <1>7, <1>8, <1>9, <1>10 DEF CloudNext

\* Each step keeps the types.
LEMMA CloudTypeStep ==
    ASSUME CloudTypeOK, AskedShape, CloudNext
    PROVE  CloudTypeOK'
<1>1. setting' = setting /\ \A c \in CloudCall : asked'[c].at \in InFlight \cup {"new", "over"}
  BY CloudShapeStep DEF AskedShape, AskedOf
<1>2. ASSUME NEW c \in CloudCall, Recorded(c)
      PROVE  CloudTypeOK'
  <2>1. UNCHANGED <<accounts, created, unanswered, dropped>>
    BY <1>2 DEF Recorded
  <2>2. \A r \in restores' : r.of \in CloudCall /\ r.status \in {"Completed", "Planned", "Failed"}
    BY <1>2 DEF Recorded, CloudTypeOK
  <2>3. QED
    BY <1>1, <2>1, <2>2 DEF CloudTypeOK
<1>3. ASSUME NEW c \in CloudCall,
             \/ Prepare(c) \/ Refused(c) \/ Accepted(c) \/ Answered(c) \/ Polled(c) \/ CallerGone(c)
             \/ \E a \in CloudAccount : Submit(c, a)
      PROVE  CloudTypeOK'
  <2>1. UNCHANGED <<accounts, restores>>
    BY <1>3 DEF Prepare, Refused, Accepted, Answered, Polled, CallerGone, Submit
  <2>2. created' \cup unanswered' \cup dropped' \subseteq CloudCall
    BY <1>3 DEF Prepare, Refused, Accepted, Answered, Polled, CallerGone, Submit, CloudTypeOK
  <2>3. QED
    BY <1>1, <2>1, <2>2 DEF CloudTypeOK
<1>4. ASSUME NEW a \in CloudAccount, RemoveAccount(a) \/ \E account \in AccountData : RegisterAccount(a, account)
      PROVE  CloudTypeOK'
  <2>1. UNCHANGED <<restores, created, unanswered, dropped>>
    BY <1>4 DEF RemoveAccount, RegisterAccount
  <2>2. DOMAIN accounts' \subseteq CloudAccount /\ \A b \in DOMAIN accounts' : accounts'[b] \in AccountData
    BY <1>4 DEF RemoveAccount, RegisterAccount, CloudTypeOK
  <2>3. QED
    BY <1>1, <2>1, <2>2 DEF CloudTypeOK
<1>5. ASSUME CloudRestart
      PROVE  CloudTypeOK'
  BY <1>1, <1>5 DEF CloudRestart, CloudTypeOK
<1>6. QED
  BY <1>2, <1>3, <1>4, <1>5 DEF CloudNext

(***************************************************************************)
(* At each of its requests a call knows whether the provider may have      *)
(* created its resource, and with whose keys; a record is of a call that   *)
(* is over.                                                                *)
(***************************************************************************)
THEOREM CloudInvariant == CloudSpec => []CloudInv
<1>1. CloudInit => CloudInv
  <2> SUFFICES ASSUME CloudInit PROVE CloudInv
    OBVIOUS
  <2>1. \A c \in CloudCall : asked[c] = NotAsked
    BY DEF CloudInit
  <2>2. AskedShape
    BY <2>1, CloudEnded DEF CloudInit, AskedShape, AskedOf
  <2>3. CloudTypeOK
    BY <2>2 DEF CloudInit, CloudTypeOK, AskedShape, AskedOf
  <2>4. QED
    BY <2>2, <2>3 DEF CloudInit, CloudInv, RecordsOver, CloudAccounted
<1>2. CloudInv /\ [CloudNext]_cloudVars => CloudInv'
  <2> SUFFICES ASSUME CloudInv, [CloudNext]_cloudVars PROVE CloudInv'
    OBVIOUS
  <2>1. CASE CloudNext
    BY <2>1, CloudShapeStep, CloudRecordStep, CloudTypeStep DEF CloudInv
  <2>2. CASE UNCHANGED cloudVars
    BY <2>2 DEF cloudVars, CloudInv, CloudTypeOK, AskedShape, AskedOf, EnvironmentKeys, RecordsOver,
                CloudAccounted
  <2>3. QED
    BY <2>1, <2>2
<1>3. QED
  BY <1>1, <1>2, PTL DEF CloudSpec

\* A completed restore has its resource, a failed or a planned one has none
\* whose answer was not lost, and no resource is of a call that ended in peace
\* and was not recorded.
THEOREM CloudStaysAccounted == CloudSpec => []CloudAccounted
<1>1. CloudInv => CloudAccounted
  BY DEF CloudInv
<1>2. QED
  BY <1>1, CloudInvariant, PTL

-----------------------------------------------------------------------------
(***************************************************************************)
(* Continuous data protection.                                             *)
(***************************************************************************)
\* The types that the proof needs: those of CdpTypeOK, with the sequences'.
CdpShape ==
    /\ status \in [CdpSession -> {"none", "Active", "Stopped", "gone"}]
    /\ watcher \in [CdpSession -> {"none", "starting", "watching", "failed"}]
    /\ loop \in [CdpSession -> {"none", "select", "journal", "file", "ended"}]
    /\ changes \in [CdpSession -> 0 .. Changes] /\ tracked \in [CdpSession -> Nat]
    /\ event \in [CdpSession -> 0 .. Changes]
    /\ channel \in [CdpSession -> Seq(Events)] /\ table \in [CdpSession -> Seq(Events)]
    /\ file \in [CdpSession -> Seq(Events)] /\ checkpoint \in [CdpSession -> 0 .. Changes]
    /\ unreported \in [CdpSession -> SUBSET Events] /\ stranded \in [CdpSession -> SUBSET Events]
    /\ unwatched \in [CdpSession -> SUBSET Events] /\ overrun \in [CdpSession -> SUBSET Events]
    /\ refused \in [CdpSession -> SUBSET Events] /\ late \in [CdpSession -> SUBSET Events]

\* The changes that the loop is done with.
SettledIn(s) == ToSet(table[s]) \cup refused[s]

\* Changes go through the channel and the loop's hands in the order they
\* happened: what is on its way is newer than what is settled.
CdpOrder(s) ==
    /\ \A a \in SettledIn(s) : a <= changes[s]
    /\ \A i \in DOMAIN channel[s] :
          /\ channel[s][i] <= changes[s]
          /\ \A a \in SettledIn(s) : a < channel[s][i]
          /\ \A j \in DOMAIN channel[s] : i < j => channel[s][i] < channel[s][j]
    /\ loop[s] \in {"journal", "file"} => event[s] \in 1 .. changes[s]
    /\ loop[s] = "journal" =>
          /\ \A a \in SettledIn(s) : a < event[s]
          /\ \A i \in DOMAIN channel[s] : event[s] < channel[s][i]

\* The counter never outruns the changes.
CdpBound(s) ==
    /\ Len(channel[s]) <= ChannelSize
    /\ tracked[s] + Len(channel[s]) <= changes[s]

CdpAt(s) == CdpOrder(s) /\ CdpBound(s) /\ AccountedAt(s)

\* Only a start gives a session its loop.
CdpStarted == \A s \in CdpSession : status[s] = "none" => loop[s] = "none"

CdpInv == CdpShape /\ CdpStarted /\ \A s \in CdpSession : CdpAt(s)

\* Facts about sequences: what appending to one and taking its head do to its elements.
LEMMA SetOfAppended ==
    ASSUME NEW S, NEW q \in Seq(S), NEW e \in S
    PROVE  /\ ToSet(Append(q, e)) = ToSet(q) \cup {e} /\ Append(q, e) \in Seq(S)
           /\ Len(Append(q, e)) = Len(q) + 1 /\ DOMAIN Append(q, e) = DOMAIN q \cup {Len(q) + 1}
           /\ \A i \in DOMAIN q : Append(q, e)[i] = q[i] /\ i <= Len(q)
           /\ Append(q, e)[Len(q) + 1] = e
<1>1. /\ Append(q, e) \in Seq(S) /\ Len(Append(q, e)) = Len(q) + 1 /\ DOMAIN q = 1 .. Len(q)
      /\ DOMAIN Append(q, e) = 1 .. Len(q) + 1 /\ Len(q) \in Nat
      /\ \A i \in 1 .. Len(q) : Append(q, e)[i] = q[i]
      /\ Append(q, e)[Len(q) + 1] = e
  OBVIOUS
<1>2. ToSet(Append(q, e)) = ToSet(q) \cup {e}
  <2>1. ASSUME NEW x \in ToSet(Append(q, e))
        PROVE  x \in ToSet(q) \cup {e}
    BY <1>1 DEF ToSet
  <2>2. ASSUME NEW x \in ToSet(q) \cup {e}
        PROVE  x \in ToSet(Append(q, e))
    <3>1. CASE x = e
      BY <1>1, <3>1 DEF ToSet
    <3>2. CASE x \in ToSet(q)
      <4>1. PICK i \in 1 .. Len(q) : x = q[i]
        BY <1>1, <3>2 DEF ToSet
      <4>2. x = Append(q, e)[i] /\ i \in DOMAIN Append(q, e)
        BY <1>1, <4>1
      <4>3. QED
        BY <4>2 DEF ToSet
    <3>3. QED
      BY <2>2, <3>1, <3>2
  <2>3. QED
    BY <2>1, <2>2
<1>3. QED
  BY <1>1, <1>2

LEMMA SetOfTail ==
    ASSUME NEW S, NEW q \in Seq(S), q # <<>>
    PROVE  /\ ToSet(q) = {Head(q)} \cup ToSet(Tail(q)) /\ Tail(q) \in Seq(S)
           /\ Head(q) \in S /\ Head(q) = q[1] /\ 1 \in DOMAIN q
           /\ Len(Tail(q)) + 1 = Len(q)
           /\ \A i \in DOMAIN Tail(q) : i + 1 \in DOMAIN q /\ Tail(q)[i] = q[i + 1] /\ i \in Nat \ {0}
<1>1. /\ Tail(q) \in Seq(S) /\ Len(Tail(q)) + 1 = Len(q) /\ Len(q) \in Nat \ {0} /\ DOMAIN q = 1 .. Len(q)
      /\ DOMAIN Tail(q) = 1 .. Len(q) - 1 /\ \A i \in 1 .. Len(q) - 1 : Tail(q)[i] = q[i + 1]
      /\ Head(q) = q[1]
  OBVIOUS
<1>2. ToSet(q) = {Head(q)} \cup ToSet(Tail(q))
  <2>1. ASSUME NEW x \in ToSet(q)
        PROVE  x \in {Head(q)} \cup ToSet(Tail(q))
    <3>1. PICK i \in 1 .. Len(q) : x = q[i]
      BY <1>1 DEF ToSet
    <3>2. CASE i = 1
      BY <1>1, <3>1, <3>2
    <3>3. CASE i # 1
      <4>1. i - 1 \in DOMAIN Tail(q) /\ Tail(q)[i - 1] = q[i]
        BY <1>1, <3>1, <3>3
      <4>2. QED
        BY <3>1, <4>1 DEF ToSet
    <3>4. QED
      BY <3>2, <3>3
  <2>2. ASSUME NEW x \in {Head(q)} \cup ToSet(Tail(q))
        PROVE  x \in ToSet(q)
    <3>1. CASE x = Head(q)
      BY <1>1, <3>1 DEF ToSet
    <3>2. CASE x \in ToSet(Tail(q))
      <4>1. PICK i \in 1 .. Len(q) - 1 : x = Tail(q)[i]
        BY <1>1, <3>2 DEF ToSet
      <4>2. x = q[i + 1] /\ i + 1 \in DOMAIN q
        BY <1>1, <4>1
      <4>3. QED
        BY <4>2 DEF ToSet
    <3>3. QED
      BY <2>2, <3>1, <3>2
  <2>3. QED
    BY <2>1, <2>2
<1>3. QED
  BY <1>1, <1>2

\* What the step of one session leaves of another's.
CdpSame(t) ==
    /\ changes'[t] = changes[t] /\ channel'[t] = channel[t] /\ loop'[t] = loop[t]
    /\ event'[t] = event[t] /\ tracked'[t] = tracked[t] /\ table'[t] = table[t]
    /\ unwatched'[t] = unwatched[t] /\ unreported'[t] = unreported[t]
    /\ overrun'[t] = overrun[t] /\ refused'[t] = refused[t] /\ late'[t] = late[t]
    /\ stranded'[t] = stranded[t] /\ status'[t] = status[t]

LEMMA CdpSameKept ==
    ASSUME NEW t, CdpSame(t), CdpAt(t)
    PROVE  CdpAt(t)'
BY DEF CdpSame, CdpAt, CdpOrder, CdpBound, AccountedAt, TrackedExplained, SettledIn, InHands

CdpStep(s) ==
    \/ StopProtection(s) \/ LoopStep(s)
    \/ \E ok \in BOOLEAN : Change(s, ok) \/ StartProtection(s, ok) \/ WatcherStarts(s, ok)

LEMMA CdpOthers ==
    ASSUME CdpShape, NEW s \in CdpSession, CdpStep(s), NEW t \in CdpSession \ {s}
    PROVE  CdpSame(t)
<1> USE DEF CdpShape, CdpSame, Set
<1>1. ASSUME NEW ok \in BOOLEAN, Change(s, ok) \/ StopProtection(s) PROVE CdpSame(t)
  BY <1>1, ZenonT(30) DEF Change, StopProtection
<1>2. ASSUME Receive(s) \/ Checkpoint(s) \/ EndLoop(s) PROVE CdpSame(t)
  BY <1>2, SMTT(20) DEF Receive, Checkpoint, EndLoop
<1>3. ASSUME NEW ok \in BOOLEAN, Record(s, ok) \/ WriteLine(s, ok) PROVE CdpSame(t)
  BY <1>3, SMTT(20) DEF Record, WriteLine
<1>4. ASSUME NEW ok \in BOOLEAN, StartProtection(s, ok) \/ WatcherStarts(s, ok) PROVE CdpSame(t)
  BY <1>4 DEF StartProtection, WatcherStarts
<1>5. QED
  BY <1>1, <1>2, <1>3, <1>4 DEF CdpStep, LoopStep

\* Setting the value of one session.
LEMMA CdpSet ==
    ASSUME NEW T, NEW f \in [CdpSession -> T], NEW s \in CdpSession, NEW x \in T
    PROVE  Set(f, s, x) \in [CdpSession -> T] /\ Set(f, s, x)[s] = x
BY DEF Set

LEMMA CdpShapeStep ==
    ASSUME CdpShape, NEW s \in CdpSession, CdpStep(s), CdpAt(s)
    PROVE  CdpShape'
<1>0. Changes \in Nat /\ changes[s] \in Nat
  BY CdpAssumption DEF CdpShape
<1>1. ASSUME NEW ok \in BOOLEAN, Change(s, ok)
      PROVE  CdpShape'
  <2> DEFINE e == changes[s] + 1
  <2>1. e \in Events /\ e \in 0 .. Changes
    BY <1>0, <1>1 DEF Change, Events
  <2>2. changes' = Set(changes, s, e)
    BY <1>1 DEF Change
  <2>3. /\ channel' = channel \/ channel' = Set(channel, s, Append(channel[s], e))
        /\ unwatched' = unwatched \/ unwatched' = Set(unwatched, s, unwatched[s] \cup {e})
        /\ unreported' = unreported \/ unreported' = Set(unreported, s, unreported[s] \cup {e})
        /\ overrun' = overrun \/ overrun' = Set(overrun, s, overrun[s] \cup {e})
        /\ late' = late \/ late' = Set(late, s, late[s] \cup {e})
    BY <1>1 DEF Change
  <2>4. UNCHANGED <<status, watcher, loop, event, tracked, table, file, checkpoint, refused, stranded>>
    BY <1>1 DEF Change
  <2> HIDE DEF e
  <2>5. channel \in [CdpSession -> Seq(Events)] /\ channel[s] \in Seq(Events)
    BY DEF CdpShape
  <2>6. changes' \in [CdpSession -> 0 .. Changes]
    BY <2>1, <2>2, CdpSet DEF CdpShape
  <2>7. channel' \in [CdpSession -> Seq(Events)]
    <3>1. Append(channel[s], e) \in Seq(Events)
      BY <2>1, <2>5, SetOfAppended
    <3>2. Set(channel, s, Append(channel[s], e)) \in [CdpSession -> Seq(Events)]
      BY <2>5, <3>1, CdpSet
    <3>3. QED
      BY <2>3, <2>5, <3>2
  <2>8. /\ unwatched' \in [CdpSession -> SUBSET Events] /\ overrun' \in [CdpSession -> SUBSET Events]
        /\ late' \in [CdpSession -> SUBSET Events] /\ unreported' \in [CdpSession -> SUBSET Events]
    <3>1. ASSUME NEW f \in [CdpSession -> SUBSET Events]
          PROVE  Set(f, s, f[s] \cup {e}) \in [CdpSession -> SUBSET Events]
      <4>1. f[s] \cup {e} \in SUBSET Events
        BY <2>1
      <4>2. QED
        BY <4>1, CdpSet
    <3>2. QED
      BY <2>3, <3>1 DEF CdpShape
  <2>9. QED
    BY <2>4, <2>6, <2>7, <2>8 DEF CdpShape
<1>2. ASSUME StopProtection(s)
      PROVE  CdpShape'
  <2>1. status' \in [CdpSession -> {"none", "Active", "Stopped", "gone"}]
    BY <1>2, CdpSet DEF StopProtection, CdpShape
  <2>2. QED
    BY <1>2, <2>1 DEF StopProtection, CdpShape
<1>3. ASSUME Receive(s)
      PROVE  CdpShape'
  <2>1. channel[s] \in Seq(Events) /\ channel[s] # <<>> /\ tracked[s] + 1 \in Nat
    BY <1>3 DEF CdpShape, Receive
  <2>2. Head(channel[s]) \in Events /\ Tail(channel[s]) \in Seq(Events)
    BY <2>1, SetOfTail
  <2>3. Head(channel[s]) \in 0 .. Changes
    BY <1>0, <2>2 DEF Events
  <2>4. channel' \in [CdpSession -> Seq(Events)] /\ event' \in [CdpSession -> 0 .. Changes]
    BY <1>3, <2>2, <2>3, CdpSet DEF Receive, CdpShape
  <2>5. tracked' \in [CdpSession -> Nat]
        /\ loop' \in [CdpSession -> {"none", "select", "journal", "file", "ended"}]
    BY <1>3, <2>1, CdpSet DEF Receive, CdpShape
  <2>6. QED
    BY <1>3, <2>4, <2>5 DEF Receive, CdpShape
<1>4. ASSUME NEW ok \in BOOLEAN, Record(s, ok)
      PROVE  CdpShape'
  <2>1. event[s] \in Events /\ table[s] \in Seq(Events) /\ refused[s] \in SUBSET Events
    BY <1>0, <1>4 DEF Record, CdpAt, CdpOrder, CdpShape, Events
  <2>2. Append(table[s], event[s]) \in Seq(Events) /\ refused[s] \cup {event[s]} \in SUBSET Events
    BY <2>1, SetOfAppended
  <2>3. table' \in [CdpSession -> Seq(Events)]
    BY <1>4, <2>2, CdpSet DEF Record, CdpShape
  <2>4. refused' \in [CdpSession -> SUBSET Events]
    BY <1>4, <2>2, CdpSet DEF Record, CdpShape
  <2>5. loop' \in [CdpSession -> {"none", "select", "journal", "file", "ended"}]
    BY <1>4, CdpSet DEF Record, CdpShape
  <2>6. QED
    BY <1>4, <2>3, <2>4, <2>5 DEF Record, CdpShape
<1>5. ASSUME NEW ok \in BOOLEAN, WriteLine(s, ok)
      PROVE  CdpShape'
  <2>1. event[s] \in Events /\ file[s] \in Seq(Events) /\ 0 \in 0 .. Changes
    BY <1>0, <1>5 DEF WriteLine, CdpAt, CdpOrder, CdpShape, Events
  <2>2. Append(file[s], event[s]) \in Seq(Events)
    BY <2>1, SetOfAppended
  <2>3. file' \in [CdpSession -> Seq(Events)]
    BY <1>5, <2>2, CdpSet DEF WriteLine, CdpShape
  <2>4. loop' \in [CdpSession -> {"none", "select", "journal", "file", "ended"}]
        /\ event' \in [CdpSession -> 0 .. Changes]
    BY <1>5, <2>1, CdpSet DEF WriteLine, CdpShape
  <2>5. QED
    BY <1>5, <2>3, <2>4 DEF WriteLine, CdpShape
<1>6. ASSUME Checkpoint(s)
      PROVE  CdpShape'
  <2>1. changes[s] \in 0 .. Changes
    BY DEF CdpShape
  <2>2. checkpoint' \in [CdpSession -> 0 .. Changes]
    BY <1>6, <2>1, CdpSet DEF Checkpoint, CdpShape
  <2>3. QED
    BY <1>6, <2>2 DEF Checkpoint, CdpShape
<1>7. ASSUME EndLoop(s)
      PROVE  CdpShape'
  <2>1. late[s] \cup ToSet(channel[s]) \in SUBSET Events /\ <<>> \in Seq(Events)
    BY DEF CdpShape, ToSet
  <2>2. late' \in [CdpSession -> SUBSET Events] /\ channel' \in [CdpSession -> Seq(Events)]
    BY <1>7, <2>1, CdpSet DEF EndLoop, CdpShape
  <2>3. loop' \in [CdpSession -> {"none", "select", "journal", "file", "ended"}]
    BY <1>7, CdpSet DEF EndLoop, CdpShape
  <2>4. QED
    BY <1>7, <2>2, <2>3 DEF EndLoop, CdpShape
<1>8. ASSUME NEW ok \in BOOLEAN, StartProtection(s, ok)
      PROVE  CdpShape'
  <2>1. status' \in [CdpSession -> {"none", "Active", "Stopped", "gone"}]
    BY <1>8, CdpSet DEF StartProtection, CdpShape
  <2>2. watcher' \in [CdpSession -> {"none", "starting", "watching", "failed"}]
    BY <1>8, CdpSet DEF StartProtection, CdpShape
  <2>3. loop' \in [CdpSession -> {"none", "select", "journal", "file", "ended"}]
    BY <1>8, CdpSet DEF StartProtection, CdpShape
  <2>4. QED
    BY <1>8, <2>1, <2>2, <2>3 DEF StartProtection, CdpShape
<1>9. ASSUME NEW ok \in BOOLEAN, WatcherStarts(s, ok)
      PROVE  CdpShape'
  <2>1. watcher' \in [CdpSession -> {"none", "starting", "watching", "failed"}]
    BY <1>9, CdpSet DEF WatcherStarts, CdpShape
  <2>2. QED
    BY <1>9, <2>1 DEF WatcherStarts, CdpShape
<1>10. QED
  BY <1>1, <1>2, <1>3, <1>4, <1>5, <1>6, <1>7, <1>8, <1>9 DEF CdpStep, LoopStep

LEMMA CdpStartedStep ==
    ASSUME CdpShape, CdpStarted, NEW s \in CdpSession, CdpStep(s)
    PROVE  CdpStarted'
<1>1. ASSUME NEW t \in CdpSession
      PROVE  status'[t] = "none" => status[t] = "none" /\ loop'[t] \in {"none", loop[t]}
  <2>1. CASE \/ Checkpoint(s) \/ StopProtection(s)
             \/ \E ok \in BOOLEAN : Change(s, ok) \/ WatcherStarts(s, ok)
    BY <2>1 DEF Change, Checkpoint, StopProtection, WatcherStarts, CdpShape, Set
  <2>2. CASE Receive(s) \/ EndLoop(s)
    BY <2>2 DEF Receive, EndLoop, CdpShape, CdpStarted, Set
  <2>3. ASSUME NEW ok \in BOOLEAN, Record(s, ok) \/ WriteLine(s, ok)
        PROVE  status'[t] = "none" => status[t] = "none" /\ loop'[t] \in {"none", loop[t]}
    BY <2>3 DEF Record, WriteLine, CdpShape, CdpStarted, Set
  <2>4. ASSUME NEW ok \in BOOLEAN, StartProtection(s, ok)
        PROVE  status'[t] = "none" => status[t] = "none" /\ loop'[t] \in {"none", loop[t]}
    BY <2>4 DEF StartProtection, CdpShape, Set
  <2>5. QED
    BY <2>1, <2>2, <2>3, <2>4 DEF CdpStep, LoopStep
<1>2. QED
  BY <1>1 DEF CdpStarted

\* The next change is a new one; it is on its way, or one of the reasons has it.
LEMMA CdpChange ==
    ASSUME CdpShape, NEW s \in CdpSession, CdpAt(s), NEW ok \in BOOLEAN, Change(s, ok)
    PROVE  CdpAt(s)'
<1> DEFINE e == changes[s] + 1
<1>0. Changes \in Nat /\ changes[s] \in Nat /\ e \in Events
  BY CdpAssumption DEF Change, CdpShape, Events
<1>1. /\ changes'[s] = e /\ loop' = loop /\ event' = event /\ tracked' = tracked /\ table' = table
      /\ status' = status /\ refused' = refused /\ stranded' = stranded
  BY DEF Change, CdpShape, Set
<1>2. \/ /\ channel' = channel
         /\ unwatched'[s] \cup unreported'[s] \cup overrun'[s] \cup late'[s]
                = unwatched[s] \cup unreported[s] \cup overrun[s] \cup late[s] \cup {e}
      \/ /\ channel'[s] = Append(channel[s], e) /\ UNCHANGED <<unwatched, unreported, overrun, late>>
         /\ Len(channel[s]) # ChannelSize
  BY DEF Change, CdpShape, Set
<1> HIDE DEF e
<1>3. 1 .. changes'[s] = (1 .. changes[s]) \cup {e} /\ e > changes[s] /\ e = changes[s] + 1
  BY <1>0, <1>1 DEF e
<1>4. channel[s] \in Seq(Events)
  BY DEF CdpShape
<1>5. \A a \in SettledIn(s) : a \in Nat
  BY <1>0 DEF SettledIn, CdpShape, ToSet, Events
<1>6. \A i \in DOMAIN channel[s] : channel[s][i] \in Nat /\ i \in Nat
  <2>1. \A i \in DOMAIN channel[s] : channel[s][i] \in Events /\ i \in Nat
    BY <1>4
  <2>2. QED
    BY <1>0, <2>1 DEF Events
<1>7. SettledIn(s)' = SettledIn(s) /\ event[s] \in Nat
  BY <1>1 DEF SettledIn, CdpShape
<1>8. AccountedAt(s)'
  <2>1. TrackedExplained(s)'
    BY <1>1 DEF CdpAt, AccountedAt, TrackedExplained
  <2>2. ToSet(channel'[s]) \cup unwatched'[s] \cup unreported'[s] \cup overrun'[s] \cup late'[s]
            = ToSet(channel[s]) \cup unwatched[s] \cup unreported[s] \cup overrun[s] \cup late[s] \cup {e}
    <3>1. ToSet(Append(channel[s], e)) = ToSet(channel[s]) \cup {e}
      BY <1>0, <1>4, SetOfAppended
    <3>2. QED
      BY <1>2, <3>1
  <2>3. QED
    BY <1>1, <1>3, <2>1, <2>2 DEF CdpAt, AccountedAt, InHands
<1>9. CASE channel' = channel
  <2>1. CdpOrder(s)'
    BY <1>0, <1>1, <1>3, <1>5, <1>6, <1>7, <1>9 DEF CdpAt, CdpOrder
  <2>2. CdpBound(s)'
    BY <1>0, <1>1, <1>3, <1>9 DEF CdpAt, CdpBound, CdpShape
  <2>3. QED
    BY <1>8, <2>1, <2>2 DEF CdpAt
<1>10. CASE channel'[s] = Append(channel[s], e) /\ Len(channel[s]) # ChannelSize
  <2>1. /\ Len(channel'[s]) = Len(channel[s]) + 1 /\ DOMAIN channel'[s] = DOMAIN channel[s] \cup {Len(channel[s]) + 1}
        /\ \A i \in DOMAIN channel[s] : channel'[s][i] = channel[s][i] /\ i <= Len(channel[s])
        /\ channel'[s][Len(channel[s]) + 1] = e /\ Len(channel[s]) \in Nat
    BY <1>0, <1>4, <1>10, SetOfAppended
  <2>2. CdpOrder(s)'
    <3>1. \A a \in SettledIn(s)' : a <= changes'[s]
      BY <1>0, <1>1, <1>3, <1>5, <1>7 DEF CdpAt, CdpOrder
    <3>2. ASSUME NEW i \in DOMAIN channel'[s]
          PROVE  /\ channel'[s][i] <= changes'[s]
                 /\ \A a \in SettledIn(s)' : a < channel'[s][i]
                 /\ \A j \in DOMAIN channel'[s] : i < j => channel'[s][i] < channel'[s][j]
                 /\ loop'[s] = "journal" => event'[s] < channel'[s][i]
      <4>1. CASE i = Len(channel[s]) + 1
        BY <1>0, <1>1, <1>3, <1>5, <1>6, <1>7, <2>1, <4>1 DEF CdpAt, CdpOrder
      <4>2. CASE i \in DOMAIN channel[s]
        BY <1>0, <1>1, <1>3, <1>5, <1>6, <1>7, <2>1, <4>2, SMTT(20) DEF CdpAt, CdpOrder
      <4>3. QED
        BY <2>1, <4>1, <4>2
    <3>3. /\ loop'[s] \in {"journal", "file"} => event'[s] \in 1 .. changes'[s]
          /\ loop'[s] = "journal" => \A a \in SettledIn(s)' : a < event'[s]
      BY <1>0, <1>1, <1>3, <1>7 DEF CdpAt, CdpOrder
    <3>4. QED
      BY <3>1, <3>2, <3>3 DEF CdpOrder
  <2>3. CdpBound(s)'
    <3>1. Len(channel[s]) + 1 <= ChannelSize
      BY <1>10, <2>1, CdpAssumption DEF CdpAt, CdpBound
    <3>2. tracked[s] \in Nat
      BY DEF CdpShape
    <3>3. QED
      BY <1>0, <1>1, <1>3, <2>1, <3>1, <3>2 DEF CdpAt, CdpBound
  <2>4. QED
    BY <1>8, <2>2, <2>3 DEF CdpAt
<1>11. QED
  BY <1>2, <1>9, <1>10

\* Sets of changes are finite.
LEMMA CdpFinite ==
    ASSUME NEW A \in SUBSET Events
    PROVE  IsFiniteSet(A) /\ Cardinality(A) \in Nat
<1>1. Changes \in Nat /\ 1 \in Int /\ Changes \in Int
  BY CdpAssumption
<1>2. IsFiniteSet(1 .. Changes)
  BY <1>1, FS_Interval
<1>3. IsFiniteSet(A)
  BY <1>2, FS_Subset DEF Events
<1>4. QED
  BY <1>3, FS_CardinalityType

\* The loop takes the oldest event that is on its way.
LEMMA CdpReceive ==
    ASSUME CdpShape, NEW s \in CdpSession, CdpAt(s), Receive(s)
    PROVE  CdpAt(s)'
<1>1. channel[s] \in Seq(Events) /\ channel[s] # <<>> /\ loop[s] = "select"
  BY DEF CdpShape, Receive
<1>2. /\ event'[s] = Head(channel[s]) /\ channel'[s] = Tail(channel[s])
      /\ tracked'[s] = tracked[s] + 1 /\ loop'[s] = "journal"
      /\ UNCHANGED <<status, changes, table, unwatched, unreported, overrun, refused, late, stranded>>
  BY DEF Receive, CdpShape, Set
<1>3. /\ ToSet(channel[s]) = {Head(channel[s])} \cup ToSet(Tail(channel[s]))
      /\ Head(channel[s]) \in Events /\ Head(channel[s]) = channel[s][1] /\ 1 \in DOMAIN channel[s]
      /\ Len(Tail(channel[s])) + 1 = Len(channel[s])
      /\ \A i \in DOMAIN Tail(channel[s]) :
            i + 1 \in DOMAIN channel[s] /\ Tail(channel[s])[i] = channel[s][i + 1] /\ i \in Nat \ {0}
  BY <1>1, SetOfTail
<1>4. Changes \in Nat /\ changes[s] \in Nat /\ tracked[s] \in Nat /\ Len(channel[s]) \in Nat
      /\ Len(Tail(channel[s])) \in Nat /\ event'[s] \in Events
  <2>1. Tail(channel[s]) \in Seq(Events)
    BY <1>1, SetOfTail
  <2>2. QED
    BY <1>1, <1>2, <1>3, <2>1, CdpAssumption DEF CdpShape
<1>5. SettledIn(s)' = SettledIn(s)
  BY <1>2 DEF SettledIn
<1>6. CdpOrder(s)'
  <2>1. \A a \in SettledIn(s)' : a <= changes'[s] /\ a < event'[s]
    BY <1>2, <1>3, <1>5 DEF CdpAt, CdpOrder
  <2>2. ASSUME NEW i \in DOMAIN channel'[s]
        PROVE  /\ channel'[s][i] <= changes'[s] /\ event'[s] < channel'[s][i]
               /\ \A a \in SettledIn(s)' : a < channel'[s][i]
               /\ \A j \in DOMAIN channel'[s] : i < j => channel'[s][i] < channel'[s][j]
    <3>1. /\ i + 1 \in DOMAIN channel[s] /\ channel'[s][i] = channel[s][i + 1] /\ i \in Nat \ {0} /\ 1 < i + 1
      BY <1>2, <1>3
    <3>2. ASSUME NEW j \in DOMAIN channel'[s], i < j
          PROVE  channel'[s][i] < channel'[s][j]
      <4>1. j + 1 \in DOMAIN channel[s] /\ channel'[s][j] = channel[s][j + 1] /\ i + 1 < j + 1
        BY <1>2, <1>3, <3>1, <3>2
      <4>2. QED
        BY <3>1, <4>1 DEF CdpAt, CdpOrder
    <3>3. /\ channel[s][i + 1] <= changes[s] /\ channel[s][1] < channel[s][i + 1]
          /\ \A a \in SettledIn(s) : a < channel[s][i + 1]
      BY <1>3, <3>1 DEF CdpAt, CdpOrder
    <3>4. QED
      BY <1>2, <1>3, <1>5, <3>1, <3>2, <3>3
  <2>3. event'[s] \in 1 .. changes'[s]
    <3>1. channel[s][1] <= changes[s]
      BY <1>3 DEF CdpAt, CdpOrder
    <3>2. QED
      BY <1>2, <1>3, <1>4, <3>1 DEF Events
  <2>4. QED
    BY <1>2, <2>1, <2>2, <2>3 DEF CdpOrder
<1>7. CdpBound(s)'
  BY <1>2, <1>3, <1>4, CdpAssumption, SMTT(20) DEF CdpAt, CdpBound
<1>8. AccountedAt(s)'
  <2>1. TrackedExplained(s)'
    <3>1. status[s] # "gone" => tracked[s] = Len(table[s]) + Cardinality(refused[s]) + 0
      BY <1>1 DEF CdpAt, AccountedAt, TrackedExplained
    <3>2. Len(table[s]) \in Nat /\ Cardinality(refused[s]) \in Nat
      <4>1. table[s] \in Seq(Events) /\ refused[s] \in SUBSET Events
        BY DEF CdpShape
      <4>2. QED
        BY <4>1, CdpFinite
    <3>3. QED
      BY <1>2, <3>1, <3>2 DEF TrackedExplained
  <2>2. ToSet(channel[s]) = ToSet(channel'[s]) \cup {event'[s]}
    BY <1>2, <1>3
  <2>3. QED
    BY <1>1, <1>2, <2>1, <2>2 DEF CdpAt, AccountedAt, InHands
<1>9. QED
  BY <1>6, <1>7, <1>8 DEF CdpAt

\* The event in the loop's hands becomes a row, or is refused.
LEMMA CdpRecord ==
    ASSUME CdpShape, NEW s \in CdpSession, CdpAt(s), NEW ok \in BOOLEAN, Record(s, ok)
    PROVE  CdpAt(s)'
<1> DEFINE e == event[s]
<1>1. loop[s] = "journal" /\ loop'[s] = "file"
      /\ UNCHANGED <<status, changes, channel, event, tracked, unwatched, unreported, overrun, late, stranded>>
  BY DEF Record, CdpShape, Set
<1>2. \/ table'[s] = Append(table[s], e) /\ refused'[s] = refused[s]
      \/ table'[s] = table[s] /\ refused'[s] = refused[s] \cup {e}
  BY DEF Record, CdpShape, Set
<1>3. /\ e \in 1 .. changes[s] /\ Changes \in Nat /\ changes[s] \in Nat /\ e \in Events
      /\ \A a \in SettledIn(s) : a < e /\ a \in Nat
      /\ \A i \in DOMAIN channel[s] : e < channel[s][i]
  <2>1. Changes \in Nat /\ changes[s] \in 0 .. Changes
    BY CdpAssumption DEF CdpShape
  <2>2. \A a \in SettledIn(s) : a \in Nat
    BY <2>1 DEF SettledIn, CdpShape, ToSet, Events
  <2>3. QED
    BY <1>1, <2>1, <2>2 DEF CdpAt, CdpOrder, Events
<1>4. table[s] \in Seq(Events) /\ refused[s] \subseteq Events
  BY DEF CdpShape
<1> HIDE DEF e
<1>5. /\ ToSet(Append(table[s], e)) = ToSet(table[s]) \cup {e}
      /\ Len(Append(table[s], e)) = Len(table[s]) + 1
      /\ DOMAIN Append(table[s], e) = DOMAIN table[s] \cup {Len(table[s]) + 1}
      /\ \A i \in DOMAIN table[s] : Append(table[s], e)[i] = table[s][i] /\ i <= Len(table[s])
      /\ Append(table[s], e)[Len(table[s]) + 1] = e
  BY <1>3, <1>4, SetOfAppended
<1>6. SettledIn(s)' = SettledIn(s) \cup {e}
  BY <1>2, <1>5 DEF SettledIn
<1>7. CdpOrder(s)'
  <2>1. \A a \in SettledIn(s)' : a <= changes'[s]
    BY <1>1, <1>3, <1>6 DEF CdpAt, CdpOrder
  <2>2. \A i \in DOMAIN channel'[s] :
           /\ channel'[s][i] <= changes'[s]
           /\ \A a \in SettledIn(s)' : a < channel'[s][i]
           /\ \A j \in DOMAIN channel'[s] : i < j => channel'[s][i] < channel'[s][j]
    BY <1>1, <1>3, <1>6 DEF CdpAt, CdpOrder
  <2>3. event'[s] \in 1 .. changes'[s]
    BY <1>1, <1>3 DEF e
  <2>4. QED
    BY <1>1, <2>1, <2>2, <2>3 DEF CdpOrder
<1>8. CdpBound(s)'
  BY <1>1 DEF CdpAt, CdpBound
<1>9. AccountedAt(s)'
  <2>1. ToSet(table'[s]) \cup refused'[s] = ToSet(table[s]) \cup {e} \cup refused[s]
    BY <1>2, <1>5
  <2>2. 1 .. changes'[s] = ToSet(table'[s]) \cup ToSet(channel'[s]) \cup InHands(s)' \cup unwatched'[s]
                              \cup unreported'[s] \cup overrun'[s] \cup refused'[s] \cup late'[s] \cup stranded'[s]
    BY <1>1, <2>1 DEF CdpAt, AccountedAt, InHands, e
  <2>3. \A i, j \in DOMAIN table'[s] : i < j => table'[s][i] < table'[s][j]
    <3>1. CASE table'[s] = table[s]
      BY <3>1 DEF CdpAt, AccountedAt
    <3>2. CASE table'[s] = Append(table[s], e)
      <4>1. \A i \in DOMAIN table[s] : table[s][i] < e /\ i \in Nat
        BY <1>3, <1>4 DEF SettledIn, ToSet
      <4>2. \A i, j \in DOMAIN table[s] : i < j => table[s][i] < table[s][j]
        BY DEF CdpAt, AccountedAt
      <4>3. Len(table[s]) \in Nat
        BY <1>4
      <4>4. QED
        BY <1>5, <3>2, <4>1, <4>2, <4>3
    <3>3. QED
      BY <1>2, <3>1, <3>2
  <2>4. TrackedExplained(s)'
    <3>1. status[s] # "gone" => tracked[s] = Len(table[s]) + Cardinality(refused[s]) + 1
      BY <1>1 DEF CdpAt, AccountedAt, TrackedExplained
    <3>2. IsFiniteSet(refused[s]) /\ Cardinality(refused[s]) \in Nat
      BY <1>4, CdpFinite
    <3>3. e \notin refused[s]
      BY <1>3 DEF SettledIn
    <3>4. Cardinality(refused[s] \cup {e}) = Cardinality(refused[s]) + 1
      BY <3>2, <3>3, FS_AddElement
    <3>5. Len(table[s]) \in Nat
      BY <1>4
    <3>6. CASE table'[s] = Append(table[s], e) /\ refused'[s] = refused[s]
      BY <1>1, <1>5, <3>1, <3>2, <3>5, <3>6 DEF TrackedExplained
    <3>7. CASE table'[s] = table[s] /\ refused'[s] = refused[s] \cup {e}
      BY <1>1, <3>1, <3>2, <3>4, <3>5, <3>7 DEF TrackedExplained
    <3>8. QED
      BY <1>2, <3>6, <3>7
  <2>5. QED
    BY <1>1, <2>2, <2>3, <2>4 DEF AccountedAt
<1>10. QED
  BY <1>7, <1>8, <1>9 DEF CdpAt

\* The end of the loop turns what is in the channel into late events.
LEMMA CdpEnd ==
    ASSUME CdpShape, NEW s \in CdpSession, CdpAt(s), EndLoop(s)
    PROVE  CdpAt(s)'
<1>1. /\ loop[s] = "select" /\ loop'[s] = "ended" /\ channel'[s] = <<>>
      /\ late'[s] = late[s] \cup ToSet(channel[s])
      /\ UNCHANGED <<status, changes, event, tracked, table, unwatched, unreported, overrun, refused, stranded>>
  BY DEF EndLoop, CdpShape, Set
<1>2. changes[s] \in Nat /\ tracked[s] \in Nat /\ Len(channel[s]) \in Nat
  <2>1. channel[s] \in Seq(Events) /\ changes[s] \in 0 .. Changes
    BY DEF CdpShape
  <2>2. QED
    BY <2>1, CdpAssumption DEF CdpShape
<1>3. ToSet(channel'[s]) = {} /\ Len(channel'[s]) = 0 /\ DOMAIN channel'[s] = {}
  BY <1>1 DEF ToSet
<1>4. CdpOrder(s)'
  BY <1>1, <1>3 DEF CdpAt, CdpOrder, SettledIn
<1>5. CdpBound(s)'
  BY <1>1, <1>2, <1>3, CdpAssumption DEF CdpAt, CdpBound
<1>6. AccountedAt(s)'
  BY <1>1, <1>3 DEF CdpAt, AccountedAt, TrackedExplained, InHands
<1>7. QED
  BY <1>4, <1>5, <1>6 DEF CdpAt

\* The other steps of a session: a line of the file, a checkpoint, the start and the stop.
LEMMA CdpRest ==
    ASSUME CdpShape, CdpStarted, NEW s \in CdpSession, CdpAt(s), NEW ok \in BOOLEAN,
           \/ WriteLine(s, ok) \/ Checkpoint(s) \/ StopProtection(s)
           \/ StartProtection(s, ok) \/ WatcherStarts(s, ok)
    PROVE  CdpAt(s)'
<1>1. UNCHANGED <<changes, channel, tracked, table, unwatched, unreported, overrun, refused, late, stranded>>
  BY DEF WriteLine, Checkpoint, StopProtection, StartProtection, WatcherStarts
<1>2. status'[s] = "gone" => status[s] = "gone"
  BY DEF WriteLine, Checkpoint, StopProtection, StartProtection, WatcherStarts, CdpShape, Set
<1>3. CdpOrder(s)' /\ AccountedAt(s)'
  <2>1. CASE WriteLine(s, ok)
    <3>1. loop[s] = "file" /\ loop'[s] = "select" /\ status' = status
      BY <2>1 DEF WriteLine, CdpShape, Set
    <3>2. QED
      BY <1>1, <3>1 DEF CdpAt, CdpOrder, AccountedAt, TrackedExplained, SettledIn, InHands
  <2>2. CASE StartProtection(s, ok)
    <3>1. loop'[s] \in {"select", "ended"}
      BY <2>2 DEF StartProtection, CdpShape, Set
    <3>2. loop[s] = "none" /\ status[s] = "none"
      BY <2>2 DEF StartProtection, CdpStarted
    <3>3. QED
      BY <1>1, <3>1, <3>2 DEF CdpAt, CdpOrder, AccountedAt, TrackedExplained, SettledIn, InHands
  <2>3. CASE status[s] # "gone" /\ loop' = loop /\ event' = event
    BY <1>1, <1>2, <2>3 DEF CdpAt, CdpOrder, AccountedAt, TrackedExplained, SettledIn, InHands
  <2>4. CASE status' = status /\ loop' = loop /\ event' = event
    BY <1>1, <2>4 DEF CdpAt, CdpOrder, AccountedAt, TrackedExplained, SettledIn, InHands
  <2>5. QED
    BY <2>1, <2>2, <2>3, <2>4 DEF Checkpoint, StopProtection, WatcherStarts
<1>4. CdpBound(s)'
  BY <1>1 DEF CdpAt, CdpBound
<1>5. QED
  BY <1>3, <1>4 DEF CdpAt

\* A restart cuts what is on its way; no session is left with a loop.
LEMMA CdpRestartStep ==
    ASSUME CdpInv, DaemonRestart
    PROVE  CdpInv'
<1>1. ASSUME NEW s \in CdpSession
      PROVE  /\ loop'[s] \in {"none", "ended"} /\ (status'[s] = "none" => loop'[s] = "none")
             /\ \/ status'[s] = "gone" /\ channel'[s] = <<>> /\ tracked'[s] = 0
                \/ /\ status'[s] = status[s] /\ loop'[s] = loop[s] /\ channel'[s] = channel[s]
                   /\ tracked'[s] = tracked[s] /\ loop[s] = "none"
             /\ event'[s] \in {0, event[s]} /\ stranded'[s] = stranded[s] \cup ToSet(channel[s]) \cup InHands(s)
  BY DEF DaemonRestart, AtStarted, Started, CdpInv, CdpShape, CdpStarted
<1>2. UNCHANGED <<changes, table, file, checkpoint, unwatched, unreported, overrun, refused, late>>
  BY DEF DaemonRestart
<1>3. Changes \in Nat /\ 0 \in 0 .. Changes /\ <<>> \in Seq(Events) /\ ToSet(<<>>) = {} /\ Len(<<>>) = 0
      /\ DOMAIN <<>> = {}
  BY CdpAssumption DEF ToSet
<1>4. ASSUME NEW s \in CdpSession
      PROVE  /\ InHands(s) \subseteq Events /\ ToSet(channel[s]) \subseteq Events
             /\ changes[s] \in Nat /\ Len(channel[s]) \in Nat /\ tracked[s] \in Nat
  <2>1. channel[s] \in Seq(Events) /\ event[s] \in 0 .. Changes /\ changes[s] \in 0 .. Changes
        /\ tracked[s] \in Nat
    BY DEF CdpInv, CdpShape
  <2>2. ToSet(channel[s]) \subseteq Events /\ Len(channel[s]) \in Nat
    BY <2>1 DEF ToSet
  <2>3. loop[s] = "journal" => event[s] \in 1 .. changes[s]
    BY DEF CdpInv, CdpAt, CdpOrder
  <2>4. QED
    BY <1>3, <2>1, <2>2, <2>3 DEF InHands, Events
<1>5. CdpShape'
  <2>1. \A s \in CdpSession : stranded'[s] \in SUBSET Events
    BY <1>1, <1>4 DEF CdpInv, CdpShape
  <2>2. stranded' \in [CdpSession -> SUBSET Events]
    BY <2>1 DEF DaemonRestart
  <2>3. /\ status' \in [CdpSession -> {"none", "Active", "Stopped", "gone"}]
        /\ watcher' \in [CdpSession -> {"none", "starting", "watching", "failed"}]
        /\ loop' \in [CdpSession -> {"none", "select", "journal", "file", "ended"}]
    BY DEF DaemonRestart, AtStarted, CdpInv, CdpShape
  <2>4. /\ channel' \in [CdpSession -> Seq(Events)] /\ event' \in [CdpSession -> 0 .. Changes]
        /\ tracked' \in [CdpSession -> Nat]
    BY <1>3 DEF DaemonRestart, AtStarted, CdpInv, CdpShape
  <2>5. QED
    BY <1>2, <2>2, <2>3, <2>4 DEF CdpInv, CdpShape
<1>6. ASSUME NEW s \in CdpSession
      PROVE  CdpAt(s)'
  <2>1. CdpOrder(s) /\ CdpBound(s) /\ AccountedAt(s)
    BY DEF CdpInv, CdpAt
  <2>2. SettledIn(s)' = SettledIn(s)
    BY <1>2 DEF SettledIn
  <2>3. InHands(s)' = {}
    BY <1>1 DEF InHands
  <2>4. CdpOrder(s)'
    BY <1>1, <1>2, <1>3, <2>1, <2>2 DEF CdpOrder
  <2>5. CdpBound(s)'
    BY <1>1, <1>2, <1>3, <1>4, <2>1, CdpAssumption DEF CdpBound
  <2>6. AccountedAt(s)'
    <3>1. TrackedExplained(s)'
      BY <1>1, <1>2, <2>1 DEF AccountedAt, TrackedExplained
    <3>2. ToSet(channel'[s]) \cup InHands(s)' \cup stranded'[s]
              = ToSet(channel[s]) \cup InHands(s) \cup stranded[s]
      BY <1>1, <1>3, <2>3
    <3>3. QED
      BY <1>2, <2>1, <3>1, <3>2 DEF AccountedAt
  <2>7. QED
    BY <2>4, <2>5, <2>6 DEF CdpAt
<1>7. CdpStarted'
  BY <1>1 DEF CdpStarted
<1>8. QED
  BY <1>5, <1>6, <1>7 DEF CdpInv

LEMMA CdpTyped ==
    ASSUME CdpInv
    PROVE  CdpTypeOK
<1>1. Changes \in Nat
  BY CdpAssumption
<1>2. ASSUME NEW s \in CdpSession
      PROVE  /\ tracked[s] \in 0 .. Changes /\ Len(channel[s]) <= ChannelSize
             /\ ToSet(channel[s]) \cup ToSet(table[s]) \cup ToSet(file[s]) \subseteq Events
             /\ unwatched[s] \cup unreported[s] \cup overrun[s] \cup refused[s] \cup late[s]
                    \cup stranded[s] \subseteq Events
  <2>1. /\ channel[s] \in Seq(Events) /\ table[s] \in Seq(Events) /\ file[s] \in Seq(Events)
        /\ tracked[s] \in Nat /\ changes[s] \in 0 .. Changes
        /\ unwatched[s] \cup unreported[s] \cup overrun[s] \cup refused[s] \cup late[s]
               \cup stranded[s] \subseteq Events
    BY DEF CdpInv, CdpShape
  <2>2. \A q \in Seq(Events) : ToSet(q) \subseteq Events /\ Len(q) \in Nat
    BY DEF ToSet
  <2>3. CdpBound(s)
    BY DEF CdpInv, CdpAt
  <2>4. tracked[s] + Len(channel[s]) <= changes[s] /\ Len(channel[s]) \in Nat
    BY <2>1, <2>2, <2>3 DEF CdpBound
  <2>5. QED
    BY <1>1, <2>1, <2>2, <2>3, <2>4 DEF CdpBound
<1>3. tracked \in [CdpSession -> 0 .. Changes]
  BY <1>2 DEF CdpInv, CdpShape
<1>4. QED
  BY <1>2, <1>3 DEF CdpInv, CdpShape, CdpTypeOK

(***************************************************************************)
(* Every session keeps its order: what is on its way is newer than what    *)
(* the loop is done with, so no change is written or counted twice.        *)
(***************************************************************************)
THEOREM CdpInvariant == CdpSpec => [](CdpInv /\ CdpTypeOK)
<1>1. CdpInit => CdpInv
  <2> SUFFICES ASSUME CdpInit PROVE CdpInv
    OBVIOUS
  <2>1. Changes \in Nat /\ ChannelSize \in Nat /\ <<>> \in Seq(Events) /\ 0 \in 0 .. Changes
    BY CdpAssumption
  <2>2. CdpShape
    BY <2>1 DEF CdpInit, CdpShape
  <2>3. ASSUME NEW s \in CdpSession
        PROVE  CdpAt(s)
    <3>1. /\ channel[s] = <<>> /\ table[s] = <<>> /\ unreported[s] = {} /\ stranded[s] = {}
          /\ changes[s] = 0 /\ tracked[s] = 0 /\ loop[s] = "none" /\ unwatched[s] = {}
          /\ overrun[s] = {} /\ refused[s] = {} /\ late[s] = {}
      BY DEF CdpInit
    <3>2. ToSet(<<>>) = {} /\ Cardinality({}) = 0 /\ 1 .. 0 = {}
      BY FS_EmptySet DEF ToSet
    <3>3. CdpOrder(s)
      BY <3>1, <3>2 DEF CdpOrder, SettledIn
    <3>4. CdpBound(s)
      BY <2>1, <3>1 DEF CdpBound
    <3>5. AccountedAt(s)
      BY <3>1, <3>2 DEF AccountedAt, TrackedExplained, InHands
    <3>6. QED
      BY <3>3, <3>4, <3>5 DEF CdpAt
  <2>4. CdpStarted
    BY DEF CdpInit, CdpStarted
  <2>5. QED
    BY <2>2, <2>3, <2>4 DEF CdpInv
<1>2. CdpInv /\ [CdpNext]_cdpVars => CdpInv'
  <2> SUFFICES ASSUME CdpInv, [CdpNext]_cdpVars PROVE CdpInv'
    OBVIOUS
  <2>1. ASSUME NEW s \in CdpSession, CdpStep(s)
        PROVE  CdpInv'
    <3>1. CdpShape'
      BY <2>1, CdpShapeStep DEF CdpInv
    <3>2. CdpStarted'
      BY <2>1, CdpStartedStep DEF CdpInv
    <3>3. ASSUME NEW t \in CdpSession \ {s}
          PROVE  CdpAt(t)'
      BY <2>1, <3>3, CdpOthers, CdpSameKept DEF CdpInv
    <3>4. CdpAt(s)'
      <4>1. CdpShape /\ CdpStarted /\ CdpAt(s)
        BY DEF CdpInv
      <4>2. CASE Receive(s) \/ EndLoop(s)
        BY <4>1, <4>2, CdpReceive, CdpEnd
      <4>3. ASSUME NEW ok \in BOOLEAN, Change(s, ok) \/ Record(s, ok)
            PROVE  CdpAt(s)'
        BY <4>1, <4>3, CdpChange, CdpRecord
      <4>4. ASSUME NEW ok \in BOOLEAN,
                   \/ WriteLine(s, ok) \/ Checkpoint(s) \/ StopProtection(s)
                   \/ StartProtection(s, ok) \/ WatcherStarts(s, ok)
            PROVE  CdpAt(s)'
        BY <4>1, <4>4, CdpRest
      <4>5. QED
        BY <2>1, <4>2, <4>3, <4>4 DEF CdpStep, LoopStep
    <3>5. QED
      BY <3>1, <3>2, <3>3, <3>4 DEF CdpInv
  <2>2. CASE UNCHANGED cdpVars
    <3>1. CdpShape' /\ CdpStarted'
      BY <2>2 DEF cdpVars, CdpInv, CdpShape, CdpStarted
    <3>2. \A t \in CdpSession : CdpSame(t)
      BY <2>2 DEF cdpVars, CdpSame
    <3>3. QED
      BY <3>1, <3>2, CdpSameKept DEF CdpInv
  <2>3. CASE CdpNext
    BY <2>1, <2>3, CdpRestartStep DEF CdpNext, CdpStep
  <2>4. QED
    BY <2>2, <2>3
<1>3. CdpInv => CdpTypeOK
  BY CdpTyped
<1>4. QED
  BY <1>1, <1>2, <1>3, PTL DEF CdpSpec

\* Every change of a protected path is in the table once and in order, or on
\* its way, or lost for one of the six reasons; the counter is explained.
THEOREM ChangesStayAccounted == CdpSpec => []ChangesAccounted
<1>1. CdpInv => ChangesAccounted
  BY DEF CdpInv, CdpAt, ChangesAccounted
<1>2. QED
  BY <1>1, CdpInvariant, PTL

-----------------------------------------------------------------------------
(***************************************************************************)
(* Microsoft 365 backups.                                                  *)
(***************************************************************************)
JobFields == {"at", "by", "of", "todo", "type", "users", "stack", "rest", "bad", "status"}
Busy == {"users", "user", "walk", "items"}
Walks == {"user", "walk", "items"}

\* The parts of All are taken in their order.
JobShape(j) ==
    /\ DOMAIN mjob[j] = JobFields /\ mjob[j].at \in Busy \cup {"new", "end", "over"}
    /\ mjob[j].users \subseteq User /\ mjob[j].stack \subseteq User \cup Folder
    /\ mjob[j].rest \subseteq Folder \cup File
    /\ mjob[j].at \in Busy \cup {"end"} => mjob[j].type \in Types
    /\ mjob[j].at \in Busy =>
           \/ mjob[j].todo = mjob[j].type
           \/ mjob[j].type = <<"mail", "drive">> /\ mjob[j].todo = <<"drive">>
    /\ mjob[j].at # "items" => mjob[j].rest = {}
    /\ mjob[j].at \in {"users", "user"} => mjob[j].stack = {}
    /\ mjob[j].at \in Busy \cup {"end"} => mjob[j].status = "running"

\* What has not been moved lies where it lay at first.
PlaceShape ==
    /\ place \in [Folder \cup File -> User \cup Folder] /\ moved \subseteq File
    /\ copied \subseteq M365Job \X Workload \X File
    /\ \A i \in (Folder \cup File) \ moved : place[i] = Placed[i]

TenantShape == tenants \in Seq([owner : BckTenant \cup {"azure"}, secret : {"none", "encrypted"}])

M365Shape == PlaceShape /\ TenantShape /\ DOMAIN mjob = M365Job

\* Mail is what lies in a folder of the mailbox itself.
Message(i) == Placed[i] \in Folder /\ Placed[Placed[i]] \in User

\* Folders that lead from a file to its user.
Line(S, i) == Placed[i] \in S /\ \A f \in S \cap Folder : Placed[f] \in S

\* Of a drive's files, those that are not copied lie under something that is still to be listed.
DriveAt(j) ==
    mjob[j].at \in Walks /\ Head(mjob[j].todo) = "drive" =>
        \A i \in File \ moved :
            \/ <<j, "drive", i>> \in copied \/ i \in mjob[j].rest
            \/ \A S \in SUBSET (User \cup Folder) :
                   Line(S, i) => S \cap (mjob[j].users \cup mjob[j].stack \cup mjob[j].rest) # {}

MailAt(j) ==
    mjob[j].at \in Walks /\ Head(mjob[j].todo) = "mail" =>
        \A i \in File \ moved :
            Message(i) => \/ <<j, "mail", i>> \in copied \/ i \in mjob[j].rest
                          \/ Placed[i] \in mjob[j].stack \/ Placed[Placed[i]] \in mjob[j].users

Whole(j, part) ==
    \A i \in File \ moved : <<j, part, i>> \in copied \/ (part = "mail" /\ ~Message(i))

\* The parts that are over, as long as none of them has failed.
PartsWhole(j) ==
    /\ mjob[j].at \in Busy /\ ~mjob[j].bad /\ mjob[j].todo # mjob[j].type => Whole(j, "mail")
    /\ (mjob[j].at = "end" /\ ~mjob[j].bad) \/ mjob[j].status = "completed" =>
           \A n \in DOMAIN mjob[j].type : Whole(j, mjob[j].type[n])

JobSound(j) == JobShape(j) /\ DriveAt(j) /\ MailAt(j) /\ PartsWhole(j)

M365Inv == M365Shape /\ \A j \in M365Job : JobSound(j) /\ JobOwned(j)

-----------------------------------------------------------------------------
\* A step of one job, its order left as it is.
JobStep(j, at, todo, users, stack, rest, bad, outcome) ==
    /\ DOMAIN mjob' = M365Job /\ \A k \in M365Job \ {j} : mjob'[k] = mjob[k]
    /\ DOMAIN mjob'[j] = JobFields
    /\ mjob'[j].at = at /\ mjob'[j].todo = todo /\ mjob'[j].users = users
    /\ mjob'[j].stack = stack /\ mjob'[j].rest = rest /\ mjob'[j].bad = bad
    /\ mjob'[j].status = outcome
    /\ mjob'[j].by = mjob[j].by /\ mjob'[j].of = mjob[j].of /\ mjob'[j].type = mjob[j].type

LEMMA JobListed ==
    ASSUME DOMAIN mjob = M365Job, NEW j \in M365Job, DOMAIN mjob[j] = JobFields, ListUsers(j)
    PROVE  JobStep(j, "user", mjob[j].todo, User, mjob[j].stack, mjob[j].rest, mjob[j].bad,
                   mjob[j].status)
    BY DEF ListUsers, JobStep, JobFields

LEMMA JobEntered ==
    ASSUME DOMAIN mjob = M365Job, NEW j \in M365Job, DOMAIN mjob[j] = JobFields, NextUser(j)
    PROVE  \E u \in mjob[j].users :
               JobStep(j, "walk", mjob[j].todo, mjob[j].users \ {u},
                       IF Head(mjob[j].todo) = "drive" THEN {u} ELSE Children(u) \cap Folder,
                       mjob[j].rest, mjob[j].bad, mjob[j].status)
<1>1. PICK u \in mjob[j].users :
          mjob' = [mjob EXCEPT ![j].at = "walk", ![j].users = @ \ {u},
                             ![j].stack = IF Head(mjob[j].todo) = "drive" THEN {u}
                                          ELSE Children(u) \cap Folder]
  BY DEF NextUser
<1> QED
  BY <1>1 DEF JobStep, JobFields

LEMMA JobFolder ==
    ASSUME DOMAIN mjob = M365Job, NEW j \in M365Job, DOMAIN mjob[j] = JobFields, ListFolder(j)
    PROVE  \E f \in mjob[j].stack :
               JobStep(j, "items", mjob[j].todo, mjob[j].users, mjob[j].stack \ {f},
                       IF Head(mjob[j].todo) = "drive" THEN Children(f)
                       ELSE Children(f) \cap File,
                       mjob[j].bad, mjob[j].status)
<1>1. PICK f \in mjob[j].stack :
          mjob' = [mjob EXCEPT ![j].at = "items", ![j].stack = @ \ {f},
                             ![j].rest = IF Head(mjob[j].todo) = "drive" THEN Children(f)
                                         ELSE Children(f) \cap File]
  BY DEF ListFolder
<1> QED
  BY <1>1 DEF JobStep, JobFields

LEMMA JobTakes ==
    ASSUME DOMAIN mjob = M365Job, NEW j \in M365Job, DOMAIN mjob[j] = JobFields, TakeItem(j)
    PROVE  \E i \in mjob[j].rest :
               /\ JobStep(j, mjob[j].at, mjob[j].todo, mjob[j].users,
                          mjob[j].stack \cup ({i} \cap Folder), mjob[j].rest \ {i}, mjob[j].bad,
                          mjob[j].status)
               /\ copied' = copied \cup {<<j, Head(mjob[j].todo), f>> : f \in {i} \cap File}
<1>1. PICK i \in mjob[j].rest :
          /\ mjob' = [mjob EXCEPT ![j].rest = @ \ {i},
                                ![j].stack = @ \cup ({i} \cap Folder)]
          /\ copied' = copied \cup {<<j, Head(mjob[j].todo), f>> : f \in {i} \cap File}
  BY DEF TakeItem
<1> QED
  BY <1>1 DEF JobStep, JobFields

LEMMA JobWalked ==
    ASSUME DOMAIN mjob = M365Job, NEW j \in M365Job, DOMAIN mjob[j] = JobFields,
           NEW at, mjob' = [mjob EXCEPT ![j].at = at]
    PROVE  JobStep(j, at, mjob[j].todo, mjob[j].users, mjob[j].stack, mjob[j].rest,
                   mjob[j].bad, mjob[j].status)
    BY DEF JobStep, JobFields

LEMMA JobPart ==
    ASSUME DOMAIN mjob = M365Job, NEW j \in M365Job, DOMAIN mjob[j] = JobFields,
           NEW bad, PartEnds(j, bad)
    PROVE  JobStep(j, IF Len(mjob[j].todo) = 1 THEN "end" ELSE "users", Tail(mjob[j].todo),
                   {}, {}, {}, bad, mjob[j].status)
    BY DEF PartEnds, JobStep, JobFields

LEMMA JobOver ==
    ASSUME DOMAIN mjob = M365Job, NEW j \in M365Job, DOMAIN mjob[j] = JobFields, JobEnds(j)
    PROVE  JobStep(j, "over", mjob[j].todo, mjob[j].users, mjob[j].stack, mjob[j].rest,
                   mjob[j].bad, IF mjob[j].bad THEN "failed" ELSE "completed")
    BY DEF JobEnds, JobStep, JobFields

\* The orders and what is left of them.
LEMMA TypeParts ==
    /\ Head(<<"mail">>) = "mail" /\ Len(<<"mail">>) = 1 /\ Tail(<<"mail">>) = <<>>
    /\ Head(<<"drive">>) = "drive" /\ Len(<<"drive">>) = 1 /\ Tail(<<"drive">>) = <<>>
    /\ Head(<<"mail", "drive">>) = "mail" /\ Len(<<"mail", "drive">>) = 2
    /\ Tail(<<"mail", "drive">>) = <<"drive">>
    /\ <<"mail">> # <<"drive">> /\ <<"mail", "drive">> # <<"drive">>
    /\ <<"mail", "drive">> # <<"mail">> /\ "mail" # "drive"
    /\ DOMAIN <<"mail">> = {1} /\ DOMAIN <<"drive">> = {1} /\ DOMAIN <<"mail", "drive">> = {1, 2}
    /\ <<"mail">>[1] = "mail" /\ <<"drive">>[1] = "drive"
    /\ <<"mail", "drive">>[1] = "mail" /\ <<"mail", "drive">>[2] = "drive"
<1>1. Tail(<<"mail", "drive">>) = <<"drive">>
  OBVIOUS
<1>2. Len(<<"mail", "drive">>) = 2 /\ Len(<<"drive">>) = 1 /\ Len(<<"mail">>) = 1
  OBVIOUS
<1>3. Tail(<<"mail">>) = <<>> /\ Tail(<<"drive">>) = <<>>
  OBVIOUS
<1> QED
  BY <1>1, <1>2, <1>3


\* What does not touch a job leaves it sound.
LEMMA JobKept ==
    ASSUME NEW k \in M365Job, JobSound(k), mjob'[k] = mjob[k], copied \subseteq copied',
           moved \subseteq moved'
    PROVE  JobSound(k)'
<1>1. JobShape(k)'
  BY DEF JobSound, JobShape
<1>2. DriveAt(k)'
  BY DEF JobSound, DriveAt, Line
<1>3. MailAt(k)'
  BY DEF JobSound, MailAt, Message
<1>4. \A part : Whole(k, part) => Whole(k, part)'
  BY DEF Whole, Message
<1>5. PartsWhole(k)'
  BY <1>4 DEF JobSound, PartsWhole
<1> QED
  BY <1>1, <1>2, <1>3, <1>5 DEF JobSound

\* A job that is not walking, and is not told to have completed, has nothing to answer for.
LEMMA JobIdle ==
    ASSUME NEW j \in M365Job, DOMAIN mjob'[j] = JobFields, mjob'[j].at \in {"new", "over"},
           mjob'[j].users = {}, mjob'[j].stack = {}, mjob'[j].rest = {}, mjob'[j].status = ""
    PROVE  JobSound(j)'
<1>1. JobShape(j)'
  BY DEF JobShape, Busy
<1>2. DriveAt(j)' /\ MailAt(j)'
  BY DEF DriveAt, MailAt, Walks
<1>3. PartsWhole(j)'
  BY DEF PartsWhole, Busy
<1> QED
  BY <1>1, <1>2, <1>3 DEF JobSound

\* Every line leads to a user.
LEMMA LineEnds ==
    ASSUME M365Assumption, NEW S \in SUBSET (User \cup Folder), NEW i \in File, Line(S, i)
    PROVE  S \cap User # {}
<1> SUFFICES ASSUME S \cap User = {} PROVE FALSE
  OBVIOUS
<1>1. S \in SUBSET Folder /\ S # {}
  BY DEF Line
<1>2. PICK f \in S : Placed[f] \notin S
  BY <1>1 DEF M365Assumption
<1> QED
  BY <1>1, <1>2 DEF Line

LEMMA ListUsersStep ==
    ASSUME M365Assumption, M365Shape, NEW j \in M365Job, JobSound(j), ListUsers(j)
    PROVE  JobSound(j)'
<1>1. JobStep(j, "user", mjob[j].todo, User, mjob[j].stack, mjob[j].rest, mjob[j].bad,
              mjob[j].status)
  BY JobListed DEF M365Shape, JobSound, JobShape
<1>2. mjob[j].at = "users" /\ moved' = moved /\ copied' = copied
  BY DEF ListUsers, JobKeeps
<1>3. JobShape(j)'
  BY <1>1, <1>2 DEF JobSound, JobShape, JobStep, Busy
<1>4. DriveAt(j)'
  BY <1>1, <1>2, LineEnds DEF DriveAt, JobStep
<1>5. MailAt(j)'
  BY <1>1, <1>2 DEF MailAt, JobStep, Message
<1>6. PartsWhole(j)'
  BY <1>1, <1>2 DEF JobSound, JobShape, PartsWhole, JobStep, Busy, Whole
<1> QED
  BY <1>3, <1>4, <1>5, <1>6 DEF JobSound


LEMMA NextUserStep ==
    ASSUME M365Assumption, M365Shape, NEW j \in M365Job, JobSound(j), NextUser(j)
    PROVE  JobSound(j)'
<1>1. PICK u \in mjob[j].users :
          JobStep(j, "walk", mjob[j].todo, mjob[j].users \ {u},
                  IF Head(mjob[j].todo) = "drive" THEN {u} ELSE Children(u) \cap Folder,
                  mjob[j].rest, mjob[j].bad, mjob[j].status)
  BY JobEntered DEF M365Shape, JobSound, JobShape
<1>2. mjob[j].at = "user" /\ moved' = moved /\ copied' = copied
  BY DEF NextUser, JobKeeps
<1>3. u \in User /\ mjob[j].stack = {} /\ mjob[j].rest = {}
  BY <1>2 DEF JobSound, JobShape
<1>4. JobShape(j)'
  BY <1>1, <1>2, <1>3 DEF JobSound, JobShape, JobStep, Busy
<1>5. DriveAt(j)'
  <2> SUFFICES ASSUME Head(mjob[j].todo) = "drive", NEW i \in File \ moved,
                      <<j, "drive", i>> \notin copied,
                      NEW S \in SUBSET (User \cup Folder), Line(S, i)
               PROVE  S \cap ((mjob[j].users \ {u}) \cup {u}) # {}
    BY <1>1, <1>2, <1>3 DEF DriveAt, JobStep, Line
  <2> QED
    BY <1>2, <1>3 DEF JobSound, DriveAt, Walks
<1>6. MailAt(j)'
  <2> SUFFICES ASSUME Head(mjob[j].todo) = "mail", NEW i \in File \ moved, Message(i),
                      <<j, "mail", i>> \notin copied
               PROVE  Placed[i] \in Children(u) \cap Folder \/ Placed[Placed[i]] \in mjob[j].users \ {u}
    BY <1>1, <1>2, <1>3 DEF MailAt, JobStep, Message
  <2>1. Placed[Placed[i]] \in mjob[j].users
    BY <1>2, <1>3 DEF JobSound, MailAt, Walks
  <2>2. Placed[i] \in Folder \ moved
    BY M365Assumption DEF Message, M365Shape, PlaceShape, M365Assumption
  <2>3. place[Placed[i]] = Placed[Placed[i]] /\ Placed[i] \in DOMAIN place
    BY <2>2 DEF M365Shape, PlaceShape
  <2> QED
    BY <2>1, <2>2, <2>3 DEF Children
<1>7. PartsWhole(j)'
  BY <1>1, <1>2 DEF JobSound, JobShape, PartsWhole, JobStep, Busy, Whole
<1> QED
  BY <1>4, <1>5, <1>6, <1>7 DEF JobSound

LEMMA ListFolderStep ==
    ASSUME M365Assumption, M365Shape, NEW j \in M365Job, JobSound(j), ListFolder(j)
    PROVE  JobSound(j)'
<1>1. PICK f \in mjob[j].stack :
          JobStep(j, "items", mjob[j].todo, mjob[j].users, mjob[j].stack \ {f},
                  IF Head(mjob[j].todo) = "drive" THEN Children(f) ELSE Children(f) \cap File,
                  mjob[j].bad, mjob[j].status)
  BY JobFolder DEF M365Shape, JobSound, JobShape
<1>2. mjob[j].at = "walk" /\ moved' = moved /\ copied' = copied
  BY DEF ListFolder, JobKeeps
<1>3. f \in User \cup Folder /\ mjob[j].rest = {}
  BY <1>2 DEF JobSound, JobShape
<1>4. JobShape(j)'
  <2>1. Children(f) \subseteq Folder \cup File
    BY DEF Children, M365Shape, PlaceShape
  <2> QED
    BY <1>1, <1>2, <1>3, <2>1 DEF JobSound, JobShape, JobStep, Busy
<1>5. \A i \in (Folder \cup File) \ moved : Placed[i] = f => i \in Children(f)
  BY DEF Children, M365Shape, PlaceShape
<1>6. DriveAt(j)'
  \* What leads to the folder that is listed leads to something in it, or is no line without it.
  <2> SUFFICES ASSUME Head(mjob[j].todo) = "drive", NEW i \in File \ moved,
                      <<j, "drive", i>> \notin copied, i \notin Children(f),
                      NEW S \in SUBSET (User \cup Folder), Line(S, i)
               PROVE  S \cap (mjob[j].users \cup (mjob[j].stack \ {f}) \cup Children(f)) # {}
    BY <1>1, <1>2 DEF DriveAt, JobStep, Line
  <2>1. \A T \in SUBSET (User \cup Folder) : Line(T, i) => T \cap (mjob[j].users \cup mjob[j].stack) # {}
    BY <1>2, <1>3 DEF JobSound, DriveAt, Walks
  <2>2. CASE \E e \in S \cap Folder : Placed[e] = f
    <3>1. PICK e \in S \cap Folder : Placed[e] = f
      BY <2>2
    <3>2. e \in (Folder \cup File) \ moved
      BY <3>1 DEF M365Assumption, M365Shape, PlaceShape
    <3> QED
      BY <1>5, <3>1, <3>2
  <2>3. CASE \A e \in S \cap Folder : Placed[e] # f
    <3>1. Placed[i] # f
      BY <1>5
    <3>2. Line(S \ {f}, i)
      BY <2>3, <3>1 DEF Line
    <3> QED
      BY <2>1, <3>2
  <2> QED
    BY <2>2, <2>3
<1>7. MailAt(j)'
  <2> SUFFICES ASSUME Head(mjob[j].todo) = "mail", NEW i \in File \ moved, Message(i),
                      <<j, "mail", i>> \notin copied
               PROVE  \/ i \in Children(f) \cap File \/ Placed[i] \in mjob[j].stack \ {f}
                      \/ Placed[Placed[i]] \in mjob[j].users
    BY <1>1, <1>2, TypeParts DEF MailAt, JobStep, Message
  <2> QED
    BY <1>2, <1>3, <1>5 DEF JobSound, MailAt, Walks
<1>8. PartsWhole(j)'
  BY <1>1, <1>2 DEF JobSound, JobShape, PartsWhole, JobStep, Busy, Whole
<1> QED
  BY <1>4, <1>6, <1>7, <1>8 DEF JobSound

LEMMA TakeItemStep ==
    ASSUME M365Assumption, M365Shape, NEW j \in M365Job, JobSound(j), TakeItem(j)
    PROVE  JobSound(j)' /\ copied \subseteq copied' /\ copied' \subseteq M365Job \X Workload \X File
<1>1. PICK e \in mjob[j].rest :
          /\ JobStep(j, mjob[j].at, mjob[j].todo, mjob[j].users,
                     mjob[j].stack \cup ({e} \cap Folder), mjob[j].rest \ {e}, mjob[j].bad,
                     mjob[j].status)
          /\ copied' = copied \cup {<<j, Head(mjob[j].todo), f>> : f \in {e} \cap File}
  BY JobTakes DEF M365Shape, JobSound, JobShape
<1>2. mjob[j].at = "items" /\ moved' = moved
  BY DEF TakeItem, JobKeeps
<1>3. JobShape(j)'
  BY <1>1, <1>2 DEF JobSound, JobShape, JobStep, Busy
<1>4. copied \subseteq copied' /\ (e \in File => <<j, Head(mjob[j].todo), e>> \in copied')
  BY <1>1
<1>5. Head(mjob[j].todo) \in Workload
  BY <1>2, TypeParts DEF JobSound, JobShape, Busy, Types, Workload
<1>6. DriveAt(j)'
  <2> SUFFICES ASSUME Head(mjob[j].todo) = "drive", NEW i \in File \ moved,
                      <<j, "drive", i>> \notin copied', i \notin mjob[j].rest \ {e},
                      NEW S \in SUBSET (User \cup Folder), Line(S, i)
               PROVE  S \cap (mjob[j].users \cup (mjob[j].stack \cup ({e} \cap Folder))
                              \cup (mjob[j].rest \ {e})) # {}
    BY <1>1, <1>2 DEF DriveAt, JobStep, Line
  <2>1. i \notin mjob[j].rest
    BY <1>4
  <2>2. S \cap (mjob[j].users \cup mjob[j].stack \cup mjob[j].rest) # {}
    BY <1>2, <1>4, <2>1 DEF JobSound, DriveAt, Walks
  <2>3. e \in S => e \in Folder
    BY DEF JobSound, JobShape, M365Assumption
  <2> QED
    BY <2>2, <2>3
<1>7. MailAt(j)'
  <2> SUFFICES ASSUME Head(mjob[j].todo) = "mail", NEW i \in File \ moved, Message(i),
                      <<j, "mail", i>> \notin copied'
               PROVE  \/ i \in mjob[j].rest \ {e} \/ Placed[i] \in mjob[j].stack
                      \/ Placed[Placed[i]] \in mjob[j].users
    BY <1>1, <1>2 DEF MailAt, JobStep, Message
  <2> QED
    BY <1>2, <1>4 DEF JobSound, MailAt, Walks
<1>8. PartsWhole(j)'
  BY <1>1, <1>2, <1>4 DEF JobSound, JobShape, PartsWhole, JobStep, Busy, Whole
<1>9. copied' \subseteq M365Job \X Workload \X File
  BY <1>1, <1>5 DEF M365Shape, PlaceShape
<1> QED
  BY <1>3, <1>4, <1>6, <1>7, <1>8, <1>9 DEF JobSound


LEMMA FolderOrUserDoneStep ==
    ASSUME M365Assumption, M365Shape, NEW j \in M365Job, JobSound(j), FolderDone(j) \/ UserDone(j)
    PROVE  JobSound(j)'
<1>1. PICK at \in {"walk", "user"} :
          JobStep(j, at, mjob[j].todo, mjob[j].users, mjob[j].stack, mjob[j].rest,
                  mjob[j].bad, mjob[j].status)
  <2>1. CASE FolderDone(j)
    BY <2>1, JobWalked DEF FolderDone, M365Shape, JobSound, JobShape
  <2>2. CASE UserDone(j)
    BY <2>2, JobWalked DEF UserDone, M365Shape, JobSound, JobShape
  <2> QED
    BY <2>1, <2>2
<1>2. mjob[j].at \in {"items", "walk"} /\ moved' = moved /\ copied' = copied
      /\ mjob[j].rest = {} /\ (at = "user" => mjob[j].stack = {})
  <2>1. CASE FolderDone(j)
    <3>1. mjob'[j].at = "walk"
      BY <2>1 DEF FolderDone, M365Shape, JobSound, JobShape, JobFields
    <3> QED
      BY <1>1, <2>1, <3>1 DEF FolderDone, JobKeeps, JobStep
  <2>2. CASE UserDone(j)
    BY <2>2 DEF UserDone, JobKeeps, JobSound, JobShape
  <2> QED
    BY <2>1, <2>2
<1>3. JobShape(j)'
  BY <1>1, <1>2 DEF JobSound, JobShape, JobStep, Busy
<1>4. DriveAt(j)'
  BY <1>1, <1>2 DEF JobSound, DriveAt, Walks, JobStep, Line
<1>5. MailAt(j)'
  BY <1>1, <1>2 DEF JobSound, MailAt, Walks, JobStep, Message
<1>6. PartsWhole(j)'
  BY <1>1, <1>2 DEF JobSound, JobShape, PartsWhole, JobStep, Busy, Whole
<1> QED
  BY <1>3, <1>4, <1>5, <1>6 DEF JobSound

\* A part that has come to its end without a failure is whole.
LEMMA PartIsWhole ==
    ASSUME M365Assumption, M365Shape, NEW j \in M365Job, JobSound(j),
           mjob[j].at = "user", mjob[j].users = {}
    PROVE  Whole(j, Head(mjob[j].todo))
<1>1. mjob[j].stack = {} /\ mjob[j].rest = {} /\ Head(mjob[j].todo) \in Workload
  BY TypeParts DEF JobSound, JobShape, Busy, Types, Workload
<1>2. CASE Head(mjob[j].todo) = "drive"
  <2>1. \A i \in File : Line(User \cup Folder, i)
    BY DEF Line, M365Assumption
  <2> QED
    BY <1>1, <1>2, <2>1 DEF JobSound, DriveAt, Walks, Whole
<1>3. CASE Head(mjob[j].todo) = "mail"
  BY <1>1, <1>3 DEF JobSound, MailAt, Walks, Whole
<1> QED
  BY <1>1, <1>2, <1>3 DEF Workload

LEMMA PartStep ==
    ASSUME M365Assumption, M365Shape, NEW j \in M365Job, JobSound(j), PartDone(j) \/ PartFails(j)
    PROVE  JobSound(j)'
<1>1. PICK bad : PartEnds(j, bad) /\ (bad # TRUE => PartDone(j) /\ bad = mjob[j].bad)
  BY DEF PartDone, PartFails
<1>2. JobStep(j, IF Len(mjob[j].todo) = 1 THEN "end" ELSE "users", Tail(mjob[j].todo),
              {}, {}, {}, bad, mjob[j].status)
  BY <1>1, JobPart DEF M365Shape, JobSound, JobShape
<1>3. mjob[j].at \in Busy /\ moved' = moved /\ copied' = copied
  BY DEF PartDone, PartFails, JobKeeps, Busy
<1>4. /\ mjob[j].type \in Types
      /\ \/ mjob[j].todo = mjob[j].type
         \/ mjob[j].type = <<"mail", "drive">> /\ mjob[j].todo = <<"drive">>
  BY <1>3 DEF JobSound, JobShape
<1>5. \/ /\ mjob[j].todo = <<"mail", "drive">> /\ mjob[j].type = <<"mail", "drive">>
          /\ mjob'[j].at = "users" /\ mjob'[j].todo = <<"drive">> /\ Head(mjob[j].todo) = "mail"
       \/ /\ mjob'[j].at = "end"
          /\ \A n \in DOMAIN mjob[j].type :
                 \/ mjob[j].type[n] = Head(mjob[j].todo)
                 \/ mjob[j].type[n] = "mail" /\ mjob[j].todo # mjob[j].type
  <2>1. CASE mjob[j].todo = <<"mail", "drive">> /\ mjob[j].type = <<"mail", "drive">>
    BY <1>2, <2>1, TypeParts DEF JobStep
  <2>2. CASE mjob[j].todo = <<"drive">> /\ mjob[j].type = <<"mail", "drive">>
    BY <1>2, <2>2, TypeParts DEF JobStep
  <2>3. CASE mjob[j].todo = <<"drive">> /\ mjob[j].type = <<"drive">>
    BY <1>2, <2>3, TypeParts DEF JobStep
  <2>4. CASE mjob[j].todo = <<"mail">> /\ mjob[j].type = <<"mail">>
    BY <1>2, <2>4, TypeParts DEF JobStep
  <2> QED
    BY <1>4, <2>1, <2>2, <2>3, <2>4 DEF Types
<1>6. JobShape(j)'
  BY <1>2, <1>3, <1>4, <1>5 DEF JobSound, JobShape, JobStep, Busy
<1>7. DriveAt(j)' /\ MailAt(j)'
  BY <1>2 DEF DriveAt, MailAt, JobStep, Walks
<1>8. \A part : Whole(j, part) => Whole(j, part)'
  BY <1>3 DEF Whole, Message
<1>9. ASSUME bad # TRUE
      PROVE  /\ ~mjob[j].bad /\ Whole(j, Head(mjob[j].todo))
             /\ mjob[j].todo # mjob[j].type => Whole(j, "mail")
  <2>1. mjob[j].at = "user" /\ mjob[j].users = {} /\ ~mjob[j].bad
    BY <1>1, <1>9 DEF PartDone
  <2> QED
    BY <2>1, PartIsWhole DEF JobSound, PartsWhole, Busy
<1>10. PartsWhole(j)'
  <2>1. mjob'[j].status # "completed"
    BY <1>2, <1>3 DEF JobSound, JobShape, JobStep
  <2>2. mjob'[j].type = mjob[j].type /\ mjob'[j].bad = bad
    BY <1>2 DEF JobStep
  <2>3. ASSUME mjob'[j].at \in Busy, ~mjob'[j].bad, mjob'[j].todo # mjob'[j].type
        PROVE  Whole(j, "mail")'
    <3>1. Whole(j, Head(mjob[j].todo)) /\ Head(mjob[j].todo) = "mail"
      BY <1>5, <1>9, <2>2, <2>3 DEF Busy
    <3> QED
      BY <1>8, <3>1
  <2>4. ASSUME mjob'[j].at = "end", ~mjob'[j].bad, NEW n \in DOMAIN mjob'[j].type
        PROVE  Whole(j, mjob[j].type[n])'
    <3>1. Whole(j, Head(mjob[j].todo)) /\ (mjob[j].todo # mjob[j].type => Whole(j, "mail"))
      BY <1>9, <2>2, <2>4
    <3>2. Whole(j, mjob[j].type[n])
      BY <1>5, <2>2, <2>4, <3>1
    <3> QED
      BY <1>3, <2>2, <3>2 DEF Whole, Message
  <2> QED
    BY <2>1, <2>3, <2>4 DEF PartsWhole
<1> QED
  BY <1>6, <1>7, <1>10 DEF JobSound

LEMMA JobEndsStep ==
    ASSUME M365Shape, NEW j \in M365Job, JobSound(j), JobEnds(j)
    PROVE  JobSound(j)'
<1>1. JobStep(j, "over", mjob[j].todo, mjob[j].users, mjob[j].stack, mjob[j].rest,
              mjob[j].bad, IF mjob[j].bad THEN "failed" ELSE "completed")
  BY JobOver DEF M365Shape, JobSound, JobShape
<1>2. mjob[j].at = "end" /\ moved' = moved /\ copied' = copied
  BY DEF JobEnds, JobKeeps
<1>3. JobShape(j)'
  BY <1>1, <1>2 DEF JobSound, JobShape, JobStep, Busy
<1>4. DriveAt(j)' /\ MailAt(j)'
  BY <1>1 DEF DriveAt, MailAt, JobStep, Walks
<1>5. PartsWhole(j)'
  <2>1. \A part : Whole(j, part) => Whole(j, part)'
    BY <1>2 DEF Whole, Message
  <2> QED
    BY <1>1, <1>2, <2>1 DEF JobSound, PartsWhole, JobStep, Busy
<1> QED
  BY <1>3, <1>4, <1>5 DEF JobSound


\* A new job walks nothing yet, and has the first of the registrations.
LEMMA StartBackupStep ==
    ASSUME M365Assumption, M365Shape, NEW j \in M365Job, NEW by \in M365Caller, NEW t \in Types,
           StartBackup(j, by, t)
    PROVE  JobSound(j)' /\ JobOwned(j)' /\ DOMAIN mjob' = M365Job
           /\ \A k \in M365Job \ {j} : mjob'[k] = mjob[k]
<1>1. /\ DOMAIN mjob' = M365Job /\ \A k \in M365Job \ {j} : mjob'[k] = mjob[k]
      /\ mjob'[j] = [NoJob EXCEPT !.at = "users", !.by = by, !.of = tenants[1], !.todo = t,
                                  !.type = t, !.status = "running"]
  BY DEF StartBackup, M365Shape
<1>2. /\ DOMAIN mjob'[j] = JobFields /\ mjob'[j].at = "users" /\ mjob'[j].by = by
      /\ mjob'[j].of = tenants[1] /\ mjob'[j].todo = t /\ mjob'[j].type = t
      /\ mjob'[j].users = {} /\ mjob'[j].stack = {} /\ mjob'[j].rest = {}
      /\ mjob'[j].bad = FALSE /\ mjob'[j].status = "running"
  BY <1>1 DEF NoJob, JobFields
<1>3. JobShape(j)'
  BY <1>2 DEF JobShape, Busy
<1>4. DriveAt(j)' /\ MailAt(j)' /\ PartsWhole(j)'
  BY <1>2 DEF DriveAt, MailAt, PartsWhole, Walks
<1>5. JobOwned(j)'
  <2> SUFFICES ASSUME by \in BckTenant, tenants[1].owner # by
               PROVE  \E i, k \in DOMAIN tenants :
                          i < k /\ tenants[i].owner = tenants[1].owner /\ tenants[k].owner = by
    BY <1>2 DEF JobOwned, StartBackup
  <2>1. PICK k \in DOMAIN tenants : tenants[k].owner = by
    BY DEF StartBackup, Allowed, M365Assumption
  <2>2. DOMAIN tenants = 1 .. Len(tenants) /\ Len(tenants) \in Nat
    BY DEF M365Shape, TenantShape
  <2>3. k # 1 /\ 1 \in DOMAIN tenants /\ 1 < k
    BY <2>1, <2>2
  <2> QED
    BY <2>1, <2>3
<1> QED
  BY <1>1, <1>3, <1>4, <1>5 DEF JobSound

LEMMA JobOwnedKept ==
    ASSUME NEW k \in M365Job, JobOwned(k), TenantShape,
           tenants' = tenants \/ \E e : tenants' = Append(tenants, e),
           mjob'[k].at \in {"new", "over"}
           \/ /\ mjob[k].at \notin {"new", "over"}
              /\ mjob'[k].by = mjob[k].by /\ mjob'[k].of = mjob[k].of
    PROVE  JobOwned(k)'
<1>1. DOMAIN tenants \subseteq DOMAIN tenants' /\ \A i \in DOMAIN tenants : tenants'[i] = tenants[i]
  BY DEF TenantShape
<1> QED
  BY <1>1 DEF JobOwned

\* What a job does leaves it sound, and its owner as he was.
LEMMA JobNextStep ==
    ASSUME M365Assumption, M365Inv, NEW j \in M365Job,
           \/ ListUsers(j) \/ NextUser(j) \/ ListFolder(j) \/ TakeItem(j) \/ FolderDone(j)
           \/ UserDone(j) \/ PartDone(j) \/ PartFails(j) \/ JobEnds(j)
    PROVE  M365Inv'
<1>1. /\ M365Shape /\ JobSound(j) /\ DOMAIN mjob[j] = JobFields /\ DOMAIN mjob = M365Job
      /\ JobOwned(j)
  BY SMTT(20) DEF M365Inv, JobSound, JobShape, M365Shape
<1>2. tenants' = tenants /\ place' = place /\ moved' = moved
  BY DEF ListUsers, NextUser, ListFolder, TakeItem, FolderDone, UserDone, PartDone, PartFails,
         JobEnds, JobKeeps
<1>3. copied \subseteq copied' /\ copied' \subseteq M365Job \X Workload \X File
  <2>1. copied \subseteq M365Job \X Workload \X File
    BY <1>1 DEF M365Shape, PlaceShape
  <2> QED
    BY <1>1, <2>1, TakeItemStep
       DEF ListUsers, NextUser, ListFolder, FolderDone, UserDone, PartDone, PartFails, JobEnds
<1>4. JobSound(j)'
  BY <1>1, ListUsersStep, NextUserStep, ListFolderStep, TakeItemStep, FolderOrUserDoneStep,
     PartStep, JobEndsStep
<1>5. \E at, todo, users, stack, rest, bad, outcome :
          JobStep(j, at, todo, users, stack, rest, bad, outcome)
  <2>1. CASE ListUsers(j)
    BY <1>1, <2>1, JobListed
  <2>2. CASE NextUser(j)
    BY <1>1, <2>2, JobEntered
  <2>3. CASE ListFolder(j)
    BY <1>1, <2>3, JobFolder
  <2>4. CASE TakeItem(j)
    BY <1>1, <2>4, JobTakes
  <2>5. CASE FolderDone(j) \/ UserDone(j)
    BY <1>1, <2>5, JobWalked DEF FolderDone, UserDone
  <2>6. CASE PartDone(j) \/ PartFails(j)
    BY <1>1, <2>6, JobPart DEF PartDone, PartFails
  <2>7. CASE JobEnds(j)
    BY <1>1, <2>7, JobOver
  <2> QED
    BY <2>1, <2>2, <2>3, <2>4, <2>5, <2>6, <2>7
<1>6. /\ DOMAIN mjob' = M365Job /\ \A k \in M365Job \ {j} : mjob'[k] = mjob[k]
      /\ mjob'[j].by = mjob[j].by /\ mjob'[j].of = mjob[j].of
  BY <1>5, SMTT(20) DEF JobStep
<1>7. mjob[j].at \notin {"new", "over"}
  BY DEF ListUsers, NextUser, ListFolder, TakeItem, FolderDone, UserDone, PartDone, PartFails,
         JobEnds
<1>8. M365Shape'
  BY <1>1, <1>2, <1>3, <1>6 DEF M365Shape, PlaceShape, TenantShape
<1>9. \A k \in M365Job : JobSound(k)'
  BY <1>2, <1>3, <1>4, <1>6, JobKept DEF M365Inv
<1>10. \A k \in M365Job : JobOwned(k)'
  <2>1. ASSUME NEW k \in M365Job, k # j PROVE JobOwned(k)'
    BY <1>2, <1>6, <2>1 DEF M365Inv, JobOwned
  <2>2. JobOwned(j)'
    BY <1>1, <1>2, <1>6, <1>7 DEF JobOwned
  <2> QED
    BY <2>1, <2>2
<1> QED
  BY <1>8, <1>9, <1>10 DEF M365Inv

LEMMA NoJobIdle ==
    /\ DOMAIN NoJob = JobFields
    /\ NoJob.at = "new" /\ NoJob.users = {} /\ NoJob.stack = {} /\ NoJob.rest = {}
    /\ NoJob.status = ""
<1>1. DOMAIN NoJob = JobFields
  BY DEF NoJob, JobFields
<1>2. NoJob.at = "new" /\ NoJob.status = ""
  BY DEF NoJob
<1>3. NoJob.users = {} /\ NoJob.stack = {} /\ NoJob.rest = {}
  BY DEF NoJob
<1> QED
  BY <1>1, <1>2, <1>3

LEMMA M365Typed == M365Inv => M365TypeOK
<1> SUFFICES ASSUME M365Inv PROVE M365TypeOK
  OBVIOUS
<1>1. ASSUME NEW i \in DOMAIN tenants PROVE tenants[i].owner \in BckTenant \cup {"azure"}
  <2>1. tenants \in Seq([owner : BckTenant \cup {"azure"}, secret : {"none", "encrypted"}])
    BY DEF M365Inv, M365Shape, TenantShape
  <2>2. \A T : tenants \in Seq(T) => tenants[i] \in T
    OBVIOUS
  <2> QED
    BY <2>1, <2>2
<1> QED
  BY <1>1 DEF M365Inv, M365Shape, PlaceShape, JobSound, JobShape, Busy, M365TypeOK

(* Of every Microsoft 365 job it is known, at each of its requests, where the files are that it
   has yet to copy, and whose registration it runs with: for any folders in trees. *)
THEOREM M365Invariant == M365Spec => [](M365Inv /\ M365TypeOK)
<1> USE M365Assumption
<1>1. M365Init => M365Inv
  <2> SUFFICES ASSUME M365Init PROVE M365Inv
    OBVIOUS
  <2>1. M365Shape
    BY DEF M365Init, M365Shape, PlaceShape, TenantShape, M365Assumption
  <2>2. \A j \in M365Job : mjob[j] = NoJob
    BY DEF M365Init
  <2>3. ASSUME NEW j \in M365Job PROVE JobSound(j) /\ JobOwned(j)
    <3>1. DOMAIN mjob[j] = JobFields /\ mjob[j].at = "new" /\ mjob[j].users = {}
          /\ mjob[j].stack = {} /\ mjob[j].rest = {} /\ mjob[j].status = ""
      BY <2>2, NoJobIdle
    <3> QED
      BY <3>1 DEF JobSound, JobShape, DriveAt, MailAt, PartsWhole, JobOwned, Busy, Walks
  <2> QED
    BY <2>1, <2>3 DEF M365Inv
<1>2. M365Inv /\ [M365Next]_m365Vars => M365Inv'
  <2> SUFFICES ASSUME M365Inv, [M365Next]_m365Vars PROVE M365Inv'
    OBVIOUS
  <2>1. ASSUME NEW o \in BckTenant \cup {"azure"}, RegisterTenant(o) PROVE M365Inv'
    <3>1. \E e \in [owner : BckTenant \cup {"azure"}, secret : {"none", "encrypted"}] :
              tenants' = Append(tenants, e)
      BY <2>1 DEF RegisterTenant
    <3>2. mjob' = mjob /\ place' = place /\ copied' = copied /\ moved' = moved
      BY <2>1 DEF RegisterTenant
    <3>3. M365Shape'
      BY <3>1, <3>2 DEF M365Inv, M365Shape, PlaceShape, TenantShape
    <3>4. ASSUME NEW k \in M365Job PROVE JobSound(k)' /\ JobOwned(k)'
      <4>1. JobOwned(k) /\ TenantShape
        BY DEF M365Inv, M365Shape
      <4> QED
        BY <3>1, <3>2, <4>1, JobKept, JobOwnedKept DEF M365Inv
    <3> QED
      BY <3>3, <3>4 DEF M365Inv
  <2>2. ASSUME NEW j \in M365Job, NEW by \in M365Caller, NEW t \in Types, StartBackup(j, by, t)
        PROVE  M365Inv'
    <3>1. JobSound(j)' /\ JobOwned(j)' /\ DOMAIN mjob' = M365Job
          /\ \A k \in M365Job \ {j} : mjob'[k] = mjob[k]
      BY <2>2, StartBackupStep DEF M365Inv
    <3>2. tenants' = tenants /\ place' = place /\ copied' = copied /\ moved' = moved
      BY <2>2 DEF StartBackup
    <3>3. M365Shape'
      BY <3>1, <3>2 DEF M365Inv, M365Shape, PlaceShape, TenantShape
    <3>4. ASSUME NEW k \in M365Job, k # j PROVE JobSound(k)' /\ JobOwned(k)'
      BY <3>1, <3>2, <3>4, JobKept DEF M365Inv, JobOwned
    <3> QED
      BY <3>1, <3>3, <3>4 DEF M365Inv
  <2>3. ASSUME NEW j \in M365Job,
               \/ ListUsers(j) \/ NextUser(j) \/ ListFolder(j) \/ TakeItem(j) \/ FolderDone(j)
               \/ UserDone(j) \/ PartDone(j) \/ PartFails(j) \/ JobEnds(j)
        PROVE  M365Inv'
    BY <2>3, JobNextStep
  <2>4. ASSUME NEW i \in File, NEW f \in Folder, UserMoves(i, f) PROVE M365Inv'
    <3>1. tenants' = tenants /\ mjob' = mjob /\ copied' = copied /\ moved' = moved \cup {i}
          /\ place' = [place EXCEPT ![i] = f]
      BY <2>4 DEF UserMoves
    <3>2. M365Shape'
      BY <3>1 DEF M365Inv, M365Shape, PlaceShape, TenantShape
    <3>3. \A k \in M365Job : JobSound(k)' /\ JobOwned(k)'
      BY <3>1, JobKept DEF M365Inv, JobOwned
    <3> QED
      BY <3>2, <3>3 DEF M365Inv
  <2>5. CASE M365Restart
    <3>1. tenants' \in Seq([owner : BckTenant \cup {"azure"}, secret : {"none", "encrypted"}])
      <4>1. PICK n \in 0 .. Len(tenants) : tenants' = SubSeq(tenants, 1, n)
        BY <2>5 DEF M365Restart
      <4> DEFINE Rows == [owner : BckTenant \cup {"azure"}, secret : {"none", "encrypted"}]
      <4>2. tenants \in Seq(Rows) /\ n \in Int /\ n <= Len(tenants)
        BY DEF M365Inv, M365Shape, TenantShape
      <4> HIDE DEF Rows
      <4>3. \A i \in 1 .. n : tenants[i] \in Rows
        BY <4>2
      <4>4. SubSeq(tenants, 1, n) \in Seq(Rows)
        BY <4>2, <4>3, SubSeqProperties
      <4> QED
        BY <4>1, <4>4 DEF Rows
    <3>2. place' = place /\ copied' = copied /\ moved' = moved /\ DOMAIN mjob' = M365Job
      BY <2>5 DEF M365Restart
    <3>3. M365Shape'
      BY <3>1, <3>2 DEF M365Inv, M365Shape, PlaceShape, TenantShape
    <3>4. ASSUME NEW j \in M365Job PROVE JobSound(j)' /\ JobOwned(j)'
      <4>1. mjob'[j] = NoJob \/ mjob'[j] = [NoJob EXCEPT !.at = "over"]
        BY <2>5 DEF M365Restart
      <4>2. DOMAIN mjob'[j] = JobFields /\ mjob'[j].at \in {"new", "over"} /\ mjob'[j].users = {}
            /\ mjob'[j].stack = {} /\ mjob'[j].rest = {} /\ mjob'[j].status = ""
        <5>1. CASE mjob'[j] = NoJob
          BY <5>1, NoJobIdle
        <5>2. CASE mjob'[j] = [NoJob EXCEPT !.at = "over"]
          BY <5>2, NoJobIdle DEF JobFields
        <5> QED
          BY <4>1, <5>1, <5>2
      <4> QED
        BY <4>2, JobIdle DEF JobOwned
    <3> QED
      BY <3>3, <3>4 DEF M365Inv
  <2>6. CASE UNCHANGED m365Vars
    <3>1. tenants' = tenants /\ mjob' = mjob /\ place' = place /\ copied' = copied
          /\ moved' = moved
      BY <2>6 DEF m365Vars
    <3>2. M365Shape'
      BY <3>1 DEF M365Inv, M365Shape, PlaceShape, TenantShape
    <3> QED
      BY <3>1, <3>2, JobKept DEF M365Inv, JobOwned
  <2> QED
    BY <2>1, <2>2, <2>3, <2>4, <2>5, <2>6 DEF M365Next
<1> QED
  BY <1>1, <1>2, M365Typed, PTL DEF M365Spec

(* M365Sound for any users, folders and jobs: a job is called completed only if every part of it
   has all that was there and stayed, and runs with a registration of another owner only if that
   one came first. *)
THEOREM M365StaysSound == M365Spec => []M365Sound
<1>1. M365Inv => M365Sound
  <2> SUFFICES ASSUME M365Inv, NEW j \in M365Job PROVE JobWhole(j)
    BY DEF M365Inv, M365Sound
  <2> SUFFICES ASSUME mjob[j].status = "completed", NEW n \in DOMAIN mjob[j].type,
                      NEW i \in File \ moved, <<j, mjob[j].type[n], i>> \notin copied
               PROVE  mjob[j].type[n] = "mail" /\ (place[i] \in User \/ place[place[i]] \notin User)
    BY DEF JobWhole
  <2>1. mjob[j].type[n] = "mail" /\ ~Message(i)
    BY DEF M365Inv, JobSound, PartsWhole, Whole
  <2>2. place[i] = Placed[i] /\ place[i] \in User \cup Folder
    BY DEF M365Inv, M365Shape, PlaceShape
  <2>3. \A f \in Folder : place[f] = Placed[f]
    BY M365Assumption DEF M365Inv, M365Shape, PlaceShape, M365Assumption
  <2> QED
    BY <2>1, <2>2, <2>3 DEF Message
<1> QED
  BY <1>1, M365Invariant, PTL
=============================================================================
