----------------------------- MODULE MCServices ------------------------------
(***************************************************************************)
(* The services that move and keep data, side by side in one instance.     *)
(* They share no state in these models, so a behaviour is one of a single  *)
(* service: `focus` names the one that moves, the others stay where they   *)
(* start (in one fixed initial state, to keep the instance small).         *)
(***************************************************************************)
EXTENDS VmImage, Cdp, KeyEnvelope, Tape, CloudRestore, M365Backup,
        Chunker, BlockStore, FileRestore, DiskWire

CONSTANTS r1, s1, s2, x, y, v, c1, c2, a1, d1, d2, w1, w2, w3

VARIABLE focus

DiskList == <<d1, d2>>
Names == [c \in {w1, w2, w3} |-> IF c = w2 THEN "m" ELSE "n"]
Settings == {[raw |-> TRUE, keys |-> TRUE, creds |-> TRUE],
             [raw |-> FALSE, keys |-> FALSE, creds |-> FALSE]}
FilesIn == [s \in {"s", "t"} |->
    IF s = "s" THEN [f \in {x, y} |-> IF f = x THEN <<"a", "b">> ELSE <<"a">>]
    ELSE [f \in {x} |-> <<"b">>]]
FirstPlace == [i \in {d1, d2, x, y} |-> CASE i = d1 -> s1 [] i = y -> d2 [] OTHER -> d1]

Services == {"image", "cdp", "keys", "tape", "cloud", "m365", "chunker", "blocks", "files",
    "wire"}

servicesVars == <<focus, vmVars, cdpVars, keyVars, tapeVars, cloudVars, m365Vars, chunkVars,
    blockVars, restoreVars, wireVars>>

ServicesTypeOK ==
    /\ focus \in Services
    /\ CASE focus = "image" -> VmTypeOK
         [] focus = "cdp" -> CdpTypeOK
         [] focus = "keys" -> KeyTypeOK
         [] focus = "tape" -> TapeTypeOK
         [] focus = "cloud" -> CloudTypeOK
         [] focus = "m365" -> M365TypeOK
         [] focus = "chunker" -> ChunkTypeOK
         [] focus = "blocks" -> BlockTypeOK
         [] focus = "files" -> RestoreTypeOK
         [] focus = "wire" -> WireTypeOK

ServicesInit ==
    /\ focus \in Services
    /\ VmInit /\ (focus # "image" => cbt = {})
    /\ KeyInit /\ (focus # "keys" => ~phrase)
    /\ CloudInit /\ (focus # "cloud" => setting.raw)
    /\ ChunkInit /\ (focus # "chunker" => content = <<>>)
    /\ BlockInit /\ (focus # "blocks" => backend = "local")
    /\ RestoreInit /\ (focus # "files" => \A f \in Path : onTarget[f] = NoFile)
    /\ WireInit /\ (focus # "wire" => export = [by |-> "nfs", size |-> 0])
    /\ CdpInit /\ TapeInit /\ M365Init

(* Only the service in focus moves. *)
Alone(s) ==
    /\ focus = s /\ UNCHANGED focus
    /\ IF s = "image" THEN TRUE ELSE UNCHANGED vmVars
    /\ IF s = "cdp" THEN TRUE ELSE UNCHANGED cdpVars
    /\ IF s = "keys" THEN TRUE ELSE UNCHANGED keyVars
    /\ IF s = "tape" THEN TRUE ELSE UNCHANGED tapeVars
    /\ IF s = "cloud" THEN TRUE ELSE UNCHANGED cloudVars
    /\ IF s = "m365" THEN TRUE ELSE UNCHANGED m365Vars
    /\ IF s = "chunker" THEN TRUE ELSE UNCHANGED chunkVars
    /\ IF s = "blocks" THEN TRUE ELSE UNCHANGED blockVars
    /\ IF s = "files" THEN TRUE ELSE UNCHANGED restoreVars
    /\ IF s = "wire" THEN TRUE ELSE UNCHANGED wireVars

ServicesNext ==
    \/ Alone("image") /\ VmNext
    \/ Alone("cdp") /\ CdpNext
    \/ Alone("keys") /\ KeyNext
    \/ Alone("tape") /\ TapeNext
    \/ Alone("cloud") /\ CloudNext
    \/ Alone("m365") /\ M365Next
    \/ Alone("chunker") /\ ChunkNext
    \/ Alone("blocks") /\ BlockNext
    \/ Alone("files") /\ RestoreNext
    \/ Alone("wire") /\ WireNext

ServicesSpec == ServicesInit /\ [][ServicesNext]_servicesVars
==============================================================================
