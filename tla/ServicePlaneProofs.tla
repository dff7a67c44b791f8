------------------------- MODULE ServicePlaneProofs -------------------------
(***************************************************************************)
(* The services that move and keep data, side by side: every behaviour of  *)
(* MCServices is one of each service, so what is proved of a service holds *)
(* of them all, for every value of the constants.                          *)
(***************************************************************************)
EXTENDS MCServices, ServicesProofs, StorageProofs

\* The services start with each in an initial state of its own.
LEMMA ServicesStart ==
    ServicesInit => /\ focus \in Services /\ VmInit /\ CdpInit /\ KeyInit /\ TapeInit
                    /\ CloudInit /\ M365Init /\ ChunkInit /\ BlockInit /\ RestoreInit /\ WireInit
  BY DEF ServicesInit

\* A step of the services is a step or a stutter of each of them.
LEMMA ServicesMove ==
    ASSUME [ServicesNext]_servicesVars
    PROVE  /\ UNCHANGED focus
           /\ [VmNext]_vmVars /\ [CdpNext]_cdpVars /\ [KeyNext]_keyVars
           /\ [TapeNext]_tapeVars /\ [CloudNext]_cloudVars /\ [M365Next]_m365Vars
           /\ [ChunkNext]_chunkVars /\ [BlockNext]_blockVars /\ [RestoreNext]_restoreVars
           /\ [WireNext]_wireVars
  <1>1. CASE UNCHANGED servicesVars
    BY <1>1 DEF servicesVars
  <1>2. CASE ServicesNext
    <2>1. CASE Alone("image") /\ VmNext
      BY <2>1 DEF Alone
    <2>2. CASE Alone("cdp") /\ CdpNext
      BY <2>2 DEF Alone
    <2>3. CASE Alone("keys") /\ KeyNext
      BY <2>3 DEF Alone
    <2>4. CASE Alone("tape") /\ TapeNext
      BY <2>4 DEF Alone
    <2>5. CASE Alone("cloud") /\ CloudNext
      BY <2>5 DEF Alone
    <2>6. CASE Alone("m365") /\ M365Next
      BY <2>6 DEF Alone
    <2>7. CASE Alone("chunker") /\ ChunkNext
      BY <2>7 DEF Alone
    <2>8. CASE Alone("blocks") /\ BlockNext
      BY <2>8 DEF Alone
    <2>9. CASE Alone("files") /\ RestoreNext
      BY <2>9 DEF Alone
    <2>10. CASE Alone("wire") /\ WireNext
      BY <2>10 DEF Alone
    <2> QED
      BY <1>2, <2>1, <2>2, <2>3, <2>4, <2>5, <2>6, <2>7, <2>8, <2>9, <2>10 DEF ServicesNext
  <1> QED
    BY <1>1, <1>2

\* A behaviour of the services is one of each of them.
THEOREM ServicesImplement ==
    ServicesSpec => /\ VmSpec /\ CdpSpec /\ KeySpec /\ TapeSpec /\ CloudSpec /\ M365Spec
                    /\ ChunkSpec /\ BlockSpec /\ RestoreSpec /\ WireSpec /\ [](focus \in Services)
  <1>1. focus \in Services /\ UNCHANGED focus => (focus \in Services)'
    OBVIOUS
  <1> QED
    BY <1>1, ServicesStart, ServicesMove, PTL DEF ServicesSpec, VmSpec, CdpSpec, KeySpec, TapeSpec,
       CloudSpec, M365Spec, ChunkSpec, BlockSpec, RestoreSpec, WireSpec

\* Every service in focus has its type, and the one in focus never changes: whatever the constants,
\* the states of the changes, keys, tapes, clouds, mailboxes, blocks, restores, exports,
\* images and chunks are the ones they are declared to have.
THEOREM ServicesStayTyped == ServicesSpec => []ServicesTypeOK
  <1>1. KeyInv => KeyTypeOK
    BY DEF KeyInv
  <1>2. CloudInv => CloudTypeOK
    BY DEF CloudInv
  <1>3. BlockInv => BlockTypeOK
    BY DEF BlockInv
  <1>4. WireSpec => []WireTypeOK
    BY AnswersStaySound, PTL
  <1>5. TapeSpec => [](TapeInv /\ TapeTypeOK)
    BY TapeAssumption, TapeInvariant
  <1>6. /\ focus \in Services /\ VmTypeOK /\ CdpTypeOK /\ KeyTypeOK /\ TapeTypeOK
        /\ CloudTypeOK /\ M365TypeOK /\ ChunkTypeOK /\ BlockTypeOK /\ RestoreTypeOK /\ WireTypeOK
        => ServicesTypeOK
    BY DEF ServicesTypeOK, Services
  <1> QED
    BY <1>1, <1>2, <1>3, <1>4, <1>5, <1>6, ServicesImplement, KeyInvariant,
       CloudInvariant, BlockInvariant, CdpInvariant, M365Invariant, RestoreInvariant, ImageStaysReadable,
       ChunkingStaysSound, PTL

\* What is checked of the services side by side holds for all constants: images are readable,
\* changes, keys, tapes, clouds, mailboxes, restores and exports are sound, a file is cut
\* alike however it is read, and the blocks keep their promise.
THEOREM ServicesStaySound ==
    ServicesSpec => /\ [](/\ ImageReadable /\ ChangesAccounted /\ KeysSound /\ TapeSound
                          /\ CloudAccounted /\ M365Sound /\ ChunkingSound /\ RestoreSound /\ WireSound)
                    /\ KeepsPromise
  <1>1. TapeSpec => []TapeSound
    BY TapeAssumption, TapesStaySound
  <1> QED
    BY <1>1, ServicesImplement, ImageStaysReadable, ChangesStayAccounted, KeysStaySound,
       CloudStaysAccounted, M365StaysSound, ChunkingStaysSound, RestoresStaySound, AnswersStaySound,
       PromiseKept, PTL
=============================================================================
