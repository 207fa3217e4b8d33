------------------------- MODULE AudioManagerVendor -------------------------
(***************************************************************************)
(* The primary audio HDI's vendor manager (audio_manager_vendor.c): it     *)
(* dlopens the vendor library, fills the caller's adapter descriptors from *)
(* the vendor's, loads and unloads adapters through the vendor function    *)
(* table, and on release closes the library, unloads the adapters and      *)
(* frees the descriptors.  Calls come one at a time.                       *)
(*                                                                         *)
(* Memory is what the properties tell apart: each descriptor slot's        *)
(* adapterName (and its port array, freed with it) is "none", "live" or    *)
(* "freed".  The caller is taken to pass the same descriptor array to      *)
(* every GetAllAdapters and to keep it, the case most favourable to the    *)
(* code.  The adapter table behind AudioHwiCreateAdapter,                  *)
(* AudioHwiGetHwiAdapterByDescIndex and AudioHwiReleaseAdapter is outside  *)
(* the repository; it maps a descriptor index to the loaded adapter.       *)
(* misuse records each dangling access; it is history, not program state. *)
(***************************************************************************)
EXTENDS Naturals

CONSTANT DescLen     \* *descsLen the caller passes, <= AUDIO_HW_ADAPTER_NUM_MAX

Slots == 0 .. DescLen - 1

VARIABLES
    mgr,         \* the AudioHwiManagerPriv: "none", "live" or "freed"
    libOpen,     \* priv->handle holds the dlopened vendor library
    hasDescs,    \* priv->descs # NULL
    descsCount,  \* priv->descsCount
    name,        \* [Slots -> {"none", "live", "freed"}]: descs[i].adapterName
    loaded,      \* [Slots -> BOOLEAN]: the adapter table has an adapter at i
    misuse       \* dangling accesses so far: "closedLib", "freedName"

vars == <<mgr, libOpen, hasDescs, descsCount, name, loaded, misuse>>

Init ==
    /\ mgr = "none" /\ libOpen = FALSE
    /\ hasDescs = FALSE /\ descsCount = 0
    /\ name = [i \in Slots |-> "none"]
    /\ loaded = [i \in Slots |-> FALSE]
    /\ misuse = {}

-----------------------------------------------------------------------------
(* Helpers *)

\* A call through priv->hwiManager runs code of the vendor library.
VendorCall == IF libOpen THEN {} ELSE {"closedLib"}

\* Reading the names of slots 0 .. n-1 (strcmp in the lookup loop).
ReadNames(n) == IF \E i \in 0 .. n - 1 : name[i] = "freed" THEN {"freedName"} ELSE {}

\* AudioManagerReleaseDescs(descs, n): frees the name and ports of slots
\* 0 .. n-1 and leaves the pointers as they are; n = 0 returns at once.
ReleaseDescs(n) ==
    [i \in Slots |-> IF i < n /\ name[i] # "none" THEN "freed" ELSE name[i]]
FreeNames(n) == IF \E i \in 0 .. n - 1 : name[i] = "freed" THEN {"freedName"} ELSE {}

-----------------------------------------------------------------------------
(* Operations *)

\* AudioManagerCreateIfInstance with AudioManagerLoadVendorLib: calloc,
\* dlopen, dlsym and the vendor's manager function succeed.  Each failure
\* returns NULL and leaves nothing the model tracks (the last one drops the
\* library handle without dlclose).
AudioManagerCreateIfInstance ==
    /\ mgr # "live"
    /\ mgr' = "live" /\ libOpen' = TRUE
    /\ hasDescs' = FALSE /\ descsCount' = 0
    /\ UNCHANGED <<name, loaded, misuse>>

\* AudioManagerVendorGetAllAdapters: release the descriptors it filled
\* before, ask the vendor for its descriptors (m of them, 0 being invalid),
\* convert them slot by slot (slot f's port array may fail to convert),
\* and remember the caller's array only on success.  A failed conversion
\* releases all DescLen slots of the caller's array.
AudioManagerVendorGetAllAdapters ==
    /\ mgr = "live"
    /\ LET cleared == IF hasDescs THEN ReleaseDescs(descsCount) ELSE name
           freeErr == IF hasDescs THEN FreeNames(descsCount) ELSE {}
       IN \/ /\ name' = cleared                            \* vendor call fails
             /\ misuse' = misuse \cup freeErr \cup VendorCall
             /\ UNCHANGED <<hasDescs, descsCount>>
          \/ \E m \in 0 .. DescLen, f \in 0 .. DescLen :
               LET filled == [i \in Slots |-> IF i < f /\ i < m THEN "live" ELSE cleared[i]]
                   failed == m = 0 \/ f < m
               IN /\ f <= m
                  /\ IF failed
                     THEN /\ name' = [i \in Slots |-> IF filled[i] # "none" THEN "freed" ELSE "none"]
                          /\ misuse' = misuse \cup freeErr \cup VendorCall \cup
                                 (IF \E i \in Slots : filled[i] = "freed" THEN {"freedName"} ELSE {})
                          /\ UNCHANGED <<hasDescs, descsCount>>
                     ELSE /\ name' = filled
                          /\ misuse' = misuse \cup freeErr \cup VendorCall
                          /\ hasDescs' = TRUE /\ descsCount' = m
    /\ UNCHANGED <<mgr, libOpen, loaded>>

\* AudioManagerVendorLoadAdapter(desc = &descs[i]): the vendor's
\* LoadAdapter, then AudioHwiCreateAdapter; if that fails the vendor adapter
\* is unloaded again.
AudioManagerVendorLoadAdapter(i) ==
    /\ mgr = "live" /\ i < descsCount
    /\ \E ok \in BOOLEAN : loaded' = [loaded EXCEPT ![i] = @ \/ ok]
    /\ misuse' = misuse \cup VendorCall
    /\ UNCHANGED <<mgr, libOpen, hasDescs, descsCount, name>>

\* The body of AudioManagerVendorUnloadAdapter for the adapter named as
\* slot j (j = descsCount: a name not in the list): the strcmp loop, then
\* the vendor's UnloadAdapter and AudioHwiReleaseAdapter if one is loaded.
UnloadSlot(j) ==
    /\ loaded' = IF j < descsCount THEN [loaded EXCEPT ![j] = FALSE] ELSE loaded
    /\ misuse' = misuse \cup ReadNames(IF j < descsCount THEN j + 1 ELSE descsCount)
                        \cup (IF j < descsCount /\ loaded[j] THEN VendorCall ELSE {})

AudioManagerVendorUnloadAdapter(j) ==
    /\ mgr = "live" /\ j <= descsCount
    /\ UnloadSlot(j)
    /\ UNCHANGED <<mgr, libOpen, hasDescs, descsCount, name>>

\* ReleaseAudioManagerVendorObject: dlclose first, then unload every
\* adapter of the list by name, release the descriptors and free priv.
ReleaseAudioManagerVendorObject ==
    /\ mgr = "live"
    /\ libOpen' = FALSE
    /\ LET unloadErr == ReadNames(descsCount) \cup
               (IF \E j \in 0 .. descsCount - 1 : loaded[j] THEN {"closedLib"} ELSE {})
       IN misuse' = misuse \cup unloadErr \cup FreeNames(descsCount)
    /\ loaded' = [i \in Slots |-> IF i < descsCount THEN FALSE ELSE loaded[i]]
    /\ name' = ReleaseDescs(descsCount)
    /\ mgr' = "freed"
    /\ UNCHANGED <<hasDescs, descsCount>>

Next ==
    \/ AudioManagerCreateIfInstance
    \/ AudioManagerVendorGetAllAdapters
    \/ \E i \in Slots : AudioManagerVendorLoadAdapter(i)
    \/ \E j \in 0 .. DescLen : AudioManagerVendorUnloadAdapter(j)
    \/ ReleaseAudioManagerVendorObject

Spec == Init /\ [][Next]_vars

-----------------------------------------------------------------------------
(* Properties *)

TypeOK ==
    /\ mgr \in {"none", "live", "freed"} /\ libOpen \in BOOLEAN
    /\ hasDescs \in BOOLEAN /\ descsCount \in 0 .. DescLen
    /\ name \in [Slots -> {"none", "live", "freed"}]
    /\ loaded \in [Slots -> BOOLEAN]
    /\ misuse \subseteq {"closedLib", "freedName"}

\* The manager never runs vendor code after dlclose and never reads or
\* frees an adapter name it already freed: release, unload and a repeated
\* GetAllAdapters only touch what is still there.
NoUseAfterRelease == misuse = {}
=============================================================================
