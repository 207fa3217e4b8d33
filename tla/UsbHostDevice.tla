--------------------------- MODULE UsbHostDevice ---------------------------
(***************************************************************************)
(* The device registry of the USB host service (usb_impl.cpp) and the      *)
(* calls that borrow a HostDevice from it.  Every HDI call runs on an IPC  *)
(* thread of its own and starts with FindDevFromService, which scans       *)
(* devList_ under lock_ and returns the HostDevice after unlocking.  The   *)
(* PnP listener thread attaches and detaches devices; SetConfig (through   *)
(* ReOpenDevice) and SetInterface release the device's request lists, and  *)
(* a failed ReOpenDevice frees the device itself.                          *)
(*                                                                         *)
(* A HostDevice allocation is a number in Objs; a thread's borrowed        *)
(* pointer is that number.  The request lists of a device are abstracted   *)
(* to a generation poolGen that each release bumps: a sync request taken   *)
(* at one generation was freed once the generation moves on.  One          *)
(* interface (id 0) and two configurations and alternate settings are      *)
(* enough to reach every branch.                                           *)
(***************************************************************************)
EXTENDS Naturals

CONSTANTS
    Threads,     \* IPC threads calling the HDI
    Addrs,       \* device addresses on the one bus
    MaxAllocs,   \* bound on HostDevice allocations
    MaxGen       \* bound on request-list releases per device

Objs == 1 .. MaxAllocs
NoDev == 0                         \* nullptr
Configs == {0, 1}
Alts == {0, 1}
\* The calls a thread may make; each borrows a HostDevice.
Queries == {"devdesc", "strdesc", "cfgdesc", "rawdesc", "fd"}
Ops == {"open", "close", "getconfig", "setconfig", "claim", "release", "setif",
        "transfer"}
       \cup Queries

VARIABLES
    connected,   \* [Addrs -> BOOLEAN]: the device is plugged in
    hwConfig,    \* [Addrs -> Configs]: the device's active configuration
    devList,     \* HostDevices in devList_
    nalloc,      \* HostDevices allocated so far
    alive,       \* HostDevices allocated and not freed
    addrOf,      \* [Objs -> Addrs]: busNum/devAddr of each HostDevice
    initFlag,    \* [Objs -> BOOLEAN]
    claimed,     \* [Objs -> BOOLEAN]: iface[0] and devHandle[0] are open
    curAlt,      \* [Objs -> Alts]: iface[0]->info.curAltSetting
    poolGen,     \* [Objs -> 0..MaxGen]: releases of the request lists
    pc,          \* [Threads -> "idle" or the step the call is at]
    port,        \* [Threads -> Objs \cup {NoDev}]: the borrowed HostDevice
    arg,         \* [Threads -> Configs]: configIndex or altIndex of the call
    gen,         \* [Threads -> Nat]: poolGen when the sync request was taken
    scan,        \* addresses the start-up scan's reply still lists
    listening,   \* usbPnpListener_ is registered with the PnP notify service
    destroyed    \* ~UsbImpl has run

vars == <<connected, hwConfig, devList, nalloc, alive, addrOf, initFlag,
          claimed, curAlt, poolGen, pc, port, arg, gen, scan, listening,
          destroyed>>
devVars == <<initFlag, claimed, curAlt, poolGen>>
thrVars == <<pc, port, arg, gen>>
svcVars == <<listening, destroyed>>
regVars == <<connected, hwConfig, devList, nalloc, alive, addrOf, scan, svcVars>>

Init ==
    /\ connected = [a \in Addrs |-> FALSE]
    /\ hwConfig = [a \in Addrs |-> 0]
    /\ devList = {} /\ nalloc = 0 /\ alive = {}
    /\ addrOf = [o \in Objs |-> CHOOSE a \in Addrs : TRUE]
    /\ initFlag = [o \in Objs |-> FALSE]
    /\ claimed = [o \in Objs |-> FALSE]
    /\ curAlt = [o \in Objs |-> 0]
    /\ poolGen = [o \in Objs |-> 0]
    /\ pc = [t \in Threads |-> "idle"]
    /\ port = [t \in Threads |-> NoDev]
    /\ arg = [t \in Threads |-> 0]
    /\ gen = [t \in Threads |-> 0]
    /\ scan = {}
    /\ listening = FALSE /\ destroyed = FALSE

-----------------------------------------------------------------------------
(* Helpers *)

\* UsbdRequestSyncReleaseList, UsbdRequestASyncReleaseList and
\* UsbdBulkASyncListReleasePort: every request of the device is freed.
ReleaseLists(o) == poolGen' = [poolGen EXCEPT ![o] = @ + 1]

GenRoom(o) == poolGen[o] < MaxGen

\* The thread's call returns.
Return(t) == /\ pc' = [pc EXCEPT ![t] = "idle"]
             /\ port' = [port EXCEPT ![t] = NoDev]
             /\ UNCHANGED <<arg, gen>>

Goto(t, l) == pc' = [pc EXCEPT ![t] = l] /\ UNCHANGED <<port, arg, gen>>

\* A control transfer to the device can succeed only while it is plugged in.
CtrlOk(t, ok) == ok => connected[addrOf[port[t]]]

-----------------------------------------------------------------------------
(* PnP listener thread: UsbdPnpNotifyAddAndRemoveDevice *)

\* UsbdDeviceCreateAndAttach: allocate and initialise a HostDevice, open its
\* control pipe and put it in devList_; the allocation or the open (always,
\* for a device no longer plugged in) may fail.  No check for a HostDevice
\* of the same address is made.
CreateAndAttach(a, plugged) ==
    \/ /\ nalloc < MaxAllocs /\ plugged
       /\ LET o == nalloc + 1
          IN /\ nalloc' = o
             /\ alive' = alive \cup {o}
             /\ devList' = devList \cup {o}
             /\ addrOf' = [addrOf EXCEPT ![o] = a]
    \/ UNCHANGED <<nalloc, alive, devList, addrOf>>

\* UsbdDeviceDettach: take the device out of devList_, release it, free it.
DeviceDettach(a) ==
    LET gone == {o \in devList : addrOf[o] = a}
    IN /\ devList' = devList \ gone
       /\ alive' = alive \ gone
       /\ UNCHANGED <<nalloc, addrOf>>

PnpAdd(a) ==
    /\ ~connected[a]
    /\ connected' = [connected EXCEPT ![a] = TRUE]
    /\ hwConfig' = [hwConfig EXCEPT ![a] = 0]
    /\ CreateAndAttach(a, TRUE)
    /\ UNCHANGED <<devVars, thrVars, scan, svcVars>>

PnpRemove(a) ==
    /\ connected[a]
    /\ connected' = [connected EXCEPT ![a] = FALSE]
    /\ DeviceDettach(a)
    /\ UNCHANGED <<hwConfig, devVars, thrVars, scan, svcVars>>

\* A hub on the bus goes away: UsbdRemoveBusDev frees every device of the bus.
HubRemove ==
    /\ \E a \in Addrs : connected[a]
    /\ connected' = [a \in Addrs |-> FALSE]
    /\ devList' = {} /\ alive' = alive \ devList
    /\ UNCHANGED <<hwConfig, nalloc, addrOf, devVars, thrVars, scan, svcVars>>

\* UsbdPnpLoaderEventReceived: a gadget event only goes to the subscriber;
\* a device event goes to UsbdPnpNotifyAddAndRemoveDevice.  Events arrive
\* only while the listener is registered.
UsbdPnpLoaderEventReceived ==
    /\ listening
    /\ \/ \E a \in Addrs : PnpAdd(a) \/ PnpRemove(a)
       \/ HubRemove

\* UsbdAddDevicesOnStart: the USB_PNP_DRIVER_GETDEVICES call (which may
\* fail) returns the devices plugged in now.
UsbdAddDevicesOnStart(ok) ==
    scan' = IF ok THEN {a \in Addrs : connected[a]} ELSE {}

\* BindUsbdSubscriber on an IPC thread: set subscriber_ and start the scan.
\* A scan still running is not bound twice.
BindUsbdSubscriber ==
    /\ scan = {} /\ ~destroyed
    /\ \E ok \in BOOLEAN : UsbdAddDevicesOnStart(ok)
    /\ UNCHANGED <<connected, hwConfig, devList, nalloc, alive, addrOf, devVars,
                   thrVars, svcVars>>

\* HdfReadDevice: one device of the reply; a non-hub device is attached,
\* whether or not a PnP add has attached it already.
HdfReadDevice ==
    \E a \in scan :
        /\ scan' = scan \ {a}
        /\ CreateAndAttach(a, connected[a])
        /\ UNCHANGED <<connected, hwConfig, devVars, thrVars, svcVars>>

\* UsbdEventHandle: bind the PnP notify service and register the listener;
\* either call may fail.  A second call binds again and leaves the first
\* registration in place.
UsbdEventHandle ==
    /\ ~destroyed
    /\ \E ok \in BOOLEAN : listening' = (listening \/ ok)
    /\ UNCHANGED <<connected, hwConfig, devList, nalloc, alive, addrOf, scan,
                   devVars, thrVars, destroyed>>

\* UsbdEventHandleRelease: unregister the listener and recycle the service.
UsbdEventHandleRelease ==
    /\ ~destroyed
    /\ listening' = FALSE
    /\ UNCHANGED <<connected, hwConfig, devList, nalloc, alive, addrOf, scan,
                   devVars, thrVars, destroyed>>

\* ~UsbImpl calls UsbdReleaseDevices, which pops every HostDevice of
\* devList_ under lock_, releases and frees it.  The object is destroyed
\* only when no IPC call holds it; the model also takes the driver to have
\* released the listener first, as the destructor itself does not.
UsbdReleaseDevices ==
    /\ ~destroyed /\ ~listening /\ scan = {}
    /\ \A t \in Threads : pc[t] = "idle"
    /\ devList' = {} /\ alive' = alive \ devList
    /\ destroyed' = TRUE
    /\ UNCHANGED <<connected, hwConfig, nalloc, addrOf, scan, listening, devVars,
                   thrVars>>

-----------------------------------------------------------------------------
(* IPC threads *)

\* FindDevFromService and the dispatch to the call's first step.  A miss
\* returns HDF_DEV_ERR_NO_DEVICE and changes nothing.
FindDevFromService(t, a, op, x) ==
    /\ pc[t] = "idle" /\ ~destroyed
    /\ \E o \in devList :
        /\ addrOf[o] = a
        /\ port' = [port EXCEPT ![t] = o]
    /\ pc' = [pc EXCEPT ![t] = op]
    /\ arg' = [arg EXCEPT ![t] = x]
    /\ UNCHANGED <<gen, connected, hwConfig, devList, nalloc, alive, addrOf, devVars,
                   scan, svcVars>>

\* OpenDevice and CloseDevice only set the borrowed device's initFlag.
OpenDevice(t) ==
    /\ pc[t] = "open"
    /\ initFlag' = [initFlag EXCEPT ![port[t]] = TRUE]
    /\ Return(t)
    /\ UNCHANGED <<regVars, claimed, curAlt, poolGen>>

CloseDevice(t) ==
    /\ pc[t] = "close"
    /\ initFlag' = [initFlag EXCEPT ![port[t]] = FALSE]
    /\ Return(t)
    /\ UNCHANGED <<regVars, claimed, curAlt, poolGen>>

\* GetConfig: one control transfer on the device's control handle.
GetConfig(t) ==
    /\ pc[t] = "getconfig"
    /\ Return(t)
    /\ UNCHANGED <<regVars, devVars>>

\* SetConfig, first transfer: read the active configuration; an error or
\* the same configuration returns.
SetConfigGetOld(t) ==
    /\ pc[t] = "setconfig"
    /\ \E ok \in BOOLEAN :
        /\ CtrlOk(t, ok)
        /\ IF ok /\ hwConfig[addrOf[port[t]]] # arg[t]
           THEN Goto(t, "sc_set") ELSE Return(t)
    /\ UNCHANGED <<regVars, devVars>>

\* SetConfig, second transfer: SET_CONFIGURATION.
SetConfigSet(t) ==
    /\ pc[t] = "sc_set"
    /\ \E ok \in BOOLEAN :
        /\ CtrlOk(t, ok)
        /\ IF ok THEN /\ hwConfig' = [hwConfig EXCEPT ![addrOf[port[t]]] = arg[t]]
                      /\ Goto(t, "sc_verify")
                 ELSE /\ UNCHANGED hwConfig
                      /\ Return(t)
    /\ UNCHANGED <<connected, devList, nalloc, alive, addrOf, devVars, scan,
                   svcVars>>

\* SetConfig, third transfer: read back and compare; a non-zero
\* configuration goes on to ReOpenDevice.
SetConfigVerify(t) ==
    /\ pc[t] = "sc_verify"
    /\ \E ok \in BOOLEAN :
        /\ CtrlOk(t, ok)
        /\ IF ok /\ hwConfig[addrOf[port[t]]] = arg[t] /\ arg[t] # 0
           THEN Goto(t, "ro_release") ELSE Return(t)
    /\ UNCHANGED <<regVars, devVars>>

\* ReOpenDevice: UsbdRelease frees every request and closes the interfaces,
\* then the mutexes and lists are initialised again.
ReOpenRelease(t) ==
    /\ pc[t] = "ro_release" /\ GenRoom(port[t])
    /\ ReleaseLists(port[t])
    /\ claimed' = [claimed EXCEPT ![port[t]] = FALSE]
    /\ Goto(t, "ro_init")
    /\ UNCHANGED <<regVars, initFlag, curAlt>>

\* ReOpenDevice: UsbdInit; on failure the device is released, removed from
\* devList_ and freed.
ReOpenInit(t) ==
    /\ pc[t] = "ro_init"
    /\ \E ok \in BOOLEAN :
        IF ok THEN /\ initFlag' = [initFlag EXCEPT ![port[t]] = TRUE]
                   /\ UNCHANGED <<devList, alive>>
              ELSE /\ devList' = devList \ {port[t]}
                   /\ alive' = alive \ {port[t]}
                   /\ UNCHANGED initFlag
    /\ Return(t)
    /\ UNCHANGED <<connected, hwConfig, nalloc, addrOf, claimed, curAlt, poolGen,
                   scan, svcVars>>

\* ClaimInterface: open iface[0] and devHandle[0] unless already open.
ClaimInterface(t) ==
    /\ pc[t] = "claim"
    /\ \E ok \in BOOLEAN :
        /\ CtrlOk(t, ok)
        /\ claimed' = [claimed EXCEPT ![port[t]] = @ \/ ok]
    /\ Return(t)
    /\ UNCHANGED <<regVars, initFlag, curAlt, poolGen>>

\* ReleaseInterface only checks the interface id: the interface stays
\* claimed and its handles open.
ReleaseInterface(t) ==
    /\ pc[t] = "release"
    /\ Return(t)
    /\ UNCHANGED <<regVars, devVars>>

\* SetInterface: needs the interface handle; the current alternate setting
\* returns; a successful UsbSelectInterfaceSetting releases every list.
SetInterface(t) ==
    /\ pc[t] = "setif"
    /\ LET o == port[t] IN
       IF claimed[o] /\ curAlt[o] # arg[t]
       THEN \E ok \in BOOLEAN :
              /\ CtrlOk(t, ok)
              /\ IF ok THEN /\ GenRoom(o)
                            /\ curAlt' = [curAlt EXCEPT ![o] = arg[t]]
                            /\ ReleaseLists(o)
                       ELSE UNCHANGED <<curAlt, poolGen>>
       ELSE UNCHANGED <<curAlt, poolGen>>
    /\ Return(t)
    /\ UNCHANGED <<regVars, initFlag, claimed>>

\* A sync transfer (BulkTransferRead and the like), first step:
\* UsbdFindRequestSyncAndCreat finds the pipe's request or creates one; it
\* needs the claimed interface, and creating may fail.
TransferFindRequest(t) ==
    /\ pc[t] = "transfer"
    /\ \E ok \in BOOLEAN :
        IF ok /\ claimed[port[t]]
        THEN /\ gen' = [gen EXCEPT ![t] = poolGen[port[t]]]
             /\ pc' = [pc EXCEPT ![t] = "tr_io"]
             /\ UNCHANGED <<port, arg>>
        ELSE Return(t)
    /\ UNCHANGED <<regVars, devVars>>

\* GetDeviceDescriptor, GetStringDescriptor and GetConfigDescriptor run one
\* control transfer on the device; GetRawDescriptor and GetFileDescriptor
\* read its ctrDevHandle under the handle's lock.
Query(t, q) ==
    /\ pc[t] = q
    /\ Return(t)
    /\ UNCHANGED <<regVars, devVars>>

GetDeviceDescriptor(t) == Query(t, "devdesc")
GetStringDescriptor(t) == Query(t, "strdesc")
GetConfigDescriptor(t) == Query(t, "cfgdesc")
GetRawDescriptor(t) == Query(t, "rawdesc")
GetFileDescriptor(t) == Query(t, "fd")

\* The transfer itself, on the request found (UsbdBulkReadSyncBase etc.).
TransferIo(t) ==
    /\ pc[t] = "tr_io"
    /\ Return(t)
    /\ UNCHANGED <<regVars, devVars>>

-----------------------------------------------------------------------------
ThreadStep(t) ==
    \/ OpenDevice(t) \/ CloseDevice(t) \/ GetConfig(t)
    \/ SetConfigGetOld(t) \/ SetConfigSet(t) \/ SetConfigVerify(t)
    \/ ReOpenRelease(t) \/ ReOpenInit(t)
    \/ ClaimInterface(t) \/ ReleaseInterface(t) \/ SetInterface(t)
    \/ TransferFindRequest(t) \/ TransferIo(t)
    \/ GetDeviceDescriptor(t) \/ GetStringDescriptor(t) \/ GetConfigDescriptor(t)
    \/ GetRawDescriptor(t) \/ GetFileDescriptor(t)

Next ==
    \/ UsbdPnpLoaderEventReceived
    \/ BindUsbdSubscriber \/ HdfReadDevice
    \/ UsbdEventHandle \/ UsbdEventHandleRelease \/ UsbdReleaseDevices
    \/ \E t \in Threads, a \in Addrs, op \in Ops, x \in Configs :
         FindDevFromService(t, a, op, x)
    \/ \E t \in Threads : ThreadStep(t)

Spec == Init /\ [][Next]_vars

-----------------------------------------------------------------------------
(* Properties *)

Pcs == Ops \cup {"idle", "sc_set", "sc_verify", "ro_release", "ro_init", "tr_io"}

TypeOK ==
    /\ connected \in [Addrs -> BOOLEAN]
    /\ hwConfig \in [Addrs -> Configs]
    /\ devList \subseteq alive /\ alive \subseteq 1 .. nalloc
    /\ nalloc \in 0 .. MaxAllocs
    /\ addrOf \in [Objs -> Addrs]
    /\ initFlag \in [Objs -> BOOLEAN] /\ claimed \in [Objs -> BOOLEAN]
    /\ curAlt \in [Objs -> Alts] /\ poolGen \in [Objs -> 0 .. MaxGen]
    /\ pc \in [Threads -> Pcs]
    /\ port \in [Threads -> Objs \cup {NoDev}]
    /\ arg \in [Threads -> Configs] /\ gen \in [Threads -> 0 .. MaxGen]
    /\ scan \subseteq Addrs
    /\ listening \in BOOLEAN /\ destroyed \in BOOLEAN

\* Every pointer a call dereferences after FindDevFromService is live: the
\* borrowed HostDevice has not been freed by a hot-plug remove or by another
\* call's failed ReOpenDevice, and the sync request a transfer took has not
\* been freed by another call's SetInterface or ReOpenDevice.
NoDanglingUse ==
    \A t \in Threads :
        /\ pc[t] # "idle" => port[t] \in alive
        /\ pc[t] = "tr_io" => gen[t] = poolGen[port[t]]
=============================================================================
