\* Two IPC threads and the PnP thread on one device address; up to two
\* HostDevice allocations (a re-plug) and two list releases per device.
CONSTANTS
    t1 = t1
    t2 = t2
    a1 = a1
    Threads = {t1, t2}
    Addrs = {a1}
    MaxAllocs = 2
    MaxGen = 2

SPECIFICATION Spec

\* After ~UsbImpl the service takes no more calls and no more events.
CHECK_DEADLOCK FALSE

INVARIANT NoDanglingUse
