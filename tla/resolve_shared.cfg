\* Two devices on one host (two ports, or two paths).
SPECIFICATION Spec
CONSTANTS
    d1 = d1
    d2 = d2
    hostA = hostA
    hostB = hostB
    x = x
    y = y
    Devices <- TwoDevices
    Hosts <- TwoHosts
    Addrs <- TwoAddrs
    HostOf <- SharedHost
    None = none
INVARIANTS
    LiveIsKnown
