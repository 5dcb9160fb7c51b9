\* What get_mac returns without an interface.
SPECIFICATION ArpSpec
CONSTANTS
    IPNUM = 1
    Names = {ne0}
    zero = zero
    a = a
    b = b
    none = none
    IPs <- Hosts
    Zero <- zero
    NetOf <- Networks
    Macs = {m1}
    MAX_IP_TABLE = 1
    ARP_LIVETIME = 1
    None <- none
INVARIANTS NoNicIsZero
