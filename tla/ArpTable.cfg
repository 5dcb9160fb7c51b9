\* A table that is full, two devices that go up and down.
SPECIFICATION ArpSpec
CONSTANTS
    IPNUM = 2
    Names = {ne0, ne1}
    zero = zero
    a = a
    b = b
    none = none
    IPs <- Hosts
    Zero <- zero
    NetOf <- Networks
    Macs = {m1, m2}
    MAX_IP_TABLE = 2
    ARP_LIVETIME = 2
    None <- none
SYMMETRY Alike
INVARIANTS OneSlotPerDevice AnswersNewest
