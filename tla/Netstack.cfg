\* Two neighbours with two link addresses for two cache entries, two hosts to ask for, one with an
\* overlong name, and one in the table, two OFFERs; two attempts and two queries, and an interface
\* table of two.
CONSTANTS
    Hosts = {"example.com", "a.org", "an overlong name"}
    Overlong = {"an overlong name"}
    Spill <- TailOf
    Continues <- OnlyTail
    static_dns <- StaticTable
    Address <- Addresses
    Literals <- OneLiteral
    Offers <- Answers
    dhcp_xid = "ours"
    Neighbours <- LocalNeighbours
    Macs = {"m1", "m2"}
    ARP_CACHE_SIZE = 2
    MAX_INTERFACES = 2
    Attempts = 2
    Retries = 2
SPECIFICATION FairSpec
INVARIANTS SettingsOffered NextHopAnnounced ConnectsOnline ResolvedToHost
PROPERTY CommandsReturn
