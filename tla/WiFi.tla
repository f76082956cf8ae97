--------------------------------- MODULE WiFi ---------------------------------
(***************************************************************************)
(* The two questions a scan asks of the system: whether the phone is on    *)
(* Wi-Fi (WiFiCheck.swift over Reachability.m) and what its Wi-Fi address  *)
(* is (IPAddress.swift, and getIPPrefix of LANScanner.swift).  Neither     *)
(* keeps a state, and each looks at the network anew, so the answers to    *)
(* the two need not fit together.                                          *)
(*                                                                         *)
(* An address is the sequence of its components between dots, where the    *)
(* first three of an IPv4 address, which name its subnet, are one.  What   *)
(* the code makes of an IPv6 address, a text without a dot or an empty one *)
(* when getnameinfo fails, is one component.  A nil has none.              *)
(***************************************************************************)
EXTENDS Naturals, Sequences

CONSTANT Entries   \* bound: how many addresses getifaddrs lists

ASSUME EntriesAssumption == Entries \in Nat

\* SCNetworkReachabilityFlags; the empty set also stands for a reachability object
\* that cannot be made and flags that cannot be read.
Flags == {"Reachable", "ConnectionRequired", "ConnectionOnDemand",
          "ConnectionOnTraffic", "InterventionRequired", "IsWWAN"}

\* networkStatusForFlags: a mobile connection overrules the two ways to be on Wi-Fi.
networkStatusForFlags(flags) ==
  IF "Reachable" \notin flags THEN "NotReachable"
  ELSE IF "IsWWAN" \in flags THEN "ReachableViaWWAN"
  ELSE IF \/ "ConnectionRequired" \notin flags
          \/ /\ flags \cap {"ConnectionOnDemand", "ConnectionOnTraffic"} # {}
             /\ "InterventionRequired" \notin flags
  THEN "ReachableViaWiFi"
  ELSE "NotReachable"

isOnWiFi(flags) == networkStatusForFlags(flags) = "ReachableViaWiFi"

\* What getifaddrs lists: addresses of the loopback, the mobile and the Wi-Fi
\* interface.  A list that cannot be had is empty.
Subnet == [lo0 |-> "127.0.0", pdp_ip0 |-> "10.0.0", en0 |-> "192.168.1"]
AddressFamilies == {"inet", "inet6"}
Interfaces == {[name |-> "lo0", family |-> "inet"], [name |-> "pdp_ip0", family |-> "inet"]}
              \cup [name : {"en0"}, family : AddressFamilies \cup {"link"}]

InterfaceLists == UNION {[1 .. n -> Interfaces] : n \in 0 .. Entries}

NoAddress == <<>>
hostname(interface) ==
  IF interface.family = "inet" THEN <<Subnet[interface.name], "7">> ELSE <<"fe80::7">>

\* The last of the entries found stays, as each overwrites the one before it.
addressOfLast(list, found) ==
  IF found = {} THEN NoAddress
  ELSE hostname(list[CHOOSE i \in found : \A j \in found : j <= i])

\* mutant: the name of the interface is not looked at
getWiFiAddressOfAny(list) ==
  addressOfLast(list, {i \in DOMAIN list : list[i].family \in AddressFamilies})

\* getWiFiAddress goes through the whole list: an address of en0, IPv4 or IPv6.
getWiFiAddress(list) ==
  addressOfLast(list, {i \in DOMAIN list : /\ list[i].family \in AddressFamilies
                                          /\ list[i].name = "en0"})

\* getIPPrefix: the address without its last component, which leaves nothing of one
\* that is not IPv4.
NO_WIFI_ADDRESS == <<"NO_WIFI_ADDRESS">>
getIPPrefix(list) ==
  LET ip == getWiFiAddress(list) IN
  IF ip = NoAddress THEN NO_WIFI_ADDRESS ELSE SubSeq(ip, 1, Len(ip) - 1)
=============================================================================
