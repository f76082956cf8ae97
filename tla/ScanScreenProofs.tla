--------------------------- MODULE ScanScreenProofs ---------------------------
(***************************************************************************)
(* The scan screen and the pipeline behind it, for every set of hosts,     *)
(* every number of scans and every list of network interfaces.             *)
(*                                                                         *)
(* The inductive invariant has one part about a scan, which says what its  *)
(* stage tells of its pings, names and vendors, one about the addresses it *)
(* was begun with, and one about the screen: only its latest scan can be   *)
(* unfinished, and its buttons tell whether it is.                         *)
(***************************************************************************)
EXTENDS ScanScreen, FiniteSetTheorems, WellFoundedInduction, TLAPS

\* No manufacturer has been asked for.
NotAsked(s) == \A h \in Hosts : vendor[s][h] = "none"

\* Every ping has started and no report is missing.
AllReported(s) == \A h \in Hosts : ping[s][h] \in {"found", "notFound"}

\* What the stage of a scan tells of its hosts.
StageTells(s) ==
  /\ stage[s] = "idle" =>
       (\A h \in Hosts : ping[s][h] = "idle") /\ named[s] = {} /\ NotAsked(s)
  /\ stage[s] = "pinging" =>
       /\ \A h \in Hosts : ping[s][h] # "idle"
       /\ Pending(ping[s]) # {} /\ named[s] = {} /\ NotAsked(s)
  /\ stage[s] = "naming" =>
       /\ AllReported(s) /\ NotAsked(s)
       /\ named[s] \subseteq Found(ping[s]) /\ named[s] # Found(ping[s])
  /\ stage[s] \in {"vendors", "delivered"} =>
       /\ AllReported(s) /\ named[s] = Found(ping[s])
       /\ \A h \in Hosts : vendor[s][h] # "none" => h \in Found(ping[s])
  /\ stage[s] = "delivered" =>
       rows[s] = Found(ping[s]) /\ Answered(vendor[s], Found(ping[s]))
  /\ stage[s] = "dead" =>
       Found(ping[s]) = {} /\ Pending(ping[s]) = {} /\ NotAsked(s)

\* The inductive invariant of the pipeline.
PipelineInv == TypeOK /\ \A s \in Scans : StageTells(s) /\ OnWiFi(s)

\* The scans were started in order, and all but the latest are delivered.
OnlyLatestRuns ==
  /\ \A s \in Scans : stage[s] = "idle" <=> s > subscribed
  /\ \A s \in Scans : s < subscribed => stage[s] = "delivered"

\* The start button is there until the first scan, and the other one from then on.
StartIsFirst ==
  /\ startButton = "shown" <=> scanButton = "hidden"
  /\ startButton = "shown" => subscribed = 0 /\ foundHosts = <<>>

\* The inductive invariant of the screen.
IInv ==
  /\ PipelineInv /\ ScreenTypeOK /\ OnlyLatestRuns /\ StartIsFirst
  /\ ButtonTracksScan /\ RowsAreLatest /\ ScanningIsShown

-----------------------------------------------------------------------------
(* Lists in order and lists of interfaces *)

\* Of two numbers of a finite set the larger has more of the set up to it.
LEMMA UpToGrows ==
  ASSUME NEW S \in SUBSET Nat, IsFiniteSet(S), NEW m \in S, NEW n \in S, m < n
  PROVE  Cardinality(UpTo(S, m)) < Cardinality(UpTo(S, n))
<1>1. UpTo(S, n) \in SUBSET S /\ UpTo(S, m) \in SUBSET UpTo(S, n)
  <2>1. m \in Nat /\ n \in Nat /\ \A x \in S : x \in Nat
    OBVIOUS
  <2>2. \A x \in UpTo(S, m) : x \in S /\ x <= m
    BY DEF UpTo
  <2>3. \A x \in S : x <= m => x <= n
    BY <2>1
  <2>4. \A x \in UpTo(S, m) : x \in S /\ x <= n
    BY <2>2, <2>3
  <2> QED BY <2>4 DEF UpTo
<1>2. IsFiniteSet(UpTo(S, n)) /\ IsFiniteSet(UpTo(S, m))
  BY <1>1, FS_Subset
<1>3. UpTo(S, m) # UpTo(S, n)
  BY DEF UpTo
<1>4. /\ Cardinality(UpTo(S, m)) <= Cardinality(UpTo(S, n))
      /\ Cardinality(UpTo(S, m)) # Cardinality(UpTo(S, n))
  BY <1>1, <1>2, <1>3, FS_Subset
<1>5. Cardinality(UpTo(S, m)) \in Nat /\ Cardinality(UpTo(S, n)) \in Nat
  BY <1>2, FS_CardinalityType
<1> QED
  BY <1>4, <1>5

\* Every place of the list has its element: the numbers of elements up to those of
\* the set are as many as the set has elements.
LEMMA InOrderIsSeq ==
  ASSUME NEW S \in SUBSET Nat, IsFiniteSet(S)
  PROVE  InOrder(S) \in Seq(S) /\ Len(InOrder(S)) = Cardinality(S)
<1> DEFINE size == Cardinality(S)
           rank == [n \in S |-> Cardinality(UpTo(S, n))]
<1>1. size \in Nat /\ IsFiniteSet(1 .. size) /\ Cardinality(1 .. size) = size
  BY FS_CardinalityType, FS_Interval
<1>2. ASSUME NEW n \in S PROVE rank[n] \in 1 .. size
  <2>1. UpTo(S, n) \in SUBSET S /\ n \in UpTo(S, n)
    BY DEF UpTo
  <2>2. IsFiniteSet(UpTo(S, n)) /\ Cardinality(UpTo(S, n)) <= size
    BY <2>1, FS_Subset
  <2>3. Cardinality(UpTo(S, n)) \in Nat /\ Cardinality(UpTo(S, n)) # 0
    BY <2>1, <2>2, FS_CardinalityType, FS_EmptySet
  <2> QED BY <1>1, <2>2, <2>3
<1>3. ASSUME NEW m \in S, NEW n \in S, rank[m] = rank[n] PROVE m = n
  <2>1. m \in Nat /\ n \in Nat /\ rank[m] \in Nat
    BY <1>2
  <2>2. ~(m < n) /\ ~(n < m)
    BY <1>3, <2>1, UpToGrows
  <2> QED BY <2>1, <2>2
<1>4. rank \in Injection(S, 1 .. size)
  BY <1>2, <1>3 DEF Injection, IsInjective
<1>5. rank \in Surjection(S, 1 .. size)
  BY <1>1, <1>4, FS_Injection
<1>6. ASSUME NEW i \in 1 .. size PROVE \E n \in S : Cardinality(UpTo(S, n)) = i
  BY <1>5 DEF Surjection
<1>7. InOrder(S) \in [1 .. size -> S]
  BY <1>6 DEF InOrder
<1> QED
  BY <1>1, <1>7

\* A set of places of a list that is not empty has a last one.
LEMMA LastPlace ==
  ASSUME NEW n \in Nat, NEW found \in SUBSET (1 .. n), found # {}
  PROVE  \E i \in found : \A j \in found : j <= i
<1> DEFINE bounds == {b \in Nat : \A j \in found : j <= b}
<1>1. n \in bounds /\ bounds \subseteq Nat
  OBVIOUS
<1>2. PICK b \in bounds : \A c \in bounds : <<c, b>> \notin OpToRel(<, Nat)
  BY <1>1, NatLessThanWellFounded, WFMin
<1>3. \A c \in bounds : b <= c
  <2>1. \A c \in bounds : ~(c < b)
    BY <1>1, <1>2 DEF OpToRel
  <2> QED BY <1>1, <2>1
<1>4. b \in found
  <2> SUFFICES ASSUME b \notin found PROVE FALSE
    OBVIOUS
  <2>1. \A j \in found : j \in Nat /\ j >= 1 /\ j <= b /\ j # b
    OBVIOUS
  <2>2. b \in Nat /\ b >= 1 /\ b - 1 \in Nat
    <3>1. PICK j \in found : TRUE
      OBVIOUS
    <3> QED BY <2>1, <3>1
  <2>3. \A j \in found : j <= b - 1
    BY <2>1, <2>2
  <2>4. b - 1 \in bounds
    BY <2>2, <2>3
  <2> QED BY <1>3, <2>2, <2>4
<1> QED
  BY <1>4

\* The families of en0's addresses in a list.
WiFiFamilies(list) ==
  {f \in AddressFamilies : \E i \in DOMAIN list : list[i] = [name |-> "en0", family |-> f]}

WiFiSubnet == <<Subnet["en0"]>>

\* The prefix of a scan's addresses is that of some address of en0, and none when
\* en0 has no address.
LEMMA PrefixOfWiFi ==
  ASSUME NEW list \in InterfaceLists
  PROVE  \/ getIPPrefix(list) = NO_WIFI_ADDRESS /\ WiFiFamilies(list) = {}
         \/ getIPPrefix(list) = WiFiSubnet /\ "inet" \in WiFiFamilies(list)
         \/ getIPPrefix(list) = <<>> /\ "inet6" \in WiFiFamilies(list)
<1> DEFINE found == {i \in DOMAIN list : /\ list[i].family \in AddressFamilies
                                         /\ list[i].name = "en0"}
           last == CHOOSE i \in found : \A j \in found : j <= i
<1>1. PICK n \in Nat : list \in [1 .. n -> Interfaces]
  BY EntriesAssumption DEF InterfaceLists
<1>2. CASE found = {}
  <2>1. getIPPrefix(list) = NO_WIFI_ADDRESS
    BY <1>2 DEF getIPPrefix, getWiFiAddress, addressOfLast
  <2>2. WiFiFamilies(list) = {}
    BY <1>2 DEF WiFiFamilies
  <2> QED BY <2>1, <2>2
<1>3. CASE found # {}
  <2>1. last \in found
    BY <1>1, <1>3, LastPlace
  <2>2. getWiFiAddress(list) = hostname(list[last])
    BY <1>3 DEF getWiFiAddress, addressOfLast
  <2> HIDE DEF last
  <2>3. list[last] \in Interfaces /\ list[last].name = "en0"
    BY <1>1, <2>1
  <2>4. \/ list[last] = [name |-> "en0", family |-> "inet"]
        \/ list[last] = [name |-> "en0", family |-> "inet6"]
    BY <2>1, <2>3 DEF Interfaces, AddressFamilies
  <2>5. CASE list[last] = [name |-> "en0", family |-> "inet6"]
    <3>1. getWiFiAddress(list) = <<"fe80::7">>
      BY <2>2, <2>5 DEF hostname
    <3>2. getIPPrefix(list) = <<>>
      BY <3>1 DEF getIPPrefix, NoAddress
    <3>3. "inet6" \in WiFiFamilies(list)
      BY <2>1, <2>5 DEF WiFiFamilies, AddressFamilies
    <3> QED BY <3>2, <3>3
  <2>6. CASE list[last] = [name |-> "en0", family |-> "inet"]
    <3>1. getWiFiAddress(list) = <<Subnet["en0"], "7">>
      BY <2>2, <2>6 DEF hostname
    <3>2. ASSUME NEW ip, NEW a, ip = <<a, "7">> PROVE SubSeq(ip, 1, Len(ip) - 1) = <<a>>
      <4>1. Len(ip) - 1 = 1 /\ ip \in Seq({a, "7"}) /\ ip[1] = a
        BY <3>2
      <4>2. SubSeq(ip, 1, 1) \in Seq({a, "7"}) /\ Len(SubSeq(ip, 1, 1)) = 1
        BY <4>1, <3>2
      <4>3. SubSeq(ip, 1, 1)[1] = a
        BY <4>1, <3>2
      <4>4. ASSUME NEW T, NEW s \in Seq(T), Len(s) = 1, s[1] = a PROVE s = <<a>>
        BY <4>4
      <4>5. SubSeq(ip, 1, 1) = <<a>>
        BY <4>2, <4>3, <4>4
      <4> QED BY <4>1, <4>5
    <3>3. getIPPrefix(list) = WiFiSubnet
      BY <3>1, <3>2 DEF getIPPrefix, NoAddress, WiFiSubnet
    <3>4. "inet" \in WiFiFamilies(list)
      BY <2>1, <2>6 DEF WiFiFamilies, AddressFamilies
    <3> QED BY <3>3, <3>4
  <2> QED BY <2>4, <2>5, <2>6
<1> QED
  BY <1>2, <1>3

-----------------------------------------------------------------------------
(* The pipeline *)

SameScan(t) ==
  /\ prefix'[t] = prefix[t] /\ wifi'[t] = wifi[t] /\ stage'[t] = stage[t]
  /\ ping'[t] = ping[t] /\ named'[t] = named[t] /\ vendor'[t] = vendor[t]
  /\ rows'[t] = rows[t]

OthersSame(s) == \A t \in Scans : t # s => SameScan(t)

LEMMA OneScanMoves ==
  ASSUME PipelineInv, NEW s \in Scans, TypeOK', OthersSame(s),
         StageTells(s)', OnWiFi(s)'
  PROVE  PipelineInv'
<1>1. ASSUME NEW t \in Scans, t # s PROVE StageTells(t)' /\ OnWiFi(t)'
  <2>1. SameScan(t) /\ StageTells(t) /\ OnWiFi(t)
    BY <1>1 DEF OthersSame, PipelineInv
  <2> QED
    BY <2>1 DEF SameScan, StageTells, OnWiFi, NotAsked, AllReported, Found,
                Pending, Answered
<1> QED
  BY <1>1 DEF PipelineInv

LEMMA PipelineInit == Init => PipelineInv
<1> SUFFICES ASSUME Init PROVE PipelineInv
  OBVIOUS
<1>1. TypeOK
  BY DEF Init, TypeOK, IPPrefixes, Stages, PingResults, VendorSteps
<1>2. ASSUME NEW s \in Scans PROVE StageTells(s) /\ OnWiFi(s)
  <2>1. /\ stage[s] = "idle" /\ named[s] = {}
        /\ NotAsked(s) /\ \A h \in Hosts : ping[s][h] = "idle"
    BY DEF Init, NotAsked
  <2> QED BY <2>1 DEF StageTells, OnWiFi
<1> QED
  BY <1>1, <1>2 DEF PipelineInv

\* A scan that begins waits for its pings, or is dead when there is none to wait for.
LEMMA BeginInv ==
  ASSUME PipelineInv, NEW s \in Scans, scanNetworkForHosts(s)
  PROVE  /\ PipelineInv' /\ OthersSame(s)
         /\ stage[s] = "idle" /\ stage'[s] \in {"pinging", "dead"}
<1>1. PICK list \in InterfaceLists :
        /\ prefix' = [prefix EXCEPT ![s] = getIPPrefix(list)]
        /\ wifi' = [wifi EXCEPT ![s] = WiFiFamilies(list)]
  BY DEF scanNetworkForHosts, WiFiFamilies
<1>2. /\ stage[s] = "idle" /\ UNCHANGED <<named, vendor, rows>>
      /\ \A h \in Hosts : ping[s][h] = "idle"
      /\ named[s] = {} /\ NotAsked(s)
  BY DEF scanNetworkForHosts, PipelineInv, StageTells
<1>3. \/ prefix'[s] = NO_WIFI_ADDRESS /\ wifi'[s] = {}
      \/ prefix'[s] = WiFiSubnet /\ "inet" \in wifi'[s]
      \/ prefix'[s] = <<>> /\ "inet6" \in wifi'[s]
  <2>1. prefix'[s] = getIPPrefix(list) /\ wifi'[s] = WiFiFamilies(list)
    BY <1>1 DEF PipelineInv, TypeOK
  <2> QED BY <2>1, PrefixOfWiFi
<1>4. /\ prefix' \in [Scans -> IPPrefixes]
      /\ wifi' \in [Scans -> SUBSET AddressFamilies]
  <2>1. prefix'[s] \in IPPrefixes
    BY <1>3 DEF IPPrefixes, WiFiSubnet, Subnet
  <2>2. WiFiFamilies(list) \in SUBSET AddressFamilies
    BY DEF WiFiFamilies
  <2> QED BY <1>1, <2>1, <2>2 DEF PipelineInv, TypeOK
<1>5. CASE prefix'[s] = NO_WIFI_ADDRESS
  <2>1. stage' = [stage EXCEPT ![s] = "dead"] /\ UNCHANGED ping
    BY <1>5 DEF scanNetworkForHosts
  <2>2. stage'[s] = "dead" /\ TypeOK' /\ OthersSame(s)
    BY <1>1, <1>2, <1>4, <2>1 DEF PipelineInv, TypeOK, Stages, OthersSame, SameScan
  <2>3. Found(ping[s])' = {} /\ Pending(ping[s])' = {} /\ NotAsked(s)'
    BY <1>2, <2>1 DEF Found, Pending, NotAsked
  <2>4. StageTells(s)'
    BY <2>2, <2>3 DEF StageTells
  <2>5. wifi'[s] = {}
    BY <1>3, <1>5 DEF NO_WIFI_ADDRESS, WiFiSubnet, Subnet
  <2>6. OnWiFi(s)'
    BY <1>2, <1>5, <2>1, <2>5 DEF OnWiFi
  <2> QED BY <1>2, <2>2, <2>4, <2>6, OneScanMoves
<1>6. CASE prefix'[s] # NO_WIFI_ADDRESS
  <2>1. PICK refused \in SUBSET Hosts :
          LET pings == [h \in Hosts |-> IF h \in refused THEN "notFound" ELSE "pending"]
          IN  /\ ping' = [ping EXCEPT ![s] = pings]
              /\ stage' = [stage EXCEPT ![s] = stageOfPings(pings)]
    BY <1>6 DEF scanNetworkForHosts
  <2> DEFINE pings == [h \in Hosts |-> IF h \in refused THEN "notFound" ELSE "pending"]
  <2>2. /\ pings \in [Hosts -> PingResults] /\ Found(pings) = {}
        /\ \A h \in Hosts : pings[h] # "idle"
    BY DEF PingResults, Found
  <2>3. ping' = [ping EXCEPT ![s] = pings] /\ stage' = [stage EXCEPT ![s] = stageOfPings(pings)]
    BY <2>1
  <2> HIDE DEF pings
  <2>4. /\ ping'[s] = pings
        /\ stage'[s] = IF Pending(pings) # {} THEN "pinging" ELSE "dead"
    BY <2>2, <2>3 DEF PipelineInv, TypeOK, stageOfPings
  <2>5. TypeOK' /\ OthersSame(s)
    BY <1>1, <1>2, <1>4, <2>2, <2>3, <2>4
       DEF PipelineInv, TypeOK, Stages, OthersSame, SameScan
  <2>6. named'[s] = {} /\ NotAsked(s)'
    BY <1>2 DEF NotAsked
  <2>7. StageTells(s)'
    BY <2>2, <2>4, <2>6 DEF StageTells
  <2>8. OnWiFi(s)'
    BY <1>3, <1>6, <2>2, <2>4 DEF OnWiFi, WiFiSubnet
  <2> QED BY <1>2, <2>4, <2>5, <2>7, <2>8, OneScanMoves
<1> QED
  BY <1>5, <1>6

LEMMA ReportInv ==
  ASSUME PipelineInv, NEW s \in Scans, NEW h \in Hosts, signalForPing(s, h)
  PROVE  /\ PipelineInv' /\ OthersSame(s)
         /\ stage[s] = "pinging" /\ stage'[s] \in {"pinging", "naming", "dead"}
<1>1. PICK result \in {"found", "notFound"} :
        LET pings == [ping[s] EXCEPT ![h] = result]
        IN  /\ ping' = [ping EXCEPT ![s] = pings]
            /\ stage' = [stage EXCEPT ![s] = stageOfPings(pings)]
  BY DEF signalForPing
<1> DEFINE pings == [ping[s] EXCEPT ![h] = result]
<1>2. /\ ping[s] \in [Hosts -> PingResults] /\ ping[s][h] = "pending"
      /\ UNCHANGED <<prefix, wifi, named, vendor, rows>>
  BY DEF signalForPing, Listens, PipelineInv, TypeOK
<1>3. stage[s] = "pinging"
  <2>1. stage[s] \in Stages /\ StageTells(s)
    BY DEF PipelineInv, TypeOK
  <2>2. stage[s] # "idle"
    BY <1>2, <2>1 DEF StageTells
  <2>3. ~AllReported(s)
    BY <1>2 DEF AllReported
  <2>4. Pending(ping[s]) # {}
    BY <1>2 DEF Pending
  <2> QED BY <2>1, <2>2, <2>3, <2>4 DEF StageTells, Stages
<1>4. /\ named[s] = {} /\ NotAsked(s)
      /\ \A g \in Hosts : ping[s][g] # "idle"
  BY <1>3 DEF PipelineInv, StageTells
<1>5. pings \in [Hosts -> PingResults] /\ \A g \in Hosts : pings[g] # "idle"
  BY <1>2, <1>4 DEF PingResults
<1>6. ping' = [ping EXCEPT ![s] = pings] /\ stage' = [stage EXCEPT ![s] = stageOfPings(pings)]
  BY <1>1
<1> HIDE DEF pings
<1>7. ping'[s] = pings /\ stage'[s] = stageOfPings(pings)
  BY <1>6 DEF PipelineInv, TypeOK
<1>8. stageOfPings(pings) \in {"pinging", "naming", "dead"}
  BY DEF stageOfPings
<1>9. TypeOK' /\ OthersSame(s)
  BY <1>2, <1>5, <1>6, <1>8 DEF PipelineInv, TypeOK, Stages, OthersSame, SameScan
<1>10. Pending(pings) = {} => \A g \in Hosts : pings[g] \in {"found", "notFound"}
  BY <1>5 DEF Pending, PingResults
<1>11. StageTells(s)'
  <2>1. named'[s] = {} /\ NotAsked(s)'
    BY <1>2, <1>4 DEF NotAsked
  <2>2. CASE stage'[s] = "pinging"
    BY <1>5, <1>7, <2>1, <2>2 DEF stageOfPings, StageTells
  <2>3. CASE stage'[s] = "naming"
    BY <1>7, <1>10, <2>1, <2>3 DEF stageOfPings, StageTells, AllReported
  <2>4. CASE stage'[s] = "dead"
    BY <1>7, <2>1, <2>4 DEF stageOfPings, StageTells
  <2> QED BY <1>7, <1>8, <2>2, <2>3, <2>4
<1>12. OnWiFi(s)'
  BY <1>2, <1>3, <1>4, <1>5, <1>7 DEF OnWiFi, PipelineInv
<1> QED
  BY <1>3, <1>7, <1>8, <1>9, <1>11, <1>12, OneScanMoves

LEMMA NameInv ==
  ASSUME PipelineInv, NEW s \in Scans, NEW h \in Hosts, getHost(s, h)
  PROVE  /\ PipelineInv' /\ OthersSame(s)
         /\ stage[s] = "naming" /\ stage'[s] \in {"naming", "vendors"}
<1>1. /\ stage[s] = "naming" /\ h \in Found(ping[s]) \ named[s]
      /\ named' = [named EXCEPT ![s] = @ \cup {h}]
      /\ stage' = [stage EXCEPT ![s] =
                     IF named'[s] = Found(ping[s]) THEN "vendors" ELSE "naming"]
      /\ UNCHANGED <<prefix, wifi, ping, vendor, rows>>
  BY DEF getHost
<1>2. AllReported(s) /\ NotAsked(s) /\ named[s] \subseteq Found(ping[s])
  BY <1>1 DEF PipelineInv, StageTells
<1>3. /\ named'[s] = named[s] \cup {h} /\ named'[s] \subseteq Found(ping[s])
      /\ stage'[s] = IF named'[s] = Found(ping[s]) THEN "vendors" ELSE "naming"
  BY <1>1, <1>2 DEF PipelineInv, TypeOK
<1>4. TypeOK' /\ OthersSame(s)
  <2>1. named'[s] \subseteq Hosts
    BY <1>3 DEF Found
  <2> QED BY <1>1, <1>3, <2>1 DEF PipelineInv, TypeOK, Stages, OthersSame, SameScan
<1>5. AllReported(s)' /\ NotAsked(s)'
  BY <1>1, <1>2 DEF AllReported, NotAsked
<1>6. StageTells(s)'
  <2>1. \A g \in Hosts : vendor'[s][g] = "none"
    BY <1>5 DEF NotAsked
  <2>2. ping'[s] = ping[s]
    BY <1>1
  <2> QED BY <1>3, <1>5, <2>1, <2>2 DEF StageTells
<1>7. OnWiFi(s)'
  BY <1>1, <1>3 DEF OnWiFi, PipelineInv
<1> QED
  BY <1>1, <1>3, <1>4, <1>6, <1>7, OneScanMoves

\* A step of one manufacturer request that does not end the join.
LEMMA VendorMoves ==
  ASSUME PipelineInv, NEW s \in Scans, NEW h \in Found(ping[s]), NEW step \in VendorSteps,
         stage[s] = "vendors", vendor' = [vendor EXCEPT ![s][h] = step],
         UNCHANGED <<prefix, wifi, stage, ping, named, rows>>
  PROVE  PipelineInv' /\ OthersSame(s)
<1>1. /\ AllReported(s) /\ named[s] = Found(ping[s]) /\ h \in Hosts
      /\ \A g \in Hosts : vendor[s][g] # "none" => g \in Found(ping[s])
  BY DEF PipelineInv, StageTells, Found
<1>2. /\ vendor'[s] = [vendor[s] EXCEPT ![h] = step]
      /\ vendor[s] \in [Hosts -> VendorSteps] /\ vendor'[s] \in [Hosts -> VendorSteps]
      /\ \A t \in Scans : t # s => vendor'[t] = vendor[t]
  BY <1>1 DEF PipelineInv, TypeOK
<1>3. TypeOK' /\ OthersSame(s)
  BY <1>1, <1>2 DEF PipelineInv, TypeOK, OthersSame, SameScan
<1>4. \A g \in Hosts : vendor'[s][g] # "none" => g \in Found(ping'[s])
  BY <1>1, <1>2
<1>5. StageTells(s)'
  BY <1>1, <1>4 DEF StageTells, AllReported
<1>6. OnWiFi(s)'
  BY DEF OnWiFi, PipelineInv
<1> QED
  BY <1>3, <1>5, <1>6, OneScanMoves

LEMMA RequestInv ==
  ASSUME PipelineInv, NEW s \in Scans, NEW h \in Hosts, requestManufacturer(s, h)
  PROVE  PipelineInv' /\ OthersSame(s) /\ stage[s] = "vendors" /\ stage'[s] = "vendors"
  BY VendorMoves DEF requestManufacturer, VendorSteps

\* A request that was made belongs to a scan that waits for it.
LEMMA AskedWaits ==
  ASSUME PipelineInv, NEW s \in Scans, NEW h \in Hosts,
         vendor[s][h] \in {"requested", "attached"}
  PROVE  stage[s] = "vendors" /\ h \in Found(ping[s])
<1>1. stage[s] \in Stages /\ StageTells(s)
  BY DEF PipelineInv, TypeOK
<1>2. stage[s] \in {"vendors", "delivered"}
  BY <1>1 DEF StageTells, NotAsked, Stages
<1>3. h \in Found(ping[s])
  BY <1>1, <1>2 DEF StageTells
<1>4. stage[s] # "delivered"
  BY <1>1, <1>3 DEF StageTells, Answered
<1> QED
  BY <1>2, <1>3, <1>4

LEMMA AttachInv ==
  ASSUME PipelineInv, NEW s \in Scans, NEW h \in Hosts, attachHandler(s, h)
  PROVE  PipelineInv' /\ OthersSame(s) /\ stage[s] = "vendors" /\ stage'[s] = "vendors"
  BY VendorMoves, AskedWaits DEF attachHandler, VendorSteps

\* The last answer delivers what was found, and every other leaves the scan waiting.
LEMMA AnswerInv ==
  ASSUME PipelineInv, NEW s \in Scans, NEW h \in Hosts, manufacturerAnswers(s, h)
  PROVE  /\ PipelineInv' /\ OthersSame(s)
         /\ stage[s] = "vendors" /\ stage'[s] \in {"vendors", "delivered"}
<1>1. PICK answer \in {"known", "notFound"} : vendor' = [vendor EXCEPT ![s][h] = answer]
  BY DEF manufacturerAnswers
<1>2. /\ stage[s] = "vendors" /\ h \in Found(ping[s])
      /\ UNCHANGED <<prefix, wifi, ping, named>> /\ answer \in VendorSteps
  BY AskedWaits DEF manufacturerAnswers, VendorSteps
<1>3. CASE ~Answered(vendor'[s], Found(ping[s]))
  <2>1. UNCHANGED <<prefix, wifi, stage, ping, named, rows>>
    BY <1>2, <1>3 DEF manufacturerAnswers
  <2> QED BY <1>1, <1>2, <2>1, VendorMoves
<1>4. CASE Answered(vendor'[s], Found(ping[s]))
  <2>1. /\ stage' = [stage EXCEPT ![s] = "delivered"]
        /\ rows' = [rows EXCEPT ![s] = Found(ping[s])]
    BY <1>4 DEF manufacturerAnswers
  <2>2. /\ AllReported(s) /\ named[s] = Found(ping[s]) /\ Found(ping[s]) \subseteq Hosts
        /\ \A g \in Hosts : vendor[s][g] # "none" => g \in Found(ping[s])
    BY <1>2 DEF PipelineInv, StageTells, Found
  <2>3. /\ vendor'[s] = [vendor[s] EXCEPT ![h] = answer]
        /\ vendor[s] \in [Hosts -> VendorSteps] /\ vendor'[s] \in [Hosts -> VendorSteps]
        /\ \A t \in Scans : t # s => vendor'[t] = vendor[t]
    BY <1>1, <1>2 DEF PipelineInv, TypeOK
  <2>4. /\ stage'[s] = "delivered" /\ rows'[s] = Found(ping[s])
        /\ TypeOK' /\ OthersSame(s)
    BY <1>1, <1>2, <2>1, <2>2, <2>3 DEF PipelineInv, TypeOK, Stages, OthersSame, SameScan
  <2>5. \A g \in Hosts : vendor'[s][g] # "none" => g \in Found(ping'[s])
    BY <1>2, <2>2, <2>3
  <2>6. ping'[s] = ping[s] /\ named'[s] = named[s]
    BY <1>2
  <2>7. StageTells(s)'
    BY <1>4, <2>2, <2>4, <2>5, <2>6 DEF StageTells, AllReported
  <2>8. OnWiFi(s)'
    BY <1>2, <2>4 DEF OnWiFi, PipelineInv
  <2> QED BY <1>2, <2>4, <2>7, <2>8, OneScanMoves
<1> QED
  BY <1>3, <1>4

\* Only a scan in flight works, and its work moves no other scan.
LEMMA WorkInv ==
  ASSUME PipelineInv, NEW s \in Scans, Work(s)
  PROVE  PipelineInv' /\ OthersSame(s) /\ InFlight(s) /\ stage'[s] # "idle"
<1>1. PICK h \in Hosts : \/ signalForPing(s, h) \/ getHost(s, h)
                         \/ requestManufacturer(s, h) \/ attachHandler(s, h)
                         \/ manufacturerAnswers(s, h)
  BY DEF Work
<1>2. CASE signalForPing(s, h)
  BY <1>2, ReportInv DEF InFlight
<1>3. CASE getHost(s, h)
  BY <1>3, NameInv DEF InFlight
<1>4. CASE requestManufacturer(s, h)
  BY <1>4, RequestInv DEF InFlight
<1>5. CASE attachHandler(s, h)
  BY <1>5, AttachInv DEF InFlight
<1>6. CASE manufacturerAnswers(s, h)
  BY <1>6, AnswerInv DEF InFlight
<1> QED
  BY <1>1, <1>2, <1>3, <1>4, <1>5, <1>6

LEMMA PipelineGives == PipelineInv => DeliveredIsComplete /\ PingsStayOnWiFi
<1> SUFFICES ASSUME PipelineInv PROVE DeliveredIsComplete /\ PingsStayOnWiFi
  OBVIOUS
<1>1. ASSUME NEW s \in Scans, stage[s] = "delivered"
      PROVE  /\ rows[s] = Found(ping[s]) /\ Pending(ping[s]) = {}
             /\ rows[s] \subseteq named[s] /\ Answered(vendor[s], rows[s])
  BY <1>1 DEF PipelineInv, StageTells, AllReported, Pending
<1> QED
  BY <1>1 DEF DeliveredIsComplete, PingsStayOnWiFi, PipelineInv

-----------------------------------------------------------------------------
(* The screen *)

LEMMA PipelineStays == PipelineInv /\ UNCHANGED scanVars => PipelineInv'
  BY DEF PipelineInv, TypeOK, scanVars, StageTells, OnWiFi, NotAsked,
         AllReported, Found, Pending, Answered

LEMMA ScreenInitInv == ScreenInit => IInv
<1> SUFFICES ASSUME ScreenInit PROVE IInv
  OBVIOUS
<1>1. PipelineInv
  BY PipelineInit DEF ScreenInit
<1>2. ScreenTypeOK
  <2>1. foundHosts \in Seq(Hosts) /\ hosts \in Seq(Hosts)
    BY DEF ScreenInit
  <2>2. device \in Hosts \cup {NoHost} /\ subscribed \in {0} \cup Scans
    BY DEF ScreenInit
  <2> QED BY <1>1, <2>1, <2>2 DEF ScreenInit, ScreenTypeOK, PipelineInv
<1>3. \A s \in Scans : stage[s] = "idle" /\ s \in Nat /\ s > 0
  BY ScreenAssumption DEF ScreenInit, Init
<1>4. OnlyLatestRuns
  BY <1>3 DEF ScreenInit, OnlyLatestRuns
<1>5. ButtonTracksScan /\ ScanningIsShown
  BY <1>3 DEF ScreenInit, ButtonTracksScan, ScanningIsShown, Unfinished
<1>6. StartIsFirst /\ RowsAreLatest
  BY DEF ScreenInit, StartIsFirst, RowsAreLatest
<1> QED
  BY <1>1, <1>2, <1>4, <1>5, <1>6 DEF IInv

\* The rows of a scan are a list of hosts.
LEMMA FoundInOrder ==
  ASSUME NEW set \in SUBSET Hosts
  PROVE  InOrder(set) \in Seq(Hosts)
<1>1. set \in SUBSET Nat /\ IsFiniteSet(set)
  BY ScreenAssumption, FS_Subset
<1>2. InOrder(set) \in Seq(set)
  BY <1>1, InOrderIsSeq
<1> QED
  BY <1>2

LEMMA InvGivesOneScan == IInv => AtMostOneScan
<1> SUFFICES ASSUME IInv, NEW s \in Scans, NEW t \in Scans, Unfinished(s), Unfinished(t)
             PROVE  s = t
  BY DEF AtMostOneScan
<1>1. s \in Nat /\ t \in Nat /\ subscribed \in Nat
  BY ScreenAssumption DEF IInv, ScreenTypeOK
<1>2. s <= subscribed /\ t <= subscribed /\ ~(s < subscribed) /\ ~(t < subscribed)
  BY <1>1 DEF IInv, OnlyLatestRuns, Unfinished
<1> QED
  BY <1>1, <1>2

\* The next scan starts when the last is delivered, and is then the one unfinished.
LEMMA StartInv ==
  ASSUME IInv, \A s \in Scans : ~Unfinished(s), startScanning
  PROVE  /\ PipelineInv' /\ OnlyLatestRuns' /\ subscribed' \in Scans
         /\ stage'[subscribed'] \notin {"idle", "delivered"} /\ subscribed' # 0
<1> DEFINE n == subscribed + 1
<1>1. n \in Scans /\ subscribed' = n /\ scanNetworkForHosts(n)
  BY DEF startScanning
<1>2. subscribed \in Nat /\ n \in Nat /\ n > subscribed /\ Scans \subseteq Nat \ {0}
  BY ScreenAssumption DEF IInv, ScreenTypeOK
<1> HIDE DEF n
<1>3. PipelineInv' /\ OthersSame(n) /\ stage'[n] \in {"pinging", "dead"}
  BY <1>1, BeginInv DEF IInv
<1>4. \A s \in Scans : s # n => stage'[s] = stage[s]
  BY <1>3 DEF OthersSame, SameScan
<1>5. \A s \in Scans : s <= subscribed => stage[s] = "delivered"
  BY <1>2 DEF IInv, OnlyLatestRuns, Unfinished
<1>6. \A s \in Scans : s # n /\ s \in Nat => (s > subscribed <=> s > n) /\ (s < n => s <= subscribed)
  BY <1>2 DEF n
<1>7. \A s \in Scans : s # n => (stage'[s] = "idle" <=> s > n)
  BY <1>2, <1>4, <1>6 DEF IInv, OnlyLatestRuns
<1>8. \A s \in Scans : s < n => stage'[s] = "delivered"
  <2> SUFFICES ASSUME NEW s \in Scans, s < n PROVE stage'[s] = "delivered"
    OBVIOUS
  <2>1. s # n /\ s \in Nat
    BY <1>2
  <2> QED BY <1>4, <1>5, <1>6, <2>1
<1>9. ~(n > n)
  BY <1>2
<1>10. OnlyLatestRuns'
  BY <1>1, <1>3, <1>7, <1>8, <1>9 DEF OnlyLatestRuns
<1> QED
  BY <1>1, <1>2, <1>3, <1>10 DEF Unfinished

LEMMA WarningInv == IInv /\ (presentNoWiFiWarning \/ dismissAlert) => IInv'
<1> SUFFICES ASSUME IInv, presentNoWiFiWarning \/ dismissAlert PROVE IInv'
  OBVIOUS
<1>1. /\ UNCHANGED <<scanVars, startButton, animating, scanButton, spinner,
                     foundHosts, hosts, device, subscribed>>
      /\ presented' \in {"none", "alert", "device"}
  BY DEF presentNoWiFiWarning, dismissAlert
<1>2. PipelineInv'
  BY <1>1, PipelineStays DEF IInv
<1>3. ScreenTypeOK'
  BY <1>1, <1>2 DEF IInv, ScreenTypeOK, PipelineInv
<1> QED
  BY <1>1, <1>2, <1>3
     DEF IInv, OnlyLatestRuns, StartIsFirst, ButtonTracksScan, RowsAreLatest,
         ScanningIsShown, Unfinished, scanVars

LEMMA FirstScanInv == IInv /\ didPressInitialScan => IInv'
<1> SUFFICES ASSUME IInv, didPressInitialScan, ~presentNoWiFiWarning PROVE IInv'
  BY WarningInv
<1>1. /\ startButton = "shown" /\ startButton' = "gone" /\ animating' = TRUE
      /\ scanButton' = "disabled" /\ startScanning
      /\ UNCHANGED <<spinner, foundHosts, hosts, presented, device>>
  BY DEF didPressInitialScan
<1>2. scanButton = "hidden" /\ foundHosts = <<>> /\ \A s \in Scans : ~Unfinished(s)
  BY <1>1 DEF IInv, StartIsFirst, ButtonTracksScan
<1>3. /\ PipelineInv' /\ OnlyLatestRuns' /\ subscribed' \in Scans
      /\ stage'[subscribed'] \notin {"idle", "delivered"} /\ subscribed' # 0
  BY <1>1, <1>2, StartInv
<1>4. ScreenTypeOK'
  BY <1>1, <1>3 DEF IInv, ScreenTypeOK, PipelineInv
<1>5. StartIsFirst' /\ RowsAreLatest' /\ ScanningIsShown'
  BY <1>1, <1>2 DEF StartIsFirst, RowsAreLatest, ScanningIsShown
<1>6. ButtonTracksScan'
  BY <1>1, <1>3 DEF ButtonTracksScan, Unfinished
<1> QED
  BY <1>3, <1>4, <1>5, <1>6 DEF IInv

LEMMA NextScanInv == IInv /\ didPressScan => IInv'
<1> SUFFICES ASSUME IInv, didPressScan, ~presentNoWiFiWarning PROVE IInv'
  BY WarningInv
<1>1. /\ scanButton = "enabled" /\ scanButton' = "disabled"
      /\ foundHosts' = <<>> /\ spinner' = TRUE /\ startScanning
      /\ UNCHANGED <<startButton, animating, hosts, presented, device>>
  BY DEF didPressScan
<1>2. startButton # "shown" /\ \A s \in Scans : ~Unfinished(s)
  BY <1>1 DEF IInv, StartIsFirst, ButtonTracksScan
<1>3. /\ PipelineInv' /\ OnlyLatestRuns' /\ subscribed' \in Scans
      /\ stage'[subscribed'] \notin {"idle", "delivered"} /\ subscribed' # 0
  BY <1>1, <1>2, StartInv
<1>4. ScreenTypeOK'
  BY <1>1, <1>3 DEF IInv, ScreenTypeOK, PipelineInv
<1>5. StartIsFirst' /\ RowsAreLatest' /\ ScanningIsShown'
  BY <1>1, <1>2 DEF StartIsFirst, RowsAreLatest, ScanningIsShown
<1>6. ButtonTracksScan'
  BY <1>1, <1>3 DEF ButtonTracksScan, Unfinished
<1> QED
  BY <1>3, <1>4, <1>5, <1>6 DEF IInv

\* A row that can be tapped is one of the latest scan, so its index has a host.
LEMMA SelectInv ==
  ASSUME IInv, NEW index \in DOMAIN foundHosts, didSelectTargetDevice(index)
  PROVE  IInv'
<1>1. /\ UNCHANGED <<scanVars, startButton, animating, scanButton, spinner,
                     foundHosts, hosts, subscribed>>
      /\ presented' = "device" /\ device' = hosts[index]
  BY DEF didSelectTargetDevice
<1>2. foundHosts \in Seq(Hosts) /\ foundHosts # <<>>
  BY DEF IInv, ScreenTypeOK
<1>3. device' \in Hosts
  BY <1>1, <1>2 DEF IInv, RowsAreLatest
<1>4. PipelineInv'
  BY <1>1, PipelineStays DEF IInv
<1>5. ScreenTypeOK'
  BY <1>1, <1>3, <1>4 DEF IInv, ScreenTypeOK, PipelineInv
<1> QED
  BY <1>1, <1>4, <1>5
     DEF IInv, OnlyLatestRuns, StartIsFirst, ButtonTracksScan, RowsAreLatest,
         ScanningIsShown, Unfinished, scanVars

LEMMA AnimationInv == IInv /\ animationCompletes => IInv'
<1> SUFFICES ASSUME IInv, animationCompletes PROVE IInv'
  OBVIOUS
<1>1. /\ animating' = FALSE /\ spinner' = TRUE
      /\ UNCHANGED <<scanVars, startButton, scanButton, foundHosts, hosts,
                     presented, device, subscribed>>
  BY DEF animationCompletes
<1>2. PipelineInv'
  BY <1>1, PipelineStays DEF IInv
<1>3. ScreenTypeOK'
  BY <1>1, <1>2 DEF IInv, ScreenTypeOK, PipelineInv
<1> QED
  BY <1>1, <1>2, <1>3
     DEF IInv, OnlyLatestRuns, StartIsFirst, ButtonTracksScan, RowsAreLatest,
         ScanningIsShown, Unfinished, scanVars

\* Only the latest scan works, and its rows are shown in the step that delivers them.
LEMMA ScanInv ==
  ASSUME IInv, NEW s \in Scans, Scan(s)
  PROVE  IInv'
<1>1. PipelineInv' /\ OthersSame(s) /\ InFlight(s) /\ stage'[s] # "idle"
  BY WorkInv DEF Scan, IInv
<1>2. s = subscribed /\ \A t \in Scans : t # s => stage'[t] = stage[t]
  <2>1. s \in Nat /\ subscribed \in Nat
    BY ScreenAssumption DEF IInv, ScreenTypeOK
  <2>2. s <= subscribed /\ ~(s < subscribed)
    BY <1>1, <2>1 DEF IInv, OnlyLatestRuns, InFlight
  <2>3. s = subscribed
    BY <2>1, <2>2
  <2>4. \A t \in Scans : t # s => stage'[t] = stage[t]
    BY <1>1 DEF OthersSame, SameScan
  <2> QED BY <2>3, <2>4
<1>3. /\ stage[s] \notin {"idle", "delivered"} /\ scanButton = "disabled"
      /\ startButton # "shown" /\ foundHosts = <<>>
  BY <1>1, <1>2
     DEF InFlight, IInv, ButtonTracksScan, Unfinished, StartIsFirst, RowsAreLatest
<1>4. \A t \in Scans : t # s => stage[t] \in {"idle", "delivered"}
  BY <1>3, InvGivesOneScan DEF AtMostOneScan, Unfinished
<1>5. subscribed' = subscribed => OnlyLatestRuns'
  <2>1. ~(s > subscribed) /\ ~(s < subscribed)
    BY <1>2, ScreenAssumption DEF IInv, ScreenTypeOK
  <2> QED BY <1>1, <1>2, <2>1 DEF IInv, OnlyLatestRuns
<1>6. CASE stage'[s] = "delivered"
  <2>1. /\ scanButton' = "enabled" /\ spinner' = FALSE
        /\ hosts' = InOrder(rows'[s]) /\ foundHosts' = hosts'
        /\ UNCHANGED <<startButton, animating, presented, device, subscribed>>
    BY <1>6 DEF Scan, showHosts
  <2>2. rows'[s] = Found(ping'[s]) /\ rows'[s] \in SUBSET Hosts
    BY <1>1, <1>6 DEF PipelineInv, StageTells, TypeOK
  <2>3. hosts' \in Seq(Hosts)
    BY <2>1, <2>2, FoundInOrder
  <2>4. ScreenTypeOK'
    BY <1>1, <2>1, <2>3 DEF IInv, ScreenTypeOK, PipelineInv
  <2>5. \A t \in Scans : stage'[t] \in {"idle", "delivered"}
    BY <1>2, <1>4, <1>6
  <2>6. ButtonTracksScan' /\ ScanningIsShown'
    BY <2>1, <2>5 DEF ButtonTracksScan, ScanningIsShown, Unfinished
  <2>7. StartIsFirst'
    BY <1>3, <2>1 DEF StartIsFirst, IInv
  <2>8. RowsAreLatest'
    BY <1>2, <1>6, <2>1, <2>2 DEF RowsAreLatest
  <2> QED BY <1>1, <1>5, <2>1, <2>4, <2>6, <2>7, <2>8 DEF IInv
<1>7. CASE stage'[s] # "delivered"
  <2>1. UNCHANGED screenVars
    BY <1>7 DEF Scan
  <2>2. ScreenTypeOK'
    BY <1>1, <2>1 DEF IInv, ScreenTypeOK, PipelineInv, screenVars
  <2>3. \A t \in Scans : stage'[t] \notin {"idle", "delivered"} <=>
                         stage[t] \notin {"idle", "delivered"}
    BY <1>1, <1>2, <1>3, <1>7
  <2>4. ButtonTracksScan' /\ ScanningIsShown'
    BY <2>1, <2>3 DEF IInv, ButtonTracksScan, ScanningIsShown, Unfinished, screenVars
  <2>5. StartIsFirst' /\ RowsAreLatest'
    BY <1>3, <2>1 DEF IInv, StartIsFirst, RowsAreLatest, screenVars
  <2> QED BY <1>1, <1>5, <2>1, <2>2, <2>4, <2>5 DEF IInv, screenVars
<1> QED
  BY <1>6, <1>7

LEMMA ScreenNextInv == IInv /\ [ScreenNext]_vars => IInv'
<1> SUFFICES ASSUME IInv, [ScreenNext]_vars PROVE IInv'
  OBVIOUS
<1>1. CASE didPressInitialScan
  BY <1>1, FirstScanInv
<1>2. CASE didPressScan
  BY <1>2, NextScanInv
<1>3. CASE dismissAlert
  BY <1>3, WarningInv
<1>4. CASE \E index \in DOMAIN foundHosts : didSelectTargetDevice(index)
  BY <1>4, SelectInv
<1>5. CASE animationCompletes
  BY <1>5, AnimationInv
<1>6. CASE \E s \in Scans : Scan(s)
  BY <1>6, ScanInv
<1>7. CASE UNCHANGED vars
  <2>1. PipelineInv'
    BY <1>7, PipelineStays DEF IInv, vars
  <2> QED
    BY <1>7, <2>1
       DEF vars, screenVars, scanVars, IInv, PipelineInv, ScreenTypeOK, OnlyLatestRuns,
           StartIsFirst, ButtonTracksScan, RowsAreLatest, ScanningIsShown, Unfinished
<1> QED
  BY <1>1, <1>2, <1>3, <1>4, <1>5, <1>6, <1>7 DEF ScreenNext

\* The screen and its scans keep their invariant, whatever is touched and when, for
\* every set of hosts and every number of scans.
THEOREM ScreenInvariant == ScreenSpec => []IInv
  BY ScreenInitInv, ScreenNextInv, PTL DEF ScreenSpec

\* The screen keeps its types: a row that can be tapped has a host.
THEOREM ScreenTypes == ScreenSpec => []ScreenTypeOK
<1>1. IInv => ScreenTypeOK
  BY DEF IInv
<1> QED
  BY ScreenInvariant, <1>1, PTL

\* At most one scan runs.
THEOREM OneScan == ScreenSpec => []AtMostOneScan
  BY ScreenInvariant, InvGivesOneScan, PTL

\* The scan button is disabled exactly while a scan has yet to deliver.
THEOREM ButtonTells == ScreenSpec => []ButtonTracksScan
<1>1. IInv => ButtonTracksScan
  BY DEF IInv
<1> QED
  BY ScreenInvariant, <1>1, PTL

\* The rows, and the array their index is looked up in, are what the latest scan
\* delivered.
THEOREM RowsOfLatest == ScreenSpec => []RowsAreLatest
<1>1. IInv => RowsAreLatest
  BY DEF IInv
<1> QED
  BY ScreenInvariant, <1>1, PTL

\* While a scan runs the spinner turns or the animation that shows it is under way.
THEOREM ScanShown == ScreenSpec => []ScanningIsShown
<1>1. IInv => ScanningIsShown
  BY DEF IInv
<1> QED
  BY ScreenInvariant, <1>1, PTL

\* What a scan delivers is every host that answered, named and with the answer of
\* its manufacturer request.
THEOREM WholeDelivered == ScreenSpec => []DeliveredIsComplete
<1>1. IInv => DeliveredIsComplete
  BY PipelineGives DEF IInv
<1> QED
  BY ScreenInvariant, <1>1, PTL

\* A scan pings what en0's addresses give and nothing else, for lists of interfaces
\* of any length and whatever the resolver makes of the names.
THEOREM PingsOnWiFi == ScreenSpec => []PingsStayOnWiFi
<1>1. IInv => PingsStayOnWiFi
  BY PipelineGives DEF IInv
<1> QED
  BY ScreenInvariant, <1>1, PTL
=============================================================================
