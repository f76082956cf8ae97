----------------------------- MODULE LANScanner ------------------------------
(***************************************************************************)
(* The scan pipeline: LANScanner.swift, the hostname and MAC steps of      *)
(* Extensions.swift and the manufacturer step of APIManager.swift, joined  *)
(* by ReactiveCocoa's combineLatest.  Each value of Scans is one           *)
(* subscription of LANScanner.scanNetworkForHosts.                         *)
(*                                                                         *)
(* A join fires in the step of its last value: it emits once, which        *)
(* CombineLatest checks against Join.  Where ReactiveCocoa hands the value *)
(* to its background scheduler first, as it does for names, nothing of the *)
(* scan happens in between.  Pings report and manufacturers answer on the  *)
(* main queue, names are resolved on the global queue, requests are made   *)
(* on background schedulers.  Only `next' crosses from the inner signals   *)
(* to their subscribers in this code, never completion or an error, so a   *)
(* join that ends without a value leaves the scan "dead".                  *)
(***************************************************************************)
EXTENDS WiFi

CONSTANTS
  Hosts,   \* the 254 addresses of the subnet
  Scans    \* the subscriptions

VARIABLES
  prefix,   \* [Scans -> IPPrefixes]: what the addresses of the hosts begin with
  wifi,     \* history: the families of en0's addresses when the scan began
  stage,    \* [Scans -> Stages]: the join the scan waits for
  ping,     \* [Scans -> [Hosts -> PingResults]]
  named,    \* [Scans -> SUBSET Hosts]: hosts whose name is resolved
  vendor,   \* [Scans -> [Hosts -> VendorSteps]]
  rows      \* [Scans -> SUBSET Hosts]: what sendNext handed the subscriber

scanVars == <<prefix, wifi, stage, ping, named, vendor, rows>>

Stages == {"idle", "pinging", "naming", "vendors", "delivered", "dead"}
PingResults == {"idle", "pending", "found", "notFound"}
VendorSteps == {"none", "requested", "attached", "known", "notFound"}

IPPrefixes == {NO_WIFI_ADDRESS, <<>>} \cup {<<Subnet[i]>> : i \in DOMAIN Subnet}

TypeOK ==
  /\ prefix \in [Scans -> IPPrefixes] /\ wifi \in [Scans -> SUBSET AddressFamilies]
  /\ stage \in [Scans -> Stages]
  /\ ping \in [Scans -> [Hosts -> PingResults]]
  /\ named \in [Scans -> SUBSET Hosts]
  /\ vendor \in [Scans -> [Hosts -> VendorSteps]]
  /\ rows \in [Scans -> SUBSET Hosts]

Init ==
  /\ prefix = [s \in Scans |-> NO_WIFI_ADDRESS] /\ wifi = [s \in Scans |-> {}]
  /\ stage = [s \in Scans |-> "idle"]
  /\ ping = [s \in Scans |-> [h \in Hosts |-> "idle"]]
  /\ named = [s \in Scans |-> {}]
  /\ vendor = [s \in Scans |-> [h \in Hosts |-> "none"]]
  /\ rows = [s \in Scans |-> {}]

Found(pings) == {h \in Hosts : pings[h] = "found"}
Pending(pings) == {h \in Hosts : pings[h] = "pending"}

\* mutant: the join fires with the first value instead of the last
stageFirstReport(pings) ==
  IF Found(pings) # {} THEN "naming"
  ELSE IF Pending(pings) # {} THEN "pinging" ELSE "dead"

\* The join of the pings: it waits for every report; with no host left by the
\* filter the next join is over an empty list, a signal that sends nothing.
stageOfPings(pings) ==
  IF Pending(pings) # {} THEN "pinging"
  ELSE IF Found(pings) # {} THEN "naming" ELSE "dead"

-----------------------------------------------------------------------------
(* The steps of a scan *)

\* scanNetworkForHosts is subscribed to.  Without a Wi-Fi address the scan is a
\* bare RACSignal; with one, every ping starts, and some fail at once.
scanNetworkForHosts(s) ==
  /\ stage[s] = "idle"
  /\ \E list \in InterfaceLists :
       /\ prefix' = [prefix EXCEPT ![s] = getIPPrefix(list)]
       /\ wifi' = [wifi EXCEPT ![s] =
            {f \in AddressFamilies :
               \E i \in DOMAIN list : list[i] = [name |-> "en0", family |-> f]}]
  /\ IF prefix'[s] = NO_WIFI_ADDRESS
     THEN stage' = [stage EXCEPT ![s] = "dead"] /\ UNCHANGED ping
     ELSE \E refused \in SUBSET Hosts :
            LET pings == [h \in Hosts |-> IF h \in refused THEN "notFound" ELSE "pending"]
            IN  /\ ping' = [ping EXCEPT ![s] = pings]
                /\ stage' = [stage EXCEPT ![s] = stageOfPings(pings)]
  /\ UNCHANGED <<named, vendor, rows>>

\* The subscription to a ping's signal is open: the first sendCompleted disposes of
\* it, and what is sent after that reaches nobody.
Listens(s, h) == ping[s][h] = "pending"

\* A ping calls its completion, which sends the host or "not found" and completes.
\* A call that finds the subscription disposed of is no step.
signalForPing(s, h) ==
  /\ Listens(s, h)
  /\ \E result \in {"found", "notFound"} :
       LET pings == [ping[s] EXCEPT ![h] = result]
       IN  /\ ping' = [ping EXCEPT ![s] = pings]
           /\ stage' = [stage EXCEPT ![s] = stageOfPings(pings)]
  /\ UNCHANGED <<prefix, wifi, named, vendor, rows>>

\* A worker of the global queue resolves one name.  The last one maps the MAC
\* finder over the hosts and subscribes to the manufacturers.
getHost(s, h) ==
  /\ stage[s] = "naming" /\ h \in Found(ping[s]) \ named[s]
  /\ named' = [named EXCEPT ![s] = @ \cup {h}]
  /\ stage' = [stage EXCEPT ![s] =
                 IF named'[s] = Found(ping[s]) THEN "vendors" ELSE "naming"]
  /\ UNCHANGED <<prefix, wifi, ping, vendor, rows>>

\* signalForManufacturer, on a background scheduler: the request is made.
requestManufacturer(s, h) ==
  /\ stage[s] = "vendors" /\ h \in Found(ping[s]) /\ vendor[s][h] = "none"
  /\ vendor' = [vendor EXCEPT ![s][h] = "requested"]
  /\ UNCHANGED <<prefix, wifi, stage, ping, named, rows>>

\* Later, on the global queue, the response handler is attached; Alamofire
\* keeps a response that came before it.
attachHandler(s, h) ==
  /\ vendor[s][h] = "requested"
  /\ vendor' = [vendor EXCEPT ![s][h] = "attached"]
  /\ UNCHANGED <<prefix, wifi, stage, ping, named, rows>>

\* mutant: a failed request sends nothing
AnsweredBySuccess(vendors, hosts) == \A h \in hosts : vendors[h] = "known"

\* The join of the manufacturers: success and failure both send a host.
Answered(vendors, hosts) == \A h \in hosts : vendors[h] \in {"known", "notFound"}

\* The handler runs on the main queue, with the manufacturer or without.  The
\* last one completes the join, and as it is on the main thread already the
\* hosts go to the subscriber of scanNetworkForHosts in the same step.
manufacturerAnswers(s, h) ==
  /\ vendor[s][h] = "attached"
  /\ \E answer \in {"known", "notFound"} :
       vendor' = [vendor EXCEPT ![s][h] = answer]
  /\ IF Answered(vendor'[s], Found(ping[s]))
     THEN /\ stage' = [stage EXCEPT ![s] = "delivered"]
          /\ rows' = [rows EXCEPT ![s] = Found(ping[s])]
     ELSE UNCHANGED <<stage, rows>>
  /\ UNCHANGED <<prefix, wifi, ping, named>>

\* The steps the program takes by itself once a scan is subscribed to.
Work(s) ==
  \E h \in Hosts : \/ signalForPing(s, h) \/ getHost(s, h)
                   \/ requestManufacturer(s, h) \/ attachHandler(s, h)
                   \/ manufacturerAnswers(s, h)

Next == \E s \in Scans : scanNetworkForHosts(s) \/ Work(s)

\* A ping that is pending reports (PingWrapper's EventuallyReported), blocks on
\* the queues run, and Alamofire calls every handler, at the latest with a
\* timeout.
Fairness ==
  \A s \in Scans, h \in Hosts :
    /\ WF_scanVars(signalForPing(s, h))
    /\ WF_scanVars(getHost(s, h))
    /\ WF_scanVars(requestManufacturer(s, h))
    /\ WF_scanVars(attachHandler(s, h))
    /\ WF_scanVars(manufacturerAnswers(s, h))

Spec == Init /\ [][Next]_scanVars /\ Fairness

-----------------------------------------------------------------------------
(* Properties *)

InFlight(s) == stage[s] \in {"pinging", "naming", "vendors"}

\* What a scan delivers is every host that answered, whole: none is missing,
\* none is there that did not answer, every one has been named and carries the
\* answer of its manufacturer request, and no ping is still out.
DeliveredIsComplete ==
  \A s \in Scans : stage[s] = "delivered" =>
    /\ rows[s] = Found(ping[s]) /\ Pending(ping[s]) = {}
    /\ rows[s] \subseteq named[s]
    /\ Answered(vendor[s], rows[s])

\* What a scan has pinged by en0's addresses when it began.
OnWiFi(s) ==
  stage[s] # "idle" =>
    /\ \A h \in Hosts : ping[s][h] # "idle" <=> wifi[s] # {}
    /\ \/ prefix[s] = NO_WIFI_ADDRESS /\ wifi[s] = {}
       \/ prefix[s] = <<Subnet["en0"]>> /\ "inet" \in wifi[s]
       \/ prefix[s] = <<>> /\ "inet6" \in wifi[s]

\* A scan pings the names en0's addresses give, though the check of the button asked
\* about the Internet and the list holds other interfaces: none without an address,
\* the hosts of the Wi-Fi subnet only with an IPv4 one, and names without a subnet,
\* ".1" to ".254", only with an IPv6 one.
PingsStayOnWiFi == \A s \in Scans : OnWiFi(s)

\* testLanScanSignalForNil (LANScanTests.swift): a subscription to
\* scanNetworkForHosts is sent its hosts.
EveryScanDelivers ==
  \A s \in Scans : stage[s] # "idle" ~> stage[s] = "delivered"
=============================================================================
