----------------------------- MODULE ScanScreen ------------------------------
(***************************************************************************)
(* The scan screen: ScanViewController.swift, ScanView.swift and           *)
(* TopView.swift, with the pipeline of LANScanner behind it.  Every action *)
(* here is one turn of the main thread; the steps of the pipeline run      *)
(* between them, and the step that delivers a scan updates the screen in   *)
(* the same turn.  UIKit decides which control can be touched: not one     *)
(* that is hidden, disabled, faded out or covered by a presented view.     *)
(***************************************************************************)
EXTENDS LANScanner, Ascending

\* Scans are numbered from 1; hosts are their last address byte, so that a list
\* of hosts is in the order of the 254 signals the scan joins.
ASSUME ScreenAssumption ==
  Scans \subseteq Nat \ {0} /\ Hosts \subseteq Nat \ {0} /\ IsFiniteSet(Hosts)

VARIABLES
  startButton,  \* ScanView's button: "shown", or "gone" once it fades
  animating,    \* the 0.7 s animation of initScanView has not completed
  scanButton,   \* TopView's button: "hidden", "disabled" or "enabled"
  spinner,      \* the spinner is visible
  foundHosts,   \* ScanView.foundHosts: the rows of the list
  hosts,        \* ScanViewController.hosts: what a row's index looks up
  presented,    \* "none", "alert" (no Wi-Fi) or "device"
  device,       \* the host of the DeviceViewController presented, if any
  subscribed    \* how many scans were started: the latest is scan number this

screenVars == <<startButton, animating, scanButton, spinner, foundHosts, hosts,
                presented, device, subscribed>>
vars == <<scanVars, screenVars>>

NoHost == 0

ScreenTypeOK ==
  /\ TypeOK
  /\ startButton \in {"shown", "gone"} /\ animating \in BOOLEAN
  /\ scanButton \in {"hidden", "disabled", "enabled"} /\ spinner \in BOOLEAN
  /\ foundHosts \in Seq(Hosts) /\ hosts \in Seq(Hosts)
  /\ presented \in {"none", "alert", "device"}
  /\ device \in Hosts \cup {NoHost} /\ subscribed \in {0} \cup Scans

ScreenInit ==
  /\ Init
  /\ startButton = "shown" /\ animating = FALSE
  /\ scanButton = "hidden" /\ spinner = FALSE
  /\ foundHosts = <<>> /\ hosts = <<>>
  /\ presented = "none" /\ device = NoHost /\ subscribed = 0

-----------------------------------------------------------------------------
(* What the user does *)

\* The bound on scans: Scans runs out.
startScanning ==
  /\ subscribed + 1 \in Scans
  /\ subscribed' = subscribed + 1
  /\ scanNetworkForHosts(subscribed + 1)

presentNoWiFiWarning ==
  /\ presented' = "alert"
  /\ UNCHANGED <<scanVars, startButton, animating, scanButton, spinner,
                 foundHosts, hosts, device, subscribed>>

dismissAlert ==
  /\ presented = "alert" /\ presented' = "none"
  /\ UNCHANGED <<scanVars, startButton, animating, scanButton, spinner,
                 foundHosts, hosts, device, subscribed>>

\* mutant: the screen's second button is left enabled by the first scan
didPressInitialScanEnabled ==
  /\ startButton = "shown" /\ presented = "none"
  /\ startButton' = "gone" /\ animating' = TRUE
  /\ scanButton' = "enabled"
  /\ startScanning
  /\ UNCHANGED <<spinner, foundHosts, hosts, presented, device>>

\* mutant: the spinner is shown neither now nor by the animation
didPressInitialScanStill ==
  /\ startButton = "shown" /\ presented = "none"
  /\ startButton' = "gone" /\ scanButton' = "disabled"
  /\ startScanning
  /\ UNCHANGED <<animating, spinner, foundHosts, hosts, presented, device>>

\* Not on Wi-Fi: a warning.  Else ScanView.initScanView, TopView.initScanView,
\* startScanning.
didPressInitialScan ==
  /\ startButton = "shown" /\ presented = "none"
  /\ \E flags \in SUBSET Flags :
     \/ ~isOnWiFi(flags) /\ presentNoWiFiWarning
     \/ /\ isOnWiFi(flags)
        /\ startButton' = "gone" /\ animating' = TRUE
        /\ scanButton' = "disabled"
        /\ startScanning
        /\ UNCHANGED <<spinner, foundHosts, hosts, presented, device>>

\* mutant: the rows of the last scan stay while the next one runs
didPressScanKeepsRows ==
  /\ scanButton = "enabled" /\ presented = "none"
  /\ scanButton' = "disabled" /\ spinner' = TRUE
  /\ startScanning
  /\ UNCHANGED <<startButton, animating, foundHosts, hosts, presented, device>>

\* Not on Wi-Fi: a warning.  Else TopView.setUIModeToScanning,
\* ScanView.setUIModeToScanning, startScanning.  ScanViewController.hosts keeps the
\* hosts of the last scan.
didPressScan ==
  /\ scanButton = "enabled" /\ presented = "none"
  /\ \E flags \in SUBSET Flags :
     \/ ~isOnWiFi(flags) /\ presentNoWiFiWarning
     \/ /\ isOnWiFi(flags)
        /\ scanButton' = "disabled"
        /\ foundHosts' = <<>> /\ spinner' = TRUE
        /\ startScanning
        /\ UNCHANGED <<startButton, animating, hosts, presented, device>>

\* mutant: the row's index is taken for the host
didSelectIndex(index) ==
  /\ index \in DOMAIN foundHosts /\ presented = "none"
  /\ presented' = "device" /\ device' = index
  /\ UNCHANGED <<scanVars, startButton, animating, scanButton, spinner,
                 foundHosts, hosts, subscribed>>

\* A row is tapped: didSelectTargetDevice looks its index up in hosts and
\* presents the device.  Nothing dismisses a DeviceViewController.
didSelectTargetDevice(index) ==
  /\ index \in DOMAIN foundHosts /\ presented = "none"
  /\ presented' = "device" /\ device' = hosts[index]
  /\ UNCHANGED <<scanVars, startButton, animating, scanButton, spinner,
                 foundHosts, hosts, subscribed>>

-----------------------------------------------------------------------------
(* What the main queue does *)

\* The completion of initScanView's animation, with no look at the scan.
animationCompletes ==
  /\ animating /\ animating' = FALSE
  /\ spinner' = TRUE
  /\ UNCHANGED <<scanVars, startButton, scanButton, foundHosts, hosts,
                 presented, device, subscribed>>

\* mutant: the button is not enabled again
showHostsDisabled(s) ==
  /\ spinner' = FALSE
  /\ hosts' = InOrder(rows'[s]) /\ foundHosts' = hosts'
  /\ UNCHANGED <<startButton, animating, scanButton, presented, device, subscribed>>

\* The subscriber of startScanning: setUIToFinished, hosts, foundHosts.
showHosts(s) ==
  /\ scanButton' = "enabled" /\ spinner' = FALSE
  /\ hosts' = InOrder(rows'[s]) /\ foundHosts' = hosts'
  /\ UNCHANGED <<startButton, animating, presented, device, subscribed>>

\* The pipeline works; the step that delivers runs the subscriber.
Scan(s) ==
  /\ Work(s)
  /\ IF stage'[s] = "delivered" THEN showHosts(s) ELSE UNCHANGED screenVars

ScreenNext ==
  \/ didPressInitialScan \/ didPressScan \/ dismissAlert
  \/ \E index \in DOMAIN foundHosts : didSelectTargetDevice(index)
  \/ animationCompletes
  \/ \E s \in Scans : Scan(s)

\* Each piece of work the pipeline has queued runs, and so does the completion
\* of the animation; the user need not do anything.
ScreenSpec ==
  /\ ScreenInit /\ [][ScreenNext]_vars
  /\ WF_vars(animationCompletes)
  /\ \A s \in Scans : WF_vars(Scan(s))

-----------------------------------------------------------------------------
(* Properties *)

Unfinished(s) == stage[s] \notin {"idle", "delivered"}

\* At most one scan runs.  LANScanner does not ensure it, and the subscriber
\* does not tell scans apart: only the disabled button does.
AtMostOneScan ==
  \A s, t \in Scans : Unfinished(s) /\ Unfinished(t) => s = t

\* The scan button is disabled exactly while a scan has yet to deliver: so also
\* for ever once a scan is dead.
ButtonTracksScan ==
  scanButton = "disabled" <=> \E s \in Scans : Unfinished(s)

\* The rows are what the latest scan delivered: a scan's rows are gone when the
\* next one starts, and none of an older scan comes back.  The array their index is
\* looked up in, a second variable, is the same.
RowsAreLatest ==
  foundHosts # <<>> => /\ stage[subscribed] = "delivered"
                       /\ foundHosts = InOrder(Found(ping[subscribed]))
                       /\ hosts = foundHosts

\* While a scan runs the user sees that it does: the spinner turns, or the
\* animation that ends by showing it is under way.
ScanningIsShown == (\E s \in Scans : Unfinished(s)) => spinner \/ animating

\* A scan that some host answered gives the user the list and the button back.
AnsweredScanIsShown ==
  \A s \in Scans :
    Unfinished(s) /\ Found(ping[s]) # {} ~>
      scanButton = "enabled" /\ foundHosts = InOrder(Found(ping[s]))
=============================================================================
