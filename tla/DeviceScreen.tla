----------------------------- MODULE DeviceScreen -----------------------------
(***************************************************************************)
(* The device screen (DeviceViewController.swift): the scan of a host's    *)
(* ports (PortScanner) and the terminal it is told in (HackerTerminal).    *)
(*                                                                         *)
(* Loading the screen types a header and starts the scan in one turn of    *)
(* the main thread; the delivery of the scan types one text per service in *)
(* another.  The writer of the terminal runs beside both turns, so a text  *)
(* may meet it anywhere in its loop, and so does the scan, which may be    *)
(* over before the header is typed.  Nothing dismisses the screen, so its  *)
(* `self' stays.                                                           *)
(***************************************************************************)
EXTENDS PortScanner, HackerTerminal, Ascending

CONSTANT Keys   \* texts that come from a keyboard (bound)

ASSUME ScreenAssumption == Keys \in Nat /\ Inserts = 1 + LastPort + Keys

VARIABLES
  turn,   \* what the main thread has left to do in its present turn
  said    \* what the texts say: said[t] is that of the t-th insertText

vars == <<portVars, terminalVars, turn, said>>

\* What a text says: the header, or that a port has a service, or anything.
Header == 0
Key == LastPort + 1

\* What a turn has left to do: startPortScan, or the text of a port.
StartPortScan == 0

ScreenTypeOK ==
  /\ PortsTypeOK /\ TypeOK
  /\ turn \in Seq({StartPortScan} \cup Ports)
  /\ said \in Seq({Header, Key} \cup Ports) /\ Len(said) = inserted

ScreenInit == PortsInit /\ Init /\ turn = <<>> /\ said = <<>>

BetweenTurns == main = "idle" /\ turn = <<>>
Say(what) == insertText /\ said' = Append(said, what)

-----------------------------------------------------------------------------
(* The turns of the main thread *)

\* viewDidLoad: the header, then the scan.
viewDidLoad ==
  /\ BetweenTurns /\ said = <<>>
  /\ Say(Header)
  /\ turn' = <<StartPortScan>>
  /\ UNCHANGED portVars

startPortScan ==
  /\ main = "idle" /\ turn = <<StartPortScan>>
  /\ scanPortsOn
  /\ turn' = <<>>
  /\ UNCHANGED <<terminalVars, said>>

\* mutant: every port is announced, whatever it sent
subscribeNextUnfiltered ==
  /\ BetweenTurns
  /\ deliver
  /\ turn' = InOrder(Ports)
  /\ UNCHANGED <<terminalVars, said>>

\* The services are delivered: an array in the order of the ports, which the
\* filter keeps.
subscribeNext ==
  /\ BetweenTurns
  /\ deliver
  /\ turn' = InOrder(services')
  /\ UNCHANGED <<terminalVars, said>>

\* printable.forEach: the texts of the services, all in the turn that delivers.
insertService ==
  /\ main = "idle" /\ turn # <<>> /\ Head(turn) # StartPortScan
  /\ Say(Head(turn))
  /\ turn' = Tail(turn)
  /\ UNCHANGED portVars

\* The terminal is the first responder once it has a text: a keyboard may add
\* more.
pressKey ==
  /\ BetweenTurns /\ said # <<>>
  /\ Len(SelectSeq(said, LAMBDA what : what = Key)) < Keys
  /\ Say(Key)
  /\ UNCHANGED <<portVars, turn>>

\* The rest of an insertText, or the block of a character between two turns.
TerminalTurn ==
  /\ append \/ guard \/ (turn = <<>> /\ showCharacter)
  /\ UNCHANGED <<portVars, turn, said>>

MainTurn == viewDidLoad \/ startPortScan \/ subscribeNext \/ insertService \/ TerminalTurn

-----------------------------------------------------------------------------
(* The background queue *)

ScanStep ==
  /\ subscribe \/ connect \/ select \/ send \/ complete \/ return
  /\ UNCHANGED <<terminalVars, turn, said>>

TypeStep(w) == WriterStep(w) /\ UNCHANGED <<portVars, turn, said>>

ScreenNext == MainTurn \/ pressKey \/ ScanStep \/ \E w \in Texts : TypeStep(w)

\* The main thread gets on with its turn and runs the blocks of its queue, the
\* background queue runs its blocks, and connect returns within its second.
\* Nobody has to press a key.
ScreenFairness ==
  /\ WF_vars(MainTurn) /\ WF_vars(ScanStep)
  /\ \A w \in Texts : WF_vars(TypeStep(w))

ScreenSpec == ScreenInit /\ [][ScreenNext]_vars /\ ScreenFairness

-----------------------------------------------------------------------------
(* Properties *)

\* The texts that are complete on the display, by what they say.
Shown == [i \in 1 .. Len(text) \div Length |-> said[text[i * Length].text]]
ServicesUpTo(i) == {j \in 1 .. i : Shown[j] \in Ports}

\* The display tells the scan: the header, then the services, where the n-th that is
\* shown is the n-th in the order of their ports, so each is there once and none that
\* was not found, whatever a keyboard puts in between and whenever the scan is over.
\* An append that overlaps a removal, which the second service of a delivery may, ends
\* the promise.
DisplayTellsScan ==
  ~raced =>
    /\ Shown # <<>> => Head(Shown) = Header
    /\ \A i \in DOMAIN Shown : Shown[i] \in Ports =>
         LET n == Cardinality(ServicesUpTo(i)) IN
         /\ phase = "delivered"
         /\ n \in DOMAIN InOrder(Services) /\ Shown[i] = InOrder(Services)[n]

\* In the end the scan is delivered or dead with no socket left open, the turn that
\* announced the services is over, no writer runs, and every text that started a
\* writer is shown with all the texts before it.  What is not shown by then was
\* appended after the last writer's last look at the buffer and is stranded there:
\* the code shows it with the next text that starts a writer, and there is none.
Started == {t \in Texts : writer[t].step # "none"}
ServicesAreShown ==
  <>[](raced \/ /\ phase \in {"dead", "delivered"} /\ open = {} /\ BetweenTurns
                /\ Services \subseteq {said[t] : t \in 1 .. inserted}
                /\ Running = {} /\ mainQueue = <<>>
                /\ \A t \in Started : t <= Len(Shown))
=============================================================================
