--------------------------- MODULE DeviceScreenProofs --------------------------
(***************************************************************************)
(* The device screen runs a port scan and a terminal side by side and      *)
(* disturbs neither: each of its steps is one of the scan's or leaves the  *)
(* scan alone, and the same for the terminal. What is proved of the two    *)
(* parts holds on the screen by that.                                      *)
(*                                                                         *)
(* The terminal: isTyping tells of one writer, and nothing comes between   *)
(* its test of the buffer and its removal but an append. Until an append   *)
(* meets a removal, the texts typed, held and buffered are those inserted, *)
(* in order.                                                               *)
(*                                                                         *)
(* The scan: the invariant follows the descriptor through signalForPort,   *)
(* made by connect, kept or closed by select, and closed by the disposable *)
(* that comes after the end of the subscription.                           *)
(*                                                                         *)
(* The display: the screen inserts the header and then the services in the *)
(* order of their ports, and the terminal types in the order of insertion. *)
(***************************************************************************)
EXTENDS DeviceScreen, FiniteSetTheorems, TLAPS

-----------------------------------------------------------------------------
(* The terminal *)

IsRunning(w) == writer[w].step \notin {"none", "done"}

\* A text that was not inserted yet, or whose insertText has not come to its test
\* of isTyping, has started no writer.
NotStarted ==
  /\ \A w \in Texts : w > inserted => writer[w].step = "none"
  /\ main # "idle" => inserted \in Texts /\ writer[inserted].step = "none"

\* There is a writer exactly as long as isTyping is set, and no second one.
OneWriter ==
  /\ \A v, w \in Texts : IsRunning(v) /\ IsRunning(w) => v = w
  /\ \A w \in Texts : IsRunning(w) => isTyping
  /\ isTyping => \E w \in Texts : IsRunning(w)

\* What a writer that is about to type holds.
HoldsChar == \A w \in Texts : writer[w].step = "typing" => writer[w].char \in Chars

\* The inductive invariant of the terminal.
IInv == TypeOK /\ NotStarted /\ OneWriter /\ HoldsChar /\ RemoveIsSafe

LEMMA InitInv == Init => IInv
<1> SUFFICES ASSUME Init PROVE IInv
  OBVIOUS
<1>1. TypeOK
  <2>1. [step |-> "none", array |-> <<>>, char |-> NoChar] \in Writer
    BY DEF Writer, WriterSteps
  <2>2. writer \in [Texts -> Writer]
    BY <2>1 DEF Init
  <2>3. inserted \in 0 .. Inserts
    BY TerminalAssumption DEF Init
  <2>4. loaded \in Seq(Texts) /\ buffer \in Seq(Texts)
    BY DEF Init
  <2>5. mainQueue \in Seq(Chars) /\ text \in Seq(Chars)
    BY DEF Init
  <2>6. main \in MainSteps /\ isTyping \in BOOLEAN /\ raced \in BOOLEAN
    BY DEF Init, MainSteps
  <2> QED BY <2>2, <2>3, <2>4, <2>5, <2>6 DEF TypeOK
<1>2. \A w \in Texts : writer[w].step = "none"
  BY DEF Init
<1> QED
  BY <1>1, <1>2 DEF Init, IInv, NotStarted, OneWriter, IsRunning, HoldsChar, RemoveIsSafe

LEMMA InsertInv == IInv /\ insertText => IInv'
<1> SUFFICES ASSUME IInv, insertText PROVE IInv'
  OBVIOUS
<1>1. inserted \in Nat /\ inserted' = inserted + 1 /\ inserted' \in Texts
  BY TerminalAssumption DEF IInv, TypeOK, insertText, Texts
<1>2. UNCHANGED <<buffer, isTyping, writer, mainQueue, text>>
  BY DEF insertText
<1>3. TypeOK'
  BY <1>1, <1>2 DEF IInv, TypeOK, insertText, Texts, MainSteps
<1>4. NotStarted'
  BY <1>1, <1>2, TerminalAssumption DEF IInv, NotStarted, Texts
<1> QED
  BY <1>2, <1>3, <1>4 DEF IInv, OneWriter, IsRunning, HoldsChar, RemoveIsSafe

LEMMA AppendInv == IInv /\ append => IInv'
<1> SUFFICES ASSUME IInv, append PROVE IInv'
  OBVIOUS
<1>1. UNCHANGED <<inserted, isTyping, writer, mainQueue, text, raced>>
  BY DEF append
<1>2. inserted \in Texts
  BY DEF IInv, NotStarted, append
<1>3. buffer' \in Seq(Texts) /\ buffer' # <<>>
  BY <1>2 DEF IInv, TypeOK, append
<1>4. TypeOK'
  BY <1>1, <1>3 DEF IInv, TypeOK, append, MainSteps
<1>5. NotStarted'
  BY <1>1, <1>2 DEF IInv, NotStarted, append
<1> QED
  BY <1>1, <1>3, <1>4, <1>5 DEF IInv, OneWriter, IsRunning, HoldsChar, RemoveIsSafe

LEMMA GuardInv == IInv /\ guard => IInv'
<1> SUFFICES ASSUME IInv, guard PROVE IInv'
  OBVIOUS
<1>1. /\ UNCHANGED <<inserted, loaded, buffer, mainQueue, text, raced>>
      /\ main = "guarding" /\ main' = "idle"
      /\ inserted \in Texts /\ writer[inserted].step = "none"
  BY DEF IInv, NotStarted, guard
<1>2. CASE isTyping
  BY <1>1, <1>2
  DEF IInv, TypeOK, NotStarted, OneWriter, IsRunning, HoldsChar, RemoveIsSafe, guard, MainSteps
<1>3. CASE ~isTyping
  <2>1. isTyping' = TRUE /\ writer' = [writer EXCEPT ![inserted].step = "check"]
    BY <1>3 DEF guard, writeBufferToConsole
  <2>2. writer \in [Texts -> Writer]
    BY DEF IInv, TypeOK
  <2>3. \A w \in Texts : w # inserted => writer'[w] = writer[w] /\ ~IsRunning(w)
    BY <1>3, <2>1, <2>2 DEF IInv, OneWriter
  <2>4. writer'[inserted] = [writer[inserted] EXCEPT !.step = "check"]
    BY <1>1, <2>1, <2>2
  <2>5. writer'[inserted] \in Writer /\ writer'[inserted].step = "check"
    BY <1>1, <2>2, <2>4 DEF Writer, WriterSteps
  <2>6. writer' \in [Texts -> Writer]
    BY <1>1, <2>1, <2>2, <2>5
  <2>7. TypeOK'
    BY <1>1, <2>1, <2>6 DEF IInv, TypeOK, MainSteps
  <2>8. NotStarted'
    <3>1. \A w \in Texts : w > inserted => w # inserted
      BY <1>1, TerminalAssumption DEF Texts
    <3> QED BY <1>1, <2>3, <3>1 DEF IInv, NotStarted
  <2>9. OneWriter'
    BY <1>1, <2>1, <2>3, <2>5 DEF OneWriter, IsRunning
  <2>10. HoldsChar' /\ RemoveIsSafe'
    BY <1>1, <2>3, <2>5 DEF IInv, HoldsChar, RemoveIsSafe
  <2> QED BY <2>7, <2>8, <2>9, <2>10 DEF IInv
<1> QED BY <1>2, <1>3

LEMMA ShowInv == IInv /\ showCharacter => IInv'
<1> SUFFICES ASSUME IInv, showCharacter PROVE IInv'
  OBVIOUS
<1>1. UNCHANGED <<inserted, main, loaded, buffer, isTyping, writer, raced>>
  BY DEF showCharacter
<1>2. text' \in Seq(Chars) /\ mainQueue' \in Seq(Chars)
  BY DEF IInv, TypeOK, showCharacter
<1>3. TypeOK'
  BY <1>1, <1>2 DEF IInv, TypeOK
<1> QED
  BY <1>1, <1>3 DEF IInv, NotStarted, OneWriter, IsRunning, HoldsChar, RemoveIsSafe

\* A writer that goes on to a running step, and does not touch inserted, main or
\* isTyping, leaves the flags right.
LEMMA WriterGoesOn ==
  ASSUME IInv, NEW w \in Texts, NEW r \in Writer, IsRunning(w),
         writer' = [writer EXCEPT ![w] = r], r.step \notin {"none", "done"},
         UNCHANGED <<inserted, main, isTyping>>
  PROVE  /\ writer' \in [Texts -> Writer] /\ writer'[w] = r
         /\ \A v \in Texts : v # w => writer'[v] = writer[v] /\ ~IsRunning(v)
         /\ NotStarted' /\ OneWriter'
<1>1. writer \in [Texts -> Writer]
  BY DEF IInv, TypeOK
<1>2. writer' \in [Texts -> Writer] /\ writer'[w] = r
  BY <1>1
<1>3. \A v \in Texts : v # w => writer'[v] = writer[v] /\ ~IsRunning(v)
  BY <1>1 DEF IInv, OneWriter
<1>4. NotStarted'
  BY <1>2, <1>3 DEF IInv, NotStarted, IsRunning
<1>5. OneWriter'
  BY <1>2, <1>3 DEF IInv, OneWriter, IsRunning
<1> QED BY <1>2, <1>3, <1>4, <1>5

LEMMA CheckInv == ASSUME IInv, NEW w \in Texts, check(w) PROVE IInv'
<1> DEFINE step == IF buffer = <<>> THEN "clear" ELSE "remove"
           r == [writer[w] EXCEPT !.step = step]
<1>1. writer[w] \in Writer /\ writer[w].step = "check"
  BY DEF IInv, TypeOK, check
<1>2. r \in Writer /\ r.step = step /\ r.step \notin {"none", "done"}
  BY <1>1 DEF Writer, WriterSteps
<1>3. writer' = [writer EXCEPT ![w] = r]
  BY DEF check
<1>4. UNCHANGED <<inserted, main, loaded, buffer, isTyping, mainQueue, text, raced>>
  BY DEF check
<1>5. /\ writer' \in [Texts -> Writer] /\ writer'[w] = r
      /\ \A v \in Texts : v # w => writer'[v] = writer[v] /\ ~IsRunning(v)
      /\ NotStarted' /\ OneWriter'
  <2>1. IsRunning(w)
    BY <1>1 DEF IsRunning
  <2> HIDE DEF r
  <2> QED BY <1>2, <1>3, <1>4, <2>1, WriterGoesOn
<1>6. TypeOK'
  BY <1>4, <1>5 DEF IInv, TypeOK
<1>7. HoldsChar' /\ RemoveIsSafe'
  <2>1. r.step \in {"clear", "remove"} /\ (r.step = "remove" => buffer # <<>>)
    BY <1>2
  <2> HIDE DEF r
  <2> QED BY <1>4, <1>5, <2>1 DEF IInv, HoldsChar, RemoveIsSafe
<1> QED BY <1>5, <1>6, <1>7 DEF IInv

LEMMA LoadInv == ASSUME IInv, NEW w \in Texts, load(w) PROVE IInv'
<1> DEFINE r == [writer[w] EXCEPT !.step = "removing", !.array = buffer]
<1>1. writer[w] \in Writer /\ writer[w].step = "remove" /\ buffer \in Seq(Texts)
  BY DEF IInv, TypeOK, load
<1>2. r \in Writer /\ r.step = "removing" /\ r.array = buffer
  BY <1>1 DEF Writer, WriterSteps
<1>3. writer' = [writer EXCEPT ![w] = r]
  BY DEF load, IInv, TypeOK
<1>4. UNCHANGED <<inserted, main, loaded, buffer, isTyping, mainQueue, text>>
      /\ raced' \in BOOLEAN
  BY DEF load
<1>5. /\ writer' \in [Texts -> Writer] /\ writer'[w] = r
      /\ \A v \in Texts : v # w => writer'[v] = writer[v] /\ ~IsRunning(v)
      /\ NotStarted' /\ OneWriter'
  <2>1. IsRunning(w)
    BY <1>1 DEF IsRunning
  <2> HIDE DEF r
  <2> QED BY <1>2, <1>3, <1>4, <2>1, WriterGoesOn
<1>6. TypeOK'
  BY <1>4, <1>5 DEF IInv, TypeOK
<1>7. buffer # <<>>
  BY <1>1 DEF IInv, RemoveIsSafe
<1>8. HoldsChar' /\ RemoveIsSafe'
  BY <1>2, <1>4, <1>5, <1>7 DEF IInv, HoldsChar, RemoveIsSafe
<1> QED BY <1>5, <1>6, <1>8 DEF IInv

LEMMA RemoveInv == ASSUME IInv, NEW w \in Texts, remove(w) PROVE IInv'
<1> DEFINE array == writer[w].array
           r == [step |-> "typing", array |-> <<>>,
                 char |-> [text |-> Head(array), at |-> 1]]
<1>1. /\ writer[w] \in Writer /\ writer[w].step = "removing"
      /\ array \in Seq(Texts) /\ array # <<>>
  BY DEF IInv, TypeOK, remove, RemoveIsSafe, Writer
<1>2. Head(array) \in Texts /\ Tail(array) \in Seq(Texts)
  BY <1>1
<1>3. r \in Writer /\ r.step = "typing" /\ r.char \in Chars
  BY <1>2, TerminalAssumption DEF Writer, WriterSteps, Chars
<1>4. /\ writer' = [writer EXCEPT ![w] = r] /\ buffer' = Tail(array)
      /\ UNCHANGED <<inserted, main, loaded, isTyping, mainQueue, text, raced>>
  BY DEF remove
<1>5. /\ writer' \in [Texts -> Writer] /\ writer'[w] = r
      /\ \A v \in Texts : v # w => writer'[v] = writer[v] /\ ~IsRunning(v)
      /\ NotStarted' /\ OneWriter'
  <2>1. IsRunning(w)
    BY <1>1 DEF IsRunning
  <2> HIDE DEF r
  <2> QED BY <1>3, <1>4, <2>1, WriterGoesOn
<1>6. TypeOK'
  BY <1>2, <1>4, <1>5 DEF IInv, TypeOK
<1>7. HoldsChar' /\ RemoveIsSafe'
  BY <1>3, <1>5 DEF IInv, HoldsChar, RemoveIsSafe, IsRunning
<1> QED BY <1>5, <1>6, <1>7 DEF IInv

LEMMA WriteInv == ASSUME IInv, NEW w \in Texts, writeToUIAndWait(w) PROVE IInv'
<1> DEFINE char == writer[w].char
           step == IF char.at = Length THEN "check" ELSE "typing"
           next == IF char.at = Length THEN NoChar ELSE [char EXCEPT !.at = @ + 1]
           r == [writer[w] EXCEPT !.step = step, !.char = next]
<1>1. writer[w] \in Writer /\ writer[w].step = "typing" /\ char \in Chars
  BY DEF IInv, TypeOK, writeToUIAndWait, HoldsChar
<1>2. next \in Chars \cup {NoChar} /\ (step = "typing" => next \in Chars)
  BY <1>1, TerminalAssumption DEF Chars
<1>3. r \in Writer /\ r.step = step /\ r.char = next /\ step \in {"check", "typing"}
  <2> HIDE DEF next
  <2> QED BY <1>1, <1>2 DEF Writer, WriterSteps
<1>4. /\ writer' = [writer EXCEPT ![w] = r] /\ mainQueue' = Append(mainQueue, char)
      /\ UNCHANGED <<inserted, main, loaded, buffer, isTyping, text, raced>>
  BY DEF writeToUIAndWait, IInv, TypeOK
<1>5. mainQueue' \in Seq(Chars)
  BY <1>1, <1>4 DEF IInv, TypeOK
<1>6. /\ writer' \in [Texts -> Writer] /\ writer'[w] = r
      /\ \A v \in Texts : v # w => writer'[v] = writer[v] /\ ~IsRunning(v)
      /\ NotStarted' /\ OneWriter'
  <2>1. IsRunning(w)
    BY <1>1 DEF IsRunning
  <2> HIDE DEF r, step
  <2> QED BY <1>3, <1>4, <2>1, WriterGoesOn
<1>7. TypeOK'
  BY <1>4, <1>5, <1>6 DEF IInv, TypeOK
<1>8. HoldsChar' /\ RemoveIsSafe'
  <2> HIDE DEF r, step, next
  <2> QED BY <1>2, <1>3, <1>4, <1>6 DEF IInv, HoldsChar, RemoveIsSafe
<1> QED BY <1>6, <1>7, <1>8 DEF IInv

LEMMA ClearInv == ASSUME IInv, NEW w \in Texts, clear(w) PROVE IInv'
<1>1. /\ writer[w].step = "clear" /\ writer \in [Texts -> Writer]
      /\ writer' = [writer EXCEPT ![w].step = "done"] /\ isTyping' = FALSE
      /\ UNCHANGED <<inserted, main, loaded, buffer, mainQueue, text, raced>>
  BY DEF IInv, TypeOK, clear
<1>2. writer'[w] \in Writer /\ writer'[w].step = "done"
  BY <1>1 DEF Writer, WriterSteps
<1>3. \A v \in Texts : v # w => writer'[v] = writer[v] /\ ~IsRunning(v)
  BY <1>1 DEF IInv, OneWriter, IsRunning
<1>4. writer' \in [Texts -> Writer]
  BY <1>1, <1>2
<1>5. TypeOK'
  BY <1>1, <1>4 DEF IInv, TypeOK
<1>6. NotStarted'
  BY <1>1, <1>2, <1>3 DEF IInv, NotStarted
<1>7. OneWriter'
  BY <1>1, <1>2, <1>3 DEF OneWriter, IsRunning
<1>8. HoldsChar' /\ RemoveIsSafe'
  BY <1>1, <1>2, <1>3 DEF IInv, HoldsChar, RemoveIsSafe
<1> QED BY <1>5, <1>6, <1>7, <1>8 DEF IInv

LEMMA NextInv == IInv /\ [Next]_terminalVars => IInv'
<1> SUFFICES ASSUME IInv, [Next]_terminalVars PROVE IInv'
  OBVIOUS
<1>1. CASE insertText    BY <1>1, InsertInv
<1>2. CASE append        BY <1>2, AppendInv
<1>3. CASE guard         BY <1>3, GuardInv
<1>4. CASE showCharacter BY <1>4, ShowInv
<1>5. ASSUME NEW w \in Texts, WriterStep(w) PROVE IInv'
  BY <1>5, CheckInv, LoadInv, RemoveInv, WriteInv, ClearInv DEF WriterStep
<1>6. CASE UNCHANGED terminalVars
  BY <1>6 DEF IInv, TypeOK, NotStarted, OneWriter, IsRunning, HoldsChar,
              RemoveIsSafe, terminalVars
<1> QED BY <1>1, <1>2, <1>3, <1>4, <1>5, <1>6 DEF Next, MainStep

LEMMA InvGivesOneWriter == IInv => TypingIsOneWriter
<1> SUFFICES ASSUME IInv PROVE TypingIsOneWriter
  OBVIOUS
<1>1. Running = {w \in Texts : IsRunning(w)}
  BY DEF Running, IsRunning
<1>2. isTyping <=> Running # {}
  BY <1>1 DEF IInv, OneWriter
<1>3. Cardinality(Running) <= 1
  <2>1. CASE Running = {}
    BY <2>1, FS_EmptySet
  <2>2. CASE Running # {}
    <3>1. PICK w \in Texts : w \in Running
      BY <1>1, <2>2
    <3>2. Running = {w}
      BY <1>1, <3>1 DEF IInv, OneWriter
    <3>3. Cardinality(Running) = 1
      BY <3>2, FS_Singleton
    <3> QED BY <3>3, SMT
  <2> QED BY <2>1, <2>2
<1> QED BY <1>2, <1>3 DEF TypingIsOneWriter

\* The terminal keeps the inductive invariant, whatever is inserted and when.
THEOREM TerminalInvariant == Spec => []IInv
  BY InitInv, NextInv, PTL DEF Spec

\* isTyping is set exactly while one writer is about, and there is never a second.
THEOREM NeverTwoWriters == Spec => []TypingIsOneWriter
  BY TerminalInvariant, InvGivesOneWriter, PTL

\* A writer never takes a text from an empty array, even when an append raced it.
THEOREM NeverRemovesFromEmpty == Spec => []RemoveIsSafe
<1>1. IInv => RemoveIsSafe
  BY DEF IInv
<1> QED BY TerminalInvariant, <1>1, PTL

-----------------------------------------------------------------------------
(* The texts of the terminal *)

\* The i-th character of texts 1, 2, 3, ... one after the other.
CharAt(i) == [text |-> ((i - 1) \div Length) + 1, at |-> ((i - 1) % Length) + 1]

Typing == {w \in Texts : writer[w].step = "typing"}

\* What a writer types next goes on with the text of the last character posted, or
\* begins one when that text is whole.
NextIsWhole ==
  /\ Typing = {} => Len(Posted) % Length = 0
  /\ \A w \in Typing :
       /\ writer[w].char.at = (Len(Posted) % Length) + 1
       /\ writer[w].char.at > 1 => Posted[Len(Posted)].text = writer[w].char.text

InBuffer == IF main = "appending" THEN inserted - 1 ELSE inserted

\* Texts 1 .. k were taken from the buffer in order, their characters are posted up
\* to the one a writer is at, and the buffer holds the texts after them.  The arrays
\* that the main thread and a writer have loaded are the buffer as it is.
TypedUpTo(k) ==
  /\ \A i \in 1 .. Len(Posted) : Posted[i] = CharAt(i)
  /\ Typing = {} => Len(Posted) = Length * k
  /\ \A w \in Typing : writer[w].char = CharAt(Len(Posted) + 1) /\ writer[w].char.text = k

BufferFrom(k) ==
  /\ k <= InBuffer /\ buffer = [i \in 1 .. InBuffer - k |-> i + k]
  /\ main = "appending" => loaded = buffer /\ Removing = {}
  /\ \A w \in Removing : writer[w].array = buffer

Ordered(k) == TypedUpTo(k) /\ BufferFrom(k)

\* The invariant of what is typed: texts stay whole even after a race, and stay in
\* order before one.
TypedInv ==
  TextsAreWhole /\ NextIsWhole /\ (~raced => \E k \in 0 .. Inserts : Ordered(k))

\* Quotient and remainder, for a divisor the provers do not know.
LEMMA Division ==
  ASSUME NEW L \in Nat \ {0}, NEW n \in Nat
  PROVE  /\ n \div L \in Nat /\ n % L \in 0 .. L - 1
         /\ n = L * (n \div L) + (n % L)
OBVIOUS

LEMMA TimesGrows ==
  ASSUME NEW L \in Nat \ {0}, NEW p \in Nat, NEW q \in Nat, p < q
  PROVE  L * p + L <= L * q
<1>1. PICK d \in Nat : q = p + 1 + d
  <2>1. q - p - 1 \in Nat
    OBVIOUS
  <2> QED BY <2>1
<1>2. L * q = L * p + L + L * d
  BY <1>1
<1>3. L * d \in Nat /\ L * p \in Nat
  OBVIOUS
<1> QED BY <1>2, <1>3

\* There is one way to write a number as a multiple and a rest.
LEMMA DivisionUnique ==
  ASSUME NEW L \in Nat \ {0}, NEW p \in Nat, NEW q \in Nat,
         NEW r \in 0 .. L - 1, NEW s \in 0 .. L - 1, L * p + r = L * q + s
  PROVE  p = q /\ r = s
<1>1. ~(p < q)
  <2> SUFFICES ASSUME p < q PROVE FALSE
    OBVIOUS
  <2>1. L * p + L <= L * q
    BY TimesGrows
  <2>2. L * p \in Nat /\ L * q \in Nat
    OBVIOUS
  <2> DEFINE x == L * p
             y == L * q
  <2> HIDE DEF x, y
  <2>3. x \in Nat /\ y \in Nat /\ x + L <= y /\ x + r = y + s
    BY <2>1, <2>2 DEF x, y
  <2> QED BY <2>3
<1>2. ~(q < p)
  <2> SUFFICES ASSUME q < p PROVE FALSE
    OBVIOUS
  <2>1. L * q + L <= L * p
    BY TimesGrows
  <2>2. L * p \in Nat /\ L * q \in Nat
    OBVIOUS
  <2> DEFINE x == L * p
             y == L * q
  <2> HIDE DEF x, y
  <2>3. x \in Nat /\ y \in Nat /\ y + L <= x /\ x + r = y + s
    BY <2>1, <2>2 DEF x, y
  <2> QED BY <2>3
<1>3. p = q
  BY <1>1, <1>2
<1>4. L * p = L * q /\ L * p \in Nat
  BY <1>3
<1> QED BY <1>3, <1>4

LEMMA Divided ==
  ASSUME NEW L \in Nat \ {0}, NEW q \in Nat, NEW r \in 0 .. L - 1
  PROVE  (L * q + r) \div L = q /\ (L * q + r) % L = r
<1>1. L * q + r \in Nat
  OBVIOUS
<1> DEFINE n == L * q + r
<1> HIDE DEF n
<1>2. n \div L \in Nat /\ n % L \in 0 .. L - 1 /\ n = L * (n \div L) + (n % L)
  BY <1>1, Division DEF n
<1>3. n \div L = q /\ n % L = r
  BY <1>2, DivisionUnique DEF n
<1> QED BY <1>3 DEF n

\* The next number has the next rest, or begins the next multiple.
LEMMA NextDivided ==
  ASSUME NEW L \in Nat \ {0}, NEW n \in Nat
  PROVE  IF n % L = L - 1
         THEN (n + 1) % L = 0 /\ (n + 1) \div L = (n \div L) + 1
         ELSE (n + 1) % L = (n % L) + 1 /\ (n + 1) \div L = n \div L
<1> DEFINE q == n \div L
           r == n % L
<1>1. q \in Nat /\ r \in 0 .. L - 1 /\ n = L * q + r
  BY Division
<1> HIDE DEF q, r
<1>2. CASE r = L - 1
  <2>1. q + 1 \in Nat /\ L * (q + 1) + 0 = n + 1 /\ 0 \in 0 .. L - 1
    BY <1>1, <1>2
  <2>2. (L * (q + 1) + 0) \div L = q + 1 /\ (L * (q + 1) + 0) % L = 0
    BY <2>1, Divided
  <2> QED BY <1>2, <2>1, <2>2 DEF q, r
<1>3. CASE r # L - 1
  <2>1. r + 1 \in 0 .. L - 1 /\ L * q + (r + 1) = n + 1
    BY <1>1, <1>3
  <2>2. (L * q + (r + 1)) \div L = q /\ (L * q + (r + 1)) % L = r + 1
    BY <1>1, <2>1, Divided
  <2> QED BY <1>3, <2>1, <2>2 DEF q, r
<1> QED BY <1>2, <1>3

LEMMA NextCharAt ==
  ASSUME NEW n \in Nat
  PROVE  CharAt(n + 1) = [text |-> (n \div Length) + 1, at |-> (n % Length) + 1]
  BY DEF CharAt

LEMMA TextOfChar ==
  ASSUME NEW i \in Nat \ {0}, NEW c, c = CharAt(i)
  PROVE  c.text = ((i - 1) \div Length) + 1
  BY DEF CharAt

LEMMA PostedType == IInv => Posted \in Seq(Chars)
  BY DEF IInv, TypeOK, Posted

LEMMA ShowPosted == IInv /\ showCharacter => Posted' = Posted
<1> SUFFICES ASSUME IInv, showCharacter PROVE Posted' = Posted
  OBVIOUS
<1>1. /\ text \in Seq(Chars) /\ mainQueue \in Seq(Chars) /\ mainQueue # <<>>
      /\ text' = Append(text, Head(mainQueue)) /\ mainQueue' = Tail(mainQueue)
  BY DEF IInv, TypeOK, showCharacter
<1> QED
  BY <1>1 DEF Posted

LEMMA WritePosted ==
  ASSUME IInv, NEW w \in Texts, writeToUIAndWait(w)
  PROVE  Posted' = Append(Posted, writer[w].char)
<1>1. /\ text \in Seq(Chars) /\ mainQueue \in Seq(Chars) /\ writer[w].char \in Chars
      /\ text' = text /\ mainQueue' = Append(mainQueue, writer[w].char)
  BY DEF IInv, TypeOK, HoldsChar, writeToUIAndWait
<1> QED
  BY <1>1 DEF Posted

\* The writer that runs is the only one that types or removes, before and after it
\* takes a step.
LEMMA WriterTurn ==
  ASSUME IInv, NEW w \in Texts, NEW r \in Writer, IsRunning(w),
         writer' = [writer EXCEPT ![w] = r]
  PROVE  /\ writer'[w] = r
         /\ Typing = (IF writer[w].step = "typing" THEN {w} ELSE {})
         /\ Removing = (IF writer[w].step = "removing" THEN {w} ELSE {})
         /\ Typing' = (IF r.step = "typing" THEN {w} ELSE {})
         /\ Removing' = (IF r.step = "removing" THEN {w} ELSE {})
<1>1. writer'[w] = r /\ \A v \in Texts : v # w => writer'[v] = writer[v]
  BY DEF IInv, TypeOK
<1>2. \A v \in Texts : v # w => writer[v].step \in {"none", "done"}
  BY DEF IInv, OneWriter, IsRunning
<1> QED
  BY <1>1, <1>2 DEF Typing, Removing

\* A step that posts nothing and changes nothing about what is being typed.
LEMMA TypedStays ==
  ASSUME TypedInv, Posted' = Posted, Typing' = Typing,
         \A w \in Typing : writer'[w].char = writer[w].char
  PROVE  TextsAreWhole' /\ NextIsWhole' /\ \A k \in 0 .. Inserts : TypedUpTo(k) => TypedUpTo(k)'
  BY DEF TypedInv, TextsAreWhole, NextIsWhole, TypedUpTo

LEMMA TypedInit == Init => TypedInv
<1> SUFFICES ASSUME Init PROVE TypedInv
  OBVIOUS
<1>1. Posted = <<>> /\ Typing = {} /\ Removing = {} /\ InBuffer = 0
  BY DEF Init, Posted, Typing, Removing, InBuffer
<1>2. 0 \in Nat /\ 0 % Length = 0 /\ Length * 0 = 0
  <2>1. (Length * 0 + 0) % Length = 0
    BY Divided, TerminalAssumption
  <2> QED BY <2>1, TerminalAssumption
<1>3. TextsAreWhole /\ NextIsWhole
  BY <1>1, <1>2 DEF TextsAreWhole, NextIsWhole
<1>4. buffer = [i \in 1 .. InBuffer - 0 |-> i + 0] /\ main # "appending"
  BY <1>1 DEF Init
<1>5. Ordered(0) /\ 0 \in 0 .. Inserts
  BY <1>1, <1>2, <1>4, TerminalAssumption DEF Ordered, TypedUpTo, BufferFrom
<1> QED
  BY <1>3, <1>5 DEF TypedInv

LEMMA InsertTyped == ASSUME IInv, TypedInv, insertText PROVE TypedInv'
<1>1. /\ main = "idle" /\ main' = "appending" /\ inserted' = inserted + 1
      /\ loaded' = buffer /\ raced' = (raced \/ Removing # {})
      /\ UNCHANGED <<buffer, isTyping, writer, mainQueue, text>>
  BY DEF insertText
<1>2. Posted' = Posted /\ Typing' = Typing /\ Removing' = Removing
  BY <1>1 DEF Posted, Typing, Removing
<1>3. InBuffer' = InBuffer
  BY <1>1 DEF InBuffer, IInv, TypeOK
<1>4. /\ TextsAreWhole' /\ NextIsWhole'
      /\ \A k \in 0 .. Inserts : TypedUpTo(k) => TypedUpTo(k)'
  BY <1>1, <1>2, TypedStays
<1>5. ASSUME NEW k \in 0 .. Inserts, Ordered(k), ~raced' PROVE BufferFrom(k)'
  BY <1>1, <1>2, <1>3, <1>5 DEF Ordered, BufferFrom
<1> QED
  BY <1>1, <1>4, <1>5 DEF TypedInv, Ordered

LEMMA AppendTyped == ASSUME IInv, TypedInv, append PROVE TypedInv'
<1>1. /\ main = "appending" /\ main' = "guarding"
      /\ buffer' = Append(loaded, inserted) /\ inserted \in 1 .. Inserts
      /\ UNCHANGED <<inserted, isTyping, writer, mainQueue, text, raced>>
  BY DEF append, IInv, NotStarted, Texts
<1>2. Posted' = Posted /\ Typing' = Typing /\ Removing' = Removing
  BY <1>1 DEF Posted, Typing, Removing
<1>3. InBuffer = inserted - 1 /\ InBuffer' = inserted
  BY <1>1 DEF InBuffer
<1>4. /\ TextsAreWhole' /\ NextIsWhole'
      /\ \A k \in 0 .. Inserts : TypedUpTo(k) => TypedUpTo(k)'
  BY <1>1, <1>2, TypedStays
<1>5. ASSUME NEW k \in 0 .. Inserts, Ordered(k) PROVE BufferFrom(k)'
  <2>1. /\ k <= inserted - 1 /\ Removing = {}
        /\ loaded = [i \in 1 .. (inserted - 1) - k |-> i + k]
    BY <1>1, <1>3, <1>5 DEF Ordered, BufferFrom
  <2>2. k \in Nat /\ inserted \in Nat /\ (inserted - 1) - k \in Nat
    BY <1>1, <2>1, TerminalAssumption
  <2>3. loaded \in Seq(Nat) /\ Len(loaded) = (inserted - 1) - k
    BY <2>1, <2>2
  <2>4. buffer' = [i \in 1 .. inserted - k |-> i + k]
    BY <1>1, <2>1, <2>2, <2>3
  <2> QED BY <1>1, <1>2, <1>3, <2>1, <2>2, <2>4 DEF BufferFrom
<1> QED
  BY <1>1, <1>4, <1>5 DEF TypedInv, Ordered

LEMMA GuardTyped == ASSUME IInv, TypedInv, guard PROVE TypedInv'
<1>1. /\ main = "guarding" /\ main' = "idle" /\ inserted \in Texts
      /\ UNCHANGED <<inserted, loaded, buffer, mainQueue, text, raced>>
  BY DEF guard, IInv, NotStarted
<1>2. /\ Typing' = Typing /\ Removing' = Removing
      /\ \A w \in Typing \cup Removing : writer'[w] = writer[w]
  <2>1. CASE isTyping
    BY <2>1 DEF guard, Typing, Removing
  <2>2. CASE ~isTyping
    <3>1. writer' = [writer EXCEPT ![inserted].step = "check"] /\ writer \in [Texts -> Writer]
      BY <2>2 DEF guard, writeBufferToConsole, IInv, TypeOK
    <3>2. writer'[inserted].step = "check"
      BY <1>1, <3>1 DEF Writer
    <3>3. \A w \in Texts : writer[w].step \in {"none", "done"}
      BY <2>2 DEF IInv, OneWriter, IsRunning
    <3>4. \A w \in Texts : w # inserted => writer'[w] = writer[w]
      BY <3>1
    <3> QED BY <1>1, <3>2, <3>3, <3>4 DEF Typing, Removing
  <2> QED BY <2>1, <2>2
<1>3. Posted' = Posted /\ InBuffer' = InBuffer
  BY <1>1 DEF Posted, InBuffer
<1>4. /\ TextsAreWhole' /\ NextIsWhole'
      /\ \A k \in 0 .. Inserts : TypedUpTo(k) => TypedUpTo(k)'
  BY <1>2, <1>3, TypedStays
<1>5. ASSUME NEW k \in 0 .. Inserts, BufferFrom(k) PROVE BufferFrom(k)'
  BY <1>1, <1>2, <1>3, <1>5 DEF BufferFrom
<1> QED
  BY <1>1, <1>4, <1>5 DEF TypedInv, Ordered

LEMMA ShowTyped == ASSUME IInv, TypedInv, showCharacter PROVE TypedInv'
<1>1. UNCHANGED <<inserted, main, loaded, buffer, isTyping, writer, raced>>
  BY DEF showCharacter
<1>2. Posted' = Posted /\ Typing' = Typing /\ Removing' = Removing /\ InBuffer' = InBuffer
  BY <1>1, ShowPosted DEF Typing, Removing, InBuffer
<1>3. /\ TextsAreWhole' /\ NextIsWhole'
      /\ \A k \in 0 .. Inserts : TypedUpTo(k) => TypedUpTo(k)'
  BY <1>1, <1>2, TypedStays
<1>4. ASSUME NEW k \in 0 .. Inserts, BufferFrom(k) PROVE BufferFrom(k)'
  BY <1>1, <1>2, <1>4 DEF BufferFrom
<1> QED
  BY <1>1, <1>3, <1>4 DEF TypedInv, Ordered

\* A writer's test of the count and its end.
LEMMA CheckTyped ==
  ASSUME IInv, TypedInv, NEW w \in Texts, check(w) \/ clear(w)
  PROVE  TypedInv'
<1>1. /\ writer[w].step \in {"check", "clear"} /\ writer[w] \in Writer
      /\ UNCHANGED <<inserted, main, loaded, buffer, mainQueue, text, raced>>
  BY DEF check, clear, IInv, TypeOK
<1>2. PICK step \in {"clear", "remove", "done"} : writer' = [writer EXCEPT ![w].step = step]
  BY DEF check, clear
<1>3. Typing = {} /\ Removing = {} /\ Typing' = {} /\ Removing' = {}
  <2> DEFINE r == [writer[w] EXCEPT !.step = step]
  <2>1. r \in Writer /\ r.step = step /\ writer' = [writer EXCEPT ![w] = r]
    BY <1>1, <1>2 DEF Writer, WriterSteps
  <2>2. IsRunning(w)
    BY <1>1 DEF IsRunning
  <2> HIDE DEF r
  <2> QED BY <1>1, <2>1, <2>2, WriterTurn
<1>4. Posted' = Posted /\ InBuffer' = InBuffer
  BY <1>1 DEF Posted, InBuffer
<1>5. /\ TextsAreWhole' /\ NextIsWhole'
      /\ \A k \in 0 .. Inserts : TypedUpTo(k) => TypedUpTo(k)'
  BY <1>3, <1>4, TypedStays
<1>6. ASSUME NEW k \in 0 .. Inserts, BufferFrom(k) PROVE BufferFrom(k)'
  BY <1>1, <1>3, <1>4, <1>6 DEF BufferFrom
<1> QED
  BY <1>1, <1>5, <1>6 DEF TypedInv, Ordered

LEMMA LoadTyped ==
  ASSUME IInv, TypedInv, NEW w \in Texts, load(w)
  PROVE  TypedInv'
<1> DEFINE r == [writer[w] EXCEPT !.step = "removing", !.array = buffer]
<1>1. /\ writer[w].step = "remove" /\ writer[w] \in Writer /\ buffer \in Seq(Texts)
      /\ raced' = (raced \/ main = "appending") /\ writer' = [writer EXCEPT ![w] = r]
      /\ UNCHANGED <<inserted, main, loaded, buffer, isTyping, mainQueue, text>>
  BY DEF load, IInv, TypeOK
<1>2. r \in Writer /\ r.step = "removing" /\ r.array = buffer
  BY <1>1 DEF Writer, WriterSteps
<1>3. IsRunning(w)
  BY <1>1 DEF IsRunning
<1> HIDE DEF r
<1>4. Typing = {} /\ Typing' = {} /\ Removing' = {w} /\ writer'[w] = r
  BY <1>1, <1>2, <1>3, WriterTurn
<1>5. Posted' = Posted /\ InBuffer' = InBuffer
  BY <1>1 DEF Posted, InBuffer
<1>6. /\ TextsAreWhole' /\ NextIsWhole'
      /\ \A k \in 0 .. Inserts : TypedUpTo(k) => TypedUpTo(k)'
  BY <1>4, <1>5, TypedStays
<1>7. ASSUME NEW k \in 0 .. Inserts, BufferFrom(k), ~raced' PROVE BufferFrom(k)'
  BY <1>1, <1>2, <1>4, <1>5, <1>7 DEF BufferFrom
<1> QED
  BY <1>1, <1>6, <1>7 DEF TypedInv, Ordered

\* A writer takes the next text: the last one is whole, and this is the one after it.
LEMMA RemoveTyped ==
  ASSUME IInv, TypedInv, NEW w \in Texts, remove(w)
  PROVE  TypedInv'
<1> DEFINE array == writer[w].array
           r == [step |-> "typing", array |-> <<>>,
                 char |-> [text |-> Head(array), at |-> 1]]
<1>1. /\ writer[w].step = "removing" /\ array \in Seq(Texts) /\ array # <<>>
      /\ writer' = [writer EXCEPT ![w] = r] /\ buffer' = Tail(array)
      /\ UNCHANGED <<inserted, main, loaded, isTyping, mainQueue, text, raced>>
  BY DEF remove, IInv, TypeOK, RemoveIsSafe, Writer
<1>2. /\ r \in Writer /\ r.step = "typing"
      /\ r.char = [text |-> Head(array), at |-> 1]
  BY <1>1, TerminalAssumption DEF Writer, WriterSteps, Chars
<1>3. IsRunning(w)
  BY <1>1 DEF IsRunning
<1> HIDE DEF r
<1>4. Typing = {} /\ Removing = {w} /\ Typing' = {w} /\ Removing' = {} /\ writer'[w] = r
  BY <1>1, <1>2, <1>3, WriterTurn
<1>5. Posted' = Posted /\ InBuffer' = InBuffer /\ Len(Posted) \in Nat
  BY <1>1, PostedType DEF Posted, InBuffer
<1>6. TextsAreWhole'
  BY <1>5 DEF TypedInv, TextsAreWhole
<1>7. NextIsWhole'
  <2>1. Len(Posted) % Length = 0 /\ writer'[w].char.at = 1
    BY <1>2, <1>4 DEF TypedInv, NextIsWhole
  <2> QED BY <1>4, <1>5, <2>1 DEF NextIsWhole
<1>8. ASSUME NEW k \in 0 .. Inserts, Ordered(k)
      PROVE  k + 1 \in 0 .. Inserts /\ Ordered(k + 1)'
  <2>1. /\ k \in Nat /\ Len(Posted) = Length * k /\ array = buffer
        /\ main # "appending" /\ k <= InBuffer
        /\ buffer = [i \in 1 .. InBuffer - k |-> i + k]
        /\ InBuffer \in Nat /\ InBuffer <= Inserts
    BY <1>4, <1>8, TerminalAssumption
       DEF Ordered, TypedUpTo, BufferFrom, InBuffer, IInv, TypeOK
  <2>2. k + 1 <= InBuffer
    <3>1. Len(buffer) = InBuffer - k /\ Len(buffer) # 0
      BY <1>1, <2>1
    <3> QED BY <2>1, <3>1
  <2>3. Head(array) = k + 1 /\ buffer' = [i \in 1 .. InBuffer - (k + 1) |-> i + (k + 1)]
    BY <1>1, <2>1, <2>2
  <2>4. CharAt(Len(Posted) + 1) = [text |-> k + 1, at |-> 1]
    <3>1. Length \in Nat \ {0} /\ 0 \in 0 .. Length - 1 /\ k \in Nat
      BY <2>1, TerminalAssumption
    <3>2. (Length * k + 0) \div Length = k /\ (Length * k + 0) % Length = 0
      BY <3>1, Divided
    <3>3. Length * k + 0 = Len(Posted)
      BY <1>5, <2>1, <3>1
    <3>4. Len(Posted) \div Length = k /\ Len(Posted) % Length = 0
      BY <3>2, <3>3
    <3> QED BY <1>5, <3>4, NextCharAt
  <2>5. TypedUpTo(k + 1)'
    <3>1. writer'[w].char = [text |-> k + 1, at |-> 1]
      BY <1>2, <1>4, <2>3
    <3> QED BY <1>4, <1>5, <1>8, <2>4, <3>1 DEF Ordered, TypedUpTo
  <2>6. BufferFrom(k + 1)'
    BY <1>1, <1>4, <1>5, <2>1, <2>2, <2>3 DEF BufferFrom
  <2>7. k + 1 \in 0 .. Inserts
    BY <2>1, <2>2, TerminalAssumption
  <2> QED BY <2>5, <2>6, <2>7 DEF Ordered
<1> QED
  BY <1>1, <1>6, <1>7, <1>8 DEF TypedInv

\* A character is posted: it is the one that comes next, and so is the one the writer
\* goes on with.
LEMMA WriteTyped ==
  ASSUME IInv, TypedInv, NEW w \in Texts, writeToUIAndWait(w)
  PROVE  TypedInv'
<1> DEFINE char == writer[w].char
           n == Len(Posted)
           step == IF char.at = Length THEN "check" ELSE "typing"
           next == IF char.at = Length THEN NoChar ELSE [char EXCEPT !.at = @ + 1]
           r == [writer[w] EXCEPT !.step = step, !.char = next]
<1>1. /\ writer[w].step = "typing" /\ writer[w] \in Writer /\ char \in Chars
      /\ writer' = [writer EXCEPT ![w] = r]
      /\ UNCHANGED <<inserted, main, loaded, buffer, isTyping, text, raced>>
  BY DEF writeToUIAndWait, IInv, TypeOK, HoldsChar
<1>2. next \in Chars \cup {NoChar}
  BY <1>1, TerminalAssumption DEF Chars
<1>3. r \in Writer /\ r.step = step /\ r.char = next
  <2> HIDE DEF next
  <2> QED BY <1>1, <1>2 DEF Writer, WriterSteps
<1>4. IsRunning(w)
  BY <1>1 DEF IsRunning
<1> HIDE DEF r
<1>5. /\ Typing = {w} /\ Removing = {} /\ Removing' = {} /\ writer'[w] = r
      /\ Typing' = IF char.at = Length THEN {} ELSE {w}
  BY <1>1, <1>3, <1>4, WriterTurn
<1>6. /\ Posted \in Seq(Chars) /\ n \in Nat /\ Posted' = Append(Posted, char)
      /\ Posted' \in Seq(Chars) /\ Len(Posted') = n + 1 /\ Posted'[n + 1] = char
      /\ \A i \in 1 .. n : Posted'[i] = Posted[i]
  BY <1>1, PostedType, WritePosted
<1>7. InBuffer' = InBuffer
  BY <1>1 DEF InBuffer
<1>8. /\ char.at = (n % Length) + 1
      /\ char.at > 1 => Posted[n].text = char.text
  BY <1>5 DEF TypedInv, NextIsWhole
<1>9. char.at \in 1 .. Length /\ char.text \in Nat /\ char = [text |-> char.text, at |-> char.at]
  BY <1>1 DEF Chars, Texts
<1>10. char.at # Length => next = [text |-> char.text, at |-> char.at + 1]
  BY <1>9
<1>11. n = Len(Posted) /\ char = writer[w].char
  OBVIOUS
<1> HIDE DEF n, char, next, step
<1>12. Length \in Nat \ {0} /\ 0 \in 0 .. Length - 1
  BY TerminalAssumption
<1>13. /\ n % Length \in 0 .. Length - 1 /\ n \div Length \in Nat
       /\ n = Length * (n \div Length) + (n % Length)
  BY <1>6, <1>12, Division
<1>14. char.at = Length <=> n % Length = Length - 1
  <2> DEFINE m == n % Length
  <2> HIDE DEF m
  <2>1. m \in 0 .. Length - 1 /\ char.at = m + 1
    BY <1>8, <1>13 DEF m
  <2>2. char.at = Length <=> m = Length - 1
    BY <1>12, <2>1
  <2> QED BY <2>2 DEF m
<1>15. IF char.at = Length
       THEN (n + 1) % Length = 0 /\ (n + 1) \div Length = (n \div Length) + 1
       ELSE (n + 1) % Length = (n % Length) + 1 /\ (n + 1) \div Length = n \div Length
  BY <1>6, <1>12, <1>14, NextDivided
<1>16. n = 0 => char.at = 1
  <2>1. (Length * 0 + 0) % Length = 0 /\ Length * 0 + 0 = 0
    BY <1>12, Divided
  <2> QED BY <1>8, <2>1
<1>17. TextsAreWhole'
  <2>1. ASSUME NEW i \in 1 .. n
        PROVE  /\ Posted'[i].at = 1 + ((i - 1) % Length)
               /\ Posted'[i].at > 1 => Posted'[i - 1].text = Posted'[i].text
    <3>1. /\ Posted[i].at = 1 + ((i - 1) % Length)
          /\ Posted[i].at > 1 => Posted[i - 1].text = Posted[i].text
      BY <1>11 DEF TypedInv, TextsAreWhole
    <3>2. CASE i = 1
      <4>1. (Length * 0 + 0) % Length = 0 /\ Length * 0 + 0 = i - 1
        BY <1>12, <3>2, Divided
      <4>2. Posted'[i].at = 1
        BY <1>6, <3>1, <4>1
      <4> QED BY <1>6, <3>1, <4>2
    <3>3. CASE i # 1
      <4>1. i - 1 \in 1 .. n
        BY <1>6, <3>3
      <4> QED BY <1>6, <3>1, <4>1
    <3> QED BY <3>2, <3>3
  <2>2. /\ Posted'[n + 1].at = 1 + (((n + 1) - 1) % Length)
        /\ Posted'[n + 1].at > 1 => Posted'[(n + 1) - 1].text = Posted'[n + 1].text
    <3>1. (n + 1) - 1 = n
      BY <1>6
    <3>2. char.at > 1 => Posted'[n].text = char.text
      <4>1. char.at > 1 => n \in 1 .. n
        BY <1>6, <1>9, <1>16
      <4> QED BY <1>6, <1>8, <4>1
    <3>3. char.at = 1 + (n % Length)
      BY <1>8, <1>13
    <3> QED BY <1>6, <3>1, <3>2, <3>3
  <2>3. \A i \in 1 .. n + 1 : i \in 1 .. n \/ i = n + 1
    BY <1>6
  <2> QED BY <1>6, <2>1, <2>2, <2>3 DEF TextsAreWhole
<1>18. NextIsWhole'
  <2>1. CASE char.at = Length
    BY <1>5, <1>6, <1>15, <2>1 DEF NextIsWhole
  <2>2. CASE char.at # Length
    <3>1. writer'[w].char.at = ((n + 1) % Length) + 1 /\ writer'[w].char.text = char.text
      BY <1>3, <1>5, <1>8, <1>10, <1>15, <2>2
    <3> QED BY <1>5, <1>6, <2>2, <3>1 DEF NextIsWhole
  <2> QED BY <2>1, <2>2
<1>19. ASSUME NEW k \in 0 .. Inserts, Ordered(k) PROVE Ordered(k)'
  <2>1. /\ char = CharAt(n + 1) /\ char.text = k
        /\ \A i \in 1 .. n : Posted[i] = CharAt(i)
    BY <1>5, <1>19, <1>11 DEF Ordered, TypedUpTo
  <2>2. k = (n \div Length) + 1
    <3>1. char = [text |-> (n \div Length) + 1, at |-> (n % Length) + 1]
      BY <1>6, <2>1, NextCharAt
    <3> QED BY <2>1, <3>1
  <2>3. \A i \in 1 .. n + 1 : Posted'[i] = CharAt(i)
    <3>1. \A i \in 1 .. n + 1 : i \in 1 .. n \/ i = n + 1
      BY <1>6
    <3> QED BY <1>6, <2>1, <3>1
  <2>4. CASE char.at = Length
    <3>1. n = Length * (n \div Length) + (Length - 1)
      BY <1>13, <1>14, <2>4
    <3>2. n + 1 = Length * k
      <4> DEFINE q == n \div Length
      <4>1. q \in Nat /\ k = q + 1 /\ n = Length * q + (Length - 1)
        BY <1>13, <2>2, <3>1
      <4> HIDE DEF q
      <4> QED BY <1>12, <4>1
    <3>3. TypedUpTo(k)'
      BY <1>5, <1>6, <2>3, <2>4, <3>2 DEF TypedUpTo
    <3> QED BY <1>1, <1>5, <1>7, <1>19, <3>3 DEF Ordered, BufferFrom
  <2>5. CASE char.at # Length
    <3>1. writer'[w].char = [text |-> k, at |-> char.at + 1]
      BY <1>3, <1>5, <1>10, <2>1, <2>5
    <3>2. CharAt((n + 1) + 1) = [text |-> k, at |-> char.at + 1]
      <4>1. CharAt((n + 1) + 1) = [text |-> ((n + 1) \div Length) + 1,
                                   at |-> ((n + 1) % Length) + 1]
        BY <1>6, NextCharAt
      <4> QED BY <1>8, <1>15, <2>2, <2>5, <4>1
    <3>3. TypedUpTo(k)'
      BY <1>5, <1>6, <2>3, <2>5, <3>1, <3>2 DEF TypedUpTo
    <3> QED BY <1>1, <1>5, <1>7, <1>19, <3>3 DEF Ordered, BufferFrom
  <2> QED BY <2>4, <2>5
<1> QED
  BY <1>1, <1>17, <1>18, <1>19 DEF TypedInv

LEMMA NextTyped == IInv /\ TypedInv /\ [Next]_terminalVars => TypedInv'
<1> SUFFICES ASSUME IInv, TypedInv, [Next]_terminalVars PROVE TypedInv'
  OBVIOUS
<1>1. CASE insertText    BY <1>1, InsertTyped
<1>2. CASE append        BY <1>2, AppendTyped
<1>3. CASE guard         BY <1>3, GuardTyped
<1>4. CASE showCharacter BY <1>4, ShowTyped
<1>5. ASSUME NEW w \in Texts, WriterStep(w) PROVE TypedInv'
  BY <1>5, CheckTyped, LoadTyped, RemoveTyped, WriteTyped DEF WriterStep
<1>6. CASE UNCHANGED terminalVars
  BY <1>6 DEF terminalVars, TypedInv, TextsAreWhole, NextIsWhole, Ordered, TypedUpTo,
              BufferFrom, Posted, Typing, Removing, InBuffer
<1> QED BY <1>1, <1>2, <1>3, <1>4, <1>5, <1>6 DEF Next, MainStep

LEMMA DividedBelow ==
  ASSUME NEW L \in Nat \ {0}, NEW n \in Nat, NEW k \in Nat, n < L * k
  PROVE  n \div L < k
<1> DEFINE q == n \div L
           x == L * q
           y == L * k
<1>1. q \in Nat /\ x \in Nat /\ y \in Nat /\ x <= n /\ n < y
  <2>1. q \in Nat /\ n % L \in Nat /\ n = L * q + (n % L)
    BY Division
  <2> HIDE DEF q
  <2> QED BY <2>1
<1>2. k = q => y = x
  OBVIOUS
<1>3. k < q => y + L <= x
  <2> HIDE DEF q
  <2> QED BY <1>1, TimesGrows
<1> HIDE DEF q, x, y
<1>4. q < k
  BY <1>1, <1>2, <1>3
<1> QED BY <1>4 DEF q

LEMMA InBufferIsNat == IInv => InBuffer \in Nat /\ InBuffer <= Inserts /\ Appended = 1 .. InBuffer
  BY TerminalAssumption DEF IInv, TypeOK, NotStarted, Texts, InBuffer, Appended

\* With a writer at work the text it types is the k-th, and with none all k are posted.
LEMMA PostedUpTo ==
  ASSUME IInv, NEW k \in 0 .. Inserts, TypedUpTo(k)
  PROVE  /\ Typing = {} => Len(Posted) = Length * k
         /\ Typing # {} => k >= 1 /\ Length * (k - 1) <= Len(Posted)
         /\ Len(Posted) <= Length * k
<1> DEFINE n == Len(Posted)
<1>1. n \in Nat /\ k \in Nat /\ Length \in Nat \ {0}
  BY PostedType, TerminalAssumption
<1>2. CASE Typing = {}
  <2>1. n = Length * k
    BY <1>2 DEF TypedUpTo
  <2> QED BY <1>1, <1>2, <2>1
<1>3. CASE Typing # {}
  <2> HIDE DEF n
  <2>1. PICK w \in Typing : writer[w].char = CharAt(n + 1) /\ writer[w].char.text = k
    BY <1>3 DEF TypedUpTo, n
  <2>2. k = (n \div Length) + 1
    <3>1. n + 1 \in Nat \ {0} /\ (n + 1) - 1 = n
      BY <1>1
    <3> QED BY <2>1, <3>1, TextOfChar
  <2> DEFINE q == n \div Length
             r == n % Length
  <2>3. q \in Nat /\ r \in 0 .. Length - 1 /\ n = Length * q + r
    BY <1>1, Division
  <2>4. k = q + 1
    BY <2>2
  <2> HIDE DEF q, r
  <2>5. k - 1 = q /\ k >= 1 /\ Length * k = Length * q + Length /\ Length * q \in Nat
    BY <1>1, <2>3, <2>4
  <2>6. Length * (k - 1) <= n /\ n <= Length * k
    <3>1. Length * (k - 1) = Length * q
      BY <2>5
    <3> DEFINE x == Length * q
    <3> HIDE DEF x
    <3>2. x \in Nat /\ n = x + r /\ Length * (k - 1) = x /\ Length * k = x + Length
      BY <2>3, <2>5, <3>1 DEF x
    <3> QED BY <1>1, <2>3, <3>2
  <2> QED BY <1>3, <2>5, <2>6 DEF n
<1> QED BY <1>2, <1>3

LEMMA TakenUpTo ==
  ASSUME IInv, NEW k \in 0 .. Inserts, TypedUpTo(k)
  PROVE  Taken = 1 .. k
<1> DEFINE n == Len(Posted)
<1>1. n \in Nat /\ k \in Nat /\ Length \in Nat \ {0}
  BY PostedType, TerminalAssumption
<1>2. /\ Typing = {} => n = Length * k
      /\ Typing # {} => k >= 1 /\ Length * (k - 1) <= n
      /\ n <= Length * k
  BY PostedUpTo
<1>3. /\ \A i \in 1 .. n : Posted[i] = CharAt(i)
      /\ \A w \in Typing : writer[w].char.text = k
  BY DEF TypedUpTo
<1>4. Taken = {Posted[i].text : i \in 1 .. n} \cup {writer[w].char.text : w \in Typing}
  BY DEF Taken, Typing
<1> HIDE DEF n
<1>5. ASSUME NEW i \in 1 .. n PROVE Posted[i].text \in 1 .. k
  <2> DEFINE q == (i - 1) \div Length
  <2>1. i - 1 \in Nat /\ Length * k \in Nat
    BY <1>1
  <2>2. i - 1 < Length * k
    <3> DEFINE y == Length * k
    <3> HIDE DEF y
    <3>1. y \in Nat /\ n <= y
      BY <1>2, <2>1 DEF y
    <3>2. i - 1 < y
      BY <1>1, <3>1
    <3> QED BY <3>2 DEF y
  <2>3. q \in Nat /\ q < k
    BY <1>1, <2>1, <2>2, Division, DividedBelow
  <2>4. Posted[i].text = q + 1
    BY <1>1, <1>3, TextOfChar
  <2> HIDE DEF q
  <2> QED BY <1>1, <2>3, <2>4
<1>6. ASSUME NEW w \in Typing PROVE writer[w].char.text \in 1 .. k
  BY <1>1, <1>2, <1>3
<1>7. ASSUME NEW t \in 1 .. k, t < k \/ Typing = {}
      PROVE  \E i \in 1 .. n : Posted[i].text = t
  <2> DEFINE x == Length * (t - 1)
             y == Length * (k - 1)
             z == Length * k
  <2>1. t - 1 \in Nat /\ x \in Nat /\ y \in Int /\ z \in Nat
    BY <1>1
  <2>2. t < k => x + Length <= y
    BY <1>1, <2>1, TimesGrows
  <2>3. x + Length <= z
    BY <1>1, <2>1, TimesGrows
  <2>4. (Typing = {} => n = z) /\ (Typing # {} => y <= n)
    BY <1>2
  <2>5. (x + 0) \div Length = t - 1
    <3>1. 0 \in 0 .. Length - 1
      BY <1>1
    <3> QED BY <1>1, <2>1, <3>1, Divided
  <2> HIDE DEF x, y, z
  <2>6. x + 1 \in 1 .. n
    BY <1>1, <1>7, <2>1, <2>2, <2>3, <2>4
  <2>7. Posted[x + 1].text = t
    <3>1. Posted[x + 1].text = (x \div Length) + 1
      <4>1. x + 1 \in Nat \ {0} /\ (x + 1) - 1 = x
        BY <2>1
      <4> QED BY <1>3, <2>6, <4>1, TextOfChar
    <3>2. x \div Length = t - 1
      BY <2>1, <2>5
    <3> QED BY <3>1, <3>2
  <2> QED BY <2>6, <2>7
<1>8. ASSUME NEW t \in 1 .. k, Typing # {}, ~(t < k)
      PROVE  \E w \in Typing : writer[w].char.text = t
  BY <1>1, <1>3, <1>8
<1>9. \A t \in Taken : t \in 1 .. k
  BY <1>4, <1>5, <1>6
<1>10. \A t \in 1 .. k : t \in Taken
  BY <1>4, <1>7, <1>8
<1> QED BY <1>9, <1>10

\* What the two properties of the texts say of a state where the invariant holds.
LEMMA TypedGives == IInv /\ TypedInv => TextsAreWhole /\ NothingLostIfNotRaced
<1> SUFFICES ASSUME IInv, TypedInv, ~raced PROVE
      /\ Taken = 1 .. Cardinality(Taken)
      /\ buffer = [i \in 1 .. Cardinality(Appended) - Cardinality(Taken) |->
                     i + Cardinality(Taken)]
      /\ Len(Posted) <= Length * Cardinality(Taken)
  BY DEF TypedInv, NothingLostIfNotRaced
<1>1. PICK k \in 0 .. Inserts : Ordered(k)
  BY DEF TypedInv
<1>2. Taken = 1 .. k
  BY <1>1, TakenUpTo DEF Ordered
<1>3. Cardinality(Taken) = k
  BY <1>2, FS_Interval, TerminalAssumption
<1>4. Cardinality(Appended) = InBuffer
  BY InBufferIsNat, FS_Interval
<1>5. Len(Posted) <= Length * k
  BY <1>1, PostedUpTo DEF Ordered
<1> QED
  BY <1>1, <1>2, <1>3, <1>4, <1>5 DEF Ordered, BufferFrom

\* The characters of a text stay together, whatever is inserted and even after a race.
THEOREM TextsStayWhole == Spec => []TextsAreWhole
<1>1. Init /\ [][Next]_terminalVars => [](IInv /\ TypedInv)
  BY InitInv, NextInv, TypedInit, NextTyped, PTL
<1> QED
  BY <1>1, TypedGives, PTL DEF Spec

\* As long as no append overlapped a removal, the terminal types every text it was
\* given once and in order, however many it is given and however long they are.
THEOREM NothingIsLost == Spec => []NothingLostIfNotRaced
<1>1. Init /\ [][Next]_terminalVars => [](IInv /\ TypedInv)
  BY InitInv, NextInv, TypedInit, NextTyped, PTL
<1> QED
  BY <1>1, TypedGives, PTL DEF Spec

-----------------------------------------------------------------------------
(* The port scan *)

\* The only open socket is that of the port at hand, and a client that holds a
\* descriptor has its socket open.
Held ==
  /\ open \subseteq {port}
  /\ \A p \in Ports : fd[p] => p \in open

\* What the place in signalForPort tells of the socket: none before connect, an
\* unowned one before select, and from then on one that the client owns.
Owned ==
  /\ at \in {"connect", "finished"} => open = {}
  /\ at = "select" => open = {port} /\ ~fd[port]
  /\ at \in {"send", "complete", "return"} => \A p \in open : fd[p]

\* The subscription has ended when its disposable arrives.
EndedFirst == at = "return" => port \in ended

\* The inductive invariant of a port scan.
PortsInv == PortsTypeOK /\ Held /\ Owned /\ EndedFirst

LEMMA PortsInitInv == PortsInit => PortsInv
<1> SUFFICES ASSUME PortsInit PROVE PortsInv
  OBVIOUS
<1>1. PortsTypeOK
  BY PortAssumption DEF PortsInit, PortsTypeOK, Ports, Phases, Steps, Results
<1>2. Held /\ Owned /\ EndedFirst
  BY DEF PortsInit, Held, Owned, EndedFirst
<1> QED
  BY <1>1, <1>2 DEF PortsInv

LEMMA StartInv == PortsInv /\ (scanPortsOn \/ subscribe \/ deliver) => PortsInv'
<1> SUFFICES ASSUME PortsInv, scanPortsOn \/ subscribe \/ deliver PROVE PortsInv'
  OBVIOUS
<1>1. UNCHANGED <<port, at, fd, open, ended, result>>
  BY DEF scanPortsOn, subscribe, deliver
<1>2. phase' \in Phases /\ services' \subseteq Ports
  BY DEF scanPortsOn, subscribe, deliver, Services, PortsInv, PortsTypeOK, Phases
<1>3. PortsTypeOK'
  BY <1>1, <1>2 DEF PortsInv, PortsTypeOK
<1> QED
  BY <1>1, <1>3 DEF PortsInv, Held, Owned, EndedFirst

LEMMA ConnectInv == PortsInv /\ connect => PortsInv'
<1> SUFFICES ASSUME PortsInv, connect PROVE PortsInv'
  OBVIOUS
<1>1. /\ open = {} /\ \A p \in Ports : ~fd[p]
      /\ port \in Ports
  BY DEF connect, Working, PortsInv, PortsTypeOK, Held, Owned
<1>2. UNCHANGED <<phase, port, fd, ended, result, services>>
  BY DEF connect
<1>3. \/ at' = "send" /\ open' = {}
      \/ at' = "select" /\ open' = {port}
  BY <1>1 DEF connect
<1>4. PortsTypeOK'
  BY <1>1, <1>2, <1>3 DEF PortsInv, PortsTypeOK, Steps
<1> QED
  BY <1>1, <1>2, <1>3, <1>4 DEF PortsInv, Held, Owned, EndedFirst

LEMMA SelectInv == PortsInv /\ select => PortsInv'
<1> SUFFICES ASSUME PortsInv, select PROVE PortsInv'
  OBVIOUS
<1>1. /\ open = {port} /\ port \in Ports /\ ~fd[port]
      /\ fd \in [Ports -> BOOLEAN]
      /\ \A p \in Ports : fd[p] => p = port
  BY DEF select, Working, PortsInv, PortsTypeOK, Held, Owned
<1>2. at' = "send" /\ UNCHANGED <<phase, port, ended, result, services>>
  BY DEF select
<1>3. CASE fd' = [fd EXCEPT ![port] = TRUE] /\ UNCHANGED open
  <2>1. fd' \in [Ports -> BOOLEAN] /\ fd'[port] /\ \A p \in Ports : fd'[p] => p = port
    BY <1>1, <1>3
  <2>2. PortsTypeOK'
    BY <1>2, <1>3, <2>1 DEF PortsInv, PortsTypeOK, Steps
  <2> QED
    BY <1>1, <1>2, <1>3, <2>1, <2>2 DEF PortsInv, Held, Owned, EndedFirst
<1>4. CASE open' = open \ {port} /\ UNCHANGED fd
  <2>1. open' = {} /\ \A p \in Ports : ~fd'[p]
    BY <1>1, <1>4
  <2>2. PortsTypeOK'
    BY <1>2, <1>4, <2>1 DEF PortsInv, PortsTypeOK, Steps
  <2> QED
    BY <1>2, <2>1, <2>2 DEF PortsInv, Held, Owned, EndedFirst
<1> QED
  BY <1>3, <1>4 DEF select

LEMMA SendInv == PortsInv /\ send => PortsInv'
<1> SUFFICES ASSUME PortsInv, send PROVE PortsInv'
  OBVIOUS
<1>1. at = "send" /\ at' = "complete" /\ UNCHANGED <<port, fd, open, ended, services>>
  BY DEF send, Working
<1>2. result' \in [Ports -> Results]
  BY DEF send, PortsInv, PortsTypeOK, Results
<1>3. phase' \in Phases
  BY DEF send, PortsInv, PortsTypeOK, Phases
<1>4. PortsTypeOK'
  BY <1>1, <1>2, <1>3 DEF PortsInv, PortsTypeOK, Steps
<1> QED
  BY <1>1, <1>4 DEF PortsInv, Held, Owned, EndedFirst

LEMMA CompleteInv == PortsInv /\ complete => PortsInv'
<1> SUFFICES ASSUME PortsInv, complete PROVE PortsInv'
  OBVIOUS
<1>1. /\ at = "complete" /\ at' = "return" /\ ended' = ended \cup {port}
      /\ UNCHANGED <<phase, port, fd, open, result, services>>
  BY DEF complete, Working
<1>2. PortsTypeOK'
  BY <1>1 DEF PortsInv, PortsTypeOK, Steps
<1> QED
  BY <1>1, <1>2 DEF PortsInv, Held, Owned, EndedFirst

\* The disposable of a port that was connected closes its client, and a client that
\* was not has no socket: none is open when the next port is tried.
LEMMA ReturnCloses ==
  ASSUME PortsInv, return
  PROVE  open' = {} /\ fd' \in [Ports -> BOOLEAN] /\ \A p \in Ports : ~fd'[p]
<1>1. /\ port \in ended /\ port \in Ports /\ open \subseteq {port}
      /\ fd \in [Ports -> BOOLEAN] /\ \A p \in open : fd[p]
      /\ \A p \in Ports : fd[p] => p \in open
  BY DEF return, Working, PortsInv, PortsTypeOK, Held, Owned, EndedFirst
<1>2. addDisposable(port)
  BY DEF return
<1>3. CASE fd[port]
  <2>1. fd' = [fd EXCEPT ![port] = FALSE] /\ open' = open \ {port}
    BY <1>1, <1>2, <1>3 DEF addDisposable
  <2> QED
    BY <1>1, <2>1
<1>4. CASE ~fd[port]
  <2>1. UNCHANGED <<fd, open>>
    BY <1>2, <1>4 DEF addDisposable
  <2> QED
    BY <1>1, <1>4, <2>1
<1> QED
  BY <1>3, <1>4

LEMMA ReturnInv == PortsInv /\ return => PortsInv'
<1> SUFFICES ASSUME PortsInv, return PROVE PortsInv'
  OBVIOUS
<1>1. open' = {} /\ fd' \in [Ports -> BOOLEAN] /\ \A p \in Ports : ~fd'[p]
  BY ReturnCloses
<1>2. UNCHANGED <<phase, ended, result, services>>
  BY DEF return
<1>3. port' \in Ports /\ at' \in {"connect", "finished"}
  BY PortAssumption DEF return, PortsInv, PortsTypeOK, Ports
<1>4. PortsTypeOK'
  BY <1>1, <1>2, <1>3 DEF PortsInv, PortsTypeOK, Steps
<1> QED
  BY <1>1, <1>3, <1>4 DEF PortsInv, Held, Owned, EndedFirst

LEMMA PortsNextInv == PortsInv /\ [PortsNext]_portVars => PortsInv'
<1> SUFFICES ASSUME PortsInv, [PortsNext]_portVars PROVE PortsInv'
  OBVIOUS
<1>1. CASE UNCHANGED portVars
  BY <1>1 DEF portVars, PortsInv, PortsTypeOK, Held, Owned, EndedFirst
<1>2. CASE PortsNext
  BY <1>2, StartInv, ConnectInv, SelectInv, SendInv, CompleteInv, ReturnInv DEF PortsNext
<1> QED
  BY <1>1, <1>2

LEMMA PortsInvGives == PortsInv => OneDescriptor
  BY DEF PortsInv, Held, Owned, OneDescriptor

\* The inductive invariant holds throughout a scan of any number of ports.
THEOREM PortsInvariant == PortsSpec => []PortsInv
  BY PortsInitInv, PortsNextInv, PTL DEF PortsSpec

\* One descriptor is enough for a scan of any number of ports: the client of a port
\* is closed before the next is tried, on every path of connect.
THEOREM DescriptorIsReused == PortsSpec => []OneDescriptor
  BY PortsInvariant, PortsInvGives, PTL

-----------------------------------------------------------------------------
(* The screen *)

LEMMA ScreenStepsScan == [ScreenNext]_vars => [PortsNext]_portVars
<1> SUFFICES ASSUME [ScreenNext]_vars PROVE [PortsNext]_portVars
  OBVIOUS
<1>1. CASE UNCHANGED vars
  BY <1>1 DEF vars
<1>2. CASE viewDidLoad \/ insertService \/ TerminalTurn \/ pressKey
  BY <1>2 DEF viewDidLoad, insertService, TerminalTurn, pressKey
<1>3. CASE startPortScan
  BY <1>3 DEF startPortScan, PortsNext
<1>4. CASE subscribeNext
  BY <1>4 DEF subscribeNext, PortsNext
<1>5. CASE ScanStep
  BY <1>5 DEF ScanStep, PortsNext
<1>6. CASE \E w \in Texts : TypeStep(w)
  BY <1>6 DEF TypeStep
<1> QED
  BY <1>1, <1>2, <1>3, <1>4, <1>5, <1>6 DEF ScreenNext, MainTurn

LEMMA ScreenStepsTerminal == [ScreenNext]_vars => [Next]_terminalVars
<1> SUFFICES ASSUME [ScreenNext]_vars PROVE [Next]_terminalVars
  OBVIOUS
<1>1. CASE UNCHANGED vars
  BY <1>1 DEF vars
<1>2. CASE viewDidLoad \/ insertService \/ pressKey
  BY <1>2 DEF viewDidLoad, insertService, pressKey, Say, Next
<1>3. CASE startPortScan \/ subscribeNext \/ ScanStep
  BY <1>3 DEF startPortScan, subscribeNext, ScanStep
<1>4. CASE TerminalTurn
  BY <1>4 DEF TerminalTurn, MainStep, Next
<1>5. CASE \E w \in Texts : TypeStep(w)
  BY <1>5 DEF TypeStep, Next
<1> QED
  BY <1>1, <1>2, <1>3, <1>4, <1>5 DEF ScreenNext, MainTurn

\* The invariants of both parts hold throughout the life of a screen, whatever order
\* the turns of the main thread, the scan and the writers take.
THEOREM ScreenInvariant == ScreenSpec => [](PortsInv /\ IInv)
<1>1. ScreenInit => PortsInv /\ IInv
  BY PortsInitInv, InitInv DEF ScreenInit
<1>2. PortsInv /\ IInv /\ [ScreenNext]_vars => PortsInv' /\ IInv'
  BY ScreenStepsScan, ScreenStepsTerminal, PortsNextInv, NextInv
<1> QED
  BY <1>1, <1>2, PTL DEF ScreenSpec

\* On the screen, too, the scan of any number of ports has one descriptor at a time.
THEOREM ScreenDescriptors == ScreenSpec => []OneDescriptor
  BY ScreenInvariant, PortsInvGives, PTL

\* On the screen, too, the terminal has one writer at most and isTyping tells of it,
\* for any number of services and keys.
THEOREM ScreenOneWriter == ScreenSpec => []TypingIsOneWriter
  BY ScreenInvariant, InvGivesOneWriter, PTL

\* On the screen, too, no writer removes from an empty buffer.
THEOREM ScreenRemovals == ScreenSpec => []RemoveIsSafe
<1>1. IInv => RemoveIsSafe
  BY DEF IInv
<1> QED
  BY ScreenInvariant, <1>1, PTL
-----------------------------------------------------------------------------
(* What the texts say *)

\* The scan takes the ports one after the other, and the join waits for the last.
TakenInOrder ==
  /\ \A p \in Ports : p > port => result[p] = "none"
  /\ at \in {"connect", "select", "send"} => result[port] = "none"
  /\ phase \in {"joined", "delivered"} => \A p \in Ports : result[p] # "none"

\* The header comes first, and the scan after it.
HeaderFirst ==
  /\ said \in Seq({Header, Key} \cup Ports) /\ Len(said) = inserted
  /\ said = <<>> => phase = "idle" /\ turn = <<>>
  /\ said # <<>> => said[1] = Header

SaidUpTo(t) == {u \in 1 .. t : said[u] \in Ports}

\* What was said of the services and what the turn has left to say of them is their
\* list.
Announced ==
  IF phase = "delivered"
  THEN /\ turn \in Seq(Ports)
       /\ Len(turn) + Cardinality(SaidUpTo(inserted)) = Cardinality(Services)
       /\ \A j \in 1 .. Len(turn) :
            turn[j] = InOrder(Services)[Cardinality(SaidUpTo(inserted)) + j]
       /\ \A t \in SaidUpTo(inserted) :
            said[t] = InOrder(Services)[Cardinality(SaidUpTo(t))]
  ELSE turn \in {<<>>, <<StartPortScan>>} /\ SaidUpTo(inserted) = {}

\* The inductive invariant of what the terminal is told.
Telling == TakenInOrder /\ HeaderFirst /\ Announced

\* Of two numbers of a finite set the larger has more of the set up to it.
LEMMA UpToGrows ==
  ASSUME NEW S \in SUBSET Nat, IsFiniteSet(S), NEW m \in S, NEW n \in S, m < n
  PROVE  Cardinality(UpTo(S, m)) < Cardinality(UpTo(S, n))
<1>1. UpTo(S, n) \in SUBSET S /\ UpTo(S, m) \in SUBSET UpTo(S, n)
  <2>1. m \in Nat /\ n \in Nat /\ \A x \in S : x \in Nat
    OBVIOUS
  <2>2. \A x \in UpTo(S, m) : x \in S /\ x <= m
    BY DEF UpTo
  <2>3. \A x \in S : x <= m => x <= n
    BY <2>1
  <2>4. \A x \in UpTo(S, m) : x \in S /\ x <= n
    BY <2>2, <2>3
  <2> QED BY <2>4 DEF UpTo
<1>2. IsFiniteSet(UpTo(S, n)) /\ IsFiniteSet(UpTo(S, m))
  BY <1>1, FS_Subset
<1>3. UpTo(S, m) # UpTo(S, n)
  BY DEF UpTo
<1>4. /\ Cardinality(UpTo(S, m)) <= Cardinality(UpTo(S, n))
      /\ Cardinality(UpTo(S, m)) # Cardinality(UpTo(S, n))
  BY <1>1, <1>2, <1>3, FS_Subset
<1>5. Cardinality(UpTo(S, m)) \in Nat /\ Cardinality(UpTo(S, n)) \in Nat
  BY <1>2, FS_CardinalityType
<1> QED
  BY <1>4, <1>5

\* Every place of the list has its element: the numbers of elements up to those of
\* the set are as many as the set has elements.
LEMMA InOrderIsSeq ==
  ASSUME NEW S \in SUBSET Nat, IsFiniteSet(S)
  PROVE  InOrder(S) \in Seq(S) /\ Len(InOrder(S)) = Cardinality(S)
<1> DEFINE size == Cardinality(S)
           rank == [n \in S |-> Cardinality(UpTo(S, n))]
<1>1. size \in Nat /\ IsFiniteSet(1 .. size) /\ Cardinality(1 .. size) = size
  BY FS_CardinalityType, FS_Interval
<1>2. ASSUME NEW n \in S PROVE rank[n] \in 1 .. size
  <2>1. UpTo(S, n) \in SUBSET S /\ n \in UpTo(S, n)
    BY DEF UpTo
  <2>2. IsFiniteSet(UpTo(S, n)) /\ Cardinality(UpTo(S, n)) <= size
    BY <2>1, FS_Subset
  <2>3. Cardinality(UpTo(S, n)) \in Nat /\ Cardinality(UpTo(S, n)) # 0
    BY <2>1, <2>2, FS_CardinalityType, FS_EmptySet
  <2> QED BY <1>1, <2>2, <2>3
<1>3. ASSUME NEW m \in S, NEW n \in S, rank[m] = rank[n] PROVE m = n
  <2>1. m \in Nat /\ n \in Nat /\ rank[m] \in Nat
    BY <1>2
  <2>2. ~(m < n) /\ ~(n < m)
    BY <1>3, <2>1, UpToGrows
  <2> QED BY <2>1, <2>2
<1>4. rank \in Injection(S, 1 .. size)
  BY <1>2, <1>3 DEF Injection, IsInjective
<1>5. rank \in Surjection(S, 1 .. size)
  BY <1>1, <1>4, FS_Injection
<1>6. ASSUME NEW i \in 1 .. size PROVE \E n \in S : Cardinality(UpTo(S, n)) = i
  BY <1>5 DEF Surjection
<1>7. InOrder(S) \in [1 .. size -> S]
  BY <1>6 DEF InOrder
<1> QED
  BY <1>1, <1>7

LEMMA PortsTakenInit == PortsInit => TakenInOrder
  BY PortAssumption DEF PortsInit, TakenInOrder, Ports

LEMMA PortsTaken == PortsInv /\ TakenInOrder /\ [PortsNext]_portVars => TakenInOrder'
<1> SUFFICES ASSUME PortsInv, TakenInOrder, [PortsNext]_portVars PROVE TakenInOrder'
  OBVIOUS
<1>1. port \in Ports /\ result \in [Ports -> Results] /\ Ports \subseteq Nat
  BY DEF PortsInv, PortsTypeOK, Ports
<1>2. CASE UNCHANGED portVars
  BY <1>2 DEF portVars, TakenInOrder
<1>3. CASE scanPortsOn \/ subscribe \/ deliver \/ connect \/ select \/ complete
  BY <1>3 DEF scanPortsOn, subscribe, deliver, connect, select, complete, Working, TakenInOrder
<1>4. CASE send
  <2>1. /\ at = "send" /\ at' = "complete" /\ port' = port
        /\ \E r \in Results : result' = [result EXCEPT ![port] = r]
        /\ phase' = IF \A p \in Ports : result'[p] # "none" THEN "joined" ELSE phase
    BY <1>4 DEF send, Working, Results
  <2>2. phase \notin {"joined", "delivered"}
    BY <1>1, <2>1 DEF TakenInOrder
  <2>3. \A p \in Ports : p > port => result'[p] = "none"
    BY <1>1, <2>1 DEF TakenInOrder
  <2> QED BY <2>1, <2>2, <2>3 DEF TakenInOrder
<1>5. CASE return
  <2>1. UNCHANGED <<phase, result>>
    BY <1>5 DEF return
  <2>2. CASE port < LastPort
    <3>1. port' = port + 1 /\ at' = "connect" /\ port' \in Ports
      BY <1>1, <1>5, <2>2, PortAssumption DEF return, Ports
    <3>2. \A p \in Ports : p > port' => p > port
      BY <1>1, <3>1
    <3>3. port' > port
      BY <1>1, <3>1
    <3> QED BY <2>1, <3>1, <3>2, <3>3 DEF TakenInOrder
  <2>3. CASE ~(port < LastPort)
    <3>1. port' = port /\ at' = "finished"
      BY <1>5, <2>3 DEF return
    <3> QED BY <2>1, <3>1 DEF TakenInOrder
  <2> QED BY <2>2, <2>3
<1> QED
  BY <1>2, <1>3, <1>4, <1>5 DEF PortsNext

LEMMA SaidIsFinite ==
  ASSUME NEW t \in Nat
  PROVE  IsFiniteSet(SaidUpTo(t)) /\ Cardinality(SaidUpTo(t)) \in Nat
<1>1. SaidUpTo(t) \in SUBSET (1 .. t)
  BY DEF SaidUpTo
<1>2. IsFiniteSet(SaidUpTo(t))
  BY <1>1, FS_Interval, FS_Subset
<1> QED BY <1>2, FS_CardinalityType

LEMMA PortsApart == Header \notin Ports /\ Key \notin Ports /\ StartPortScan \notin Ports
  BY PortAssumption DEF Header, Key, StartPortScan, Ports

\* One more text is said.
LEMMA SayTold ==
  ASSUME HeaderFirst, IInv, NEW what \in {Header, Key} \cup Ports, Say(what)
  PROVE  /\ inserted \in Nat /\ inserted' = inserted + 1
         /\ said' \in Seq({Header, Key} \cup Ports) /\ Len(said') = inserted'
         /\ said'[inserted + 1] = what
         /\ \A t \in 1 .. inserted : said'[t] = said[t]
         /\ \A t \in 0 .. inserted : SaidUpTo(t)' = SaidUpTo(t)
         /\ SaidUpTo(inserted)' = SaidUpTo(inserted) \cup
              (IF what \in Ports THEN {inserted + 1} ELSE {})
         /\ Cardinality(SaidUpTo(inserted)') = Cardinality(SaidUpTo(inserted)) +
              (IF what \in Ports THEN 1 ELSE 0)
<1>1. /\ inserted \in Nat /\ inserted' = inserted + 1 /\ said' = Append(said, what)
      /\ said \in Seq({Header, Key} \cup Ports) /\ Len(said) = inserted
  BY TerminalAssumption DEF HeaderFirst, IInv, TypeOK, Say, insertText
<1>2. /\ said' \in Seq({Header, Key} \cup Ports) /\ Len(said') = inserted + 1
      /\ said'[inserted + 1] = what /\ \A t \in 1 .. inserted : said'[t] = said[t]
  BY <1>1
<1>3. \A t \in 0 .. inserted : SaidUpTo(t)' = SaidUpTo(t)
  BY <1>1, <1>2 DEF SaidUpTo
<1>4. SaidUpTo(inserted)' = SaidUpTo(inserted) \cup
        (IF what \in Ports THEN {inserted + 1} ELSE {})
  <2>1. 1 .. inserted' = (1 .. inserted) \cup {inserted + 1}
    BY <1>1
  <2>2. SaidUpTo(inserted)' = {u \in 1 .. inserted' : said'[u] \in Ports}
    BY DEF SaidUpTo
  <2> QED BY <1>2, <2>1, <2>2 DEF SaidUpTo
<1>5. /\ IsFiniteSet(SaidUpTo(inserted)) /\ Cardinality(SaidUpTo(inserted)) \in Nat
      /\ inserted + 1 \notin SaidUpTo(inserted)
  <2>1. inserted + 1 \notin SaidUpTo(inserted)
    BY <1>1 DEF SaidUpTo
  <2> QED BY <1>1, <2>1, SaidIsFinite
<1>6. Cardinality(SaidUpTo(inserted) \cup {inserted + 1}) = Cardinality(SaidUpTo(inserted)) + 1
  BY <1>5, FS_AddElement
<1>7. Cardinality(SaidUpTo(inserted)') = Cardinality(SaidUpTo(inserted)) +
        (IF what \in Ports THEN 1 ELSE 0)
  BY <1>4, <1>5, <1>6
<1> QED
  BY <1>1, <1>2, <1>3, <1>4, <1>7

LEMMA TellingInit == ScreenInit => Telling
<1> SUFFICES ASSUME ScreenInit PROVE Telling
  OBVIOUS
<1>1. inserted = 0 /\ turn = <<>> /\ said = <<>> /\ phase = "idle" /\ PortsInit
  BY DEF ScreenInit, Init, PortsInit
<1>2. SaidUpTo(inserted) = {}
  BY <1>1 DEF SaidUpTo
<1> QED
  BY <1>1, <1>2, PortsTakenInit DEF Telling, HeaderFirst, Announced

\* A step that says nothing and leaves the turn.
LEMMA TellingStays ==
  ASSUME Telling, UNCHANGED <<turn, said, inserted>>, PortsInv, [PortsNext]_portVars,
         phase # "delivered" => phase' # "delivered",
         phase = "delivered" => phase' = "delivered" /\ UNCHANGED result,
         said = <<>> => phase' = "idle"
  PROVE  Telling'
<1>1. SaidUpTo(inserted)' = SaidUpTo(inserted) /\ \A t : SaidUpTo(t)' = SaidUpTo(t)
  BY DEF SaidUpTo
<1>2. HeaderFirst'
  BY DEF Telling, HeaderFirst
<1>3. Announced'
  <2>1. CASE phase = "delivered"
    <3>1. Services' = Services
      BY <2>1 DEF Services
    <3> QED BY <1>1, <2>1, <3>1 DEF Telling, Announced
  <2>2. CASE phase # "delivered"
    BY <1>1, <2>2 DEF Telling, Announced
  <2> QED BY <2>1, <2>2
<1> QED
  BY <1>2, <1>3, PortsTaken DEF Telling

\* A text that is not of a service: the header or a key.
LEMMA OtherTold ==
  ASSUME Telling, IInv, NEW what \in {Header, Key}, Say(what), UNCHANGED portVars,
         said = <<>> => what = Header /\ turn' = <<StartPortScan>>,
         said # <<>> => turn' = turn
  PROVE  Telling'
<1>1. /\ inserted \in Nat /\ inserted' = inserted + 1
      /\ said' \in Seq({Header, Key} \cup Ports) /\ Len(said') = inserted'
      /\ said'[inserted + 1] = what
      /\ \A t \in 1 .. inserted : said'[t] = said[t]
      /\ \A t \in 0 .. inserted : SaidUpTo(t)' = SaidUpTo(t)
      /\ SaidUpTo(inserted)' = SaidUpTo(inserted)
  BY SayTold, PortsApart DEF Telling
<1>2. said = <<>> <=> inserted = 0
  BY <1>1 DEF Telling, HeaderFirst
<1>3. said'[1] = Header /\ said' # <<>>
  <2>1. CASE said = <<>>
    <3>1. inserted = 0 /\ what = Header /\ inserted + 1 = 1
      BY <1>2, <2>1
    <3>2. said'[1] = Header /\ Len(said') = 1
      BY <1>1, <3>1
    <3> QED BY <3>2
  <2>2. CASE said # <<>>
    <3>1. 1 \in 1 .. inserted
      BY <1>1, <1>2, <2>2
    <3> QED BY <1>1, <2>2, <3>1 DEF Telling, HeaderFirst
  <2> QED BY <2>1, <2>2
<1>4. HeaderFirst'
  BY <1>1, <1>3 DEF HeaderFirst
<1>5. TakenInOrder' /\ Services' = Services /\ phase' = phase
  BY DEF Telling, TakenInOrder, portVars, Services
<1>6. Announced'
  <2>1. CASE phase = "delivered"
    <3>1. turn' = turn
      BY <2>1 DEF Telling, HeaderFirst
    <3>2. \A t \in SaidUpTo(inserted) : t \in 1 .. inserted
      BY DEF SaidUpTo
    <3>3. \A t \in SaidUpTo(inserted) : said'[t] = said[t] /\ SaidUpTo(t)' = SaidUpTo(t)
      BY <1>1, <3>2
    <3> QED BY <1>1, <1>5, <2>1, <3>1, <3>3 DEF Telling, Announced
  <2>2. CASE phase # "delivered"
    BY <1>1, <1>5, <2>2 DEF Telling, Announced
  <2> QED BY <2>1, <2>2
<1> QED
  BY <1>4, <1>5, <1>6 DEF Telling

\* The text of a service: the one the turn has next.
LEMMA ServiceTold ==
  ASSUME Telling, IInv, insertService
  PROVE  Telling'
<1> DEFINE what == Head(turn)
           c == Cardinality(SaidUpTo(inserted))
           list == InOrder(Services)
<1>1. /\ phase = "delivered" /\ turn \in Seq(Ports) /\ turn # <<>>
      /\ Say(what) /\ turn' = Tail(turn) /\ UNCHANGED portVars
  <2>1. turn # <<StartPortScan>>
    BY DEF insertService
  <2> QED BY <2>1 DEF insertService, Telling, Announced
<1>2. what \in Ports /\ what = turn[1]
  BY <1>1
<1>3. /\ inserted \in Nat /\ inserted' = inserted + 1
      /\ said' \in Seq({Header, Key} \cup Ports) /\ Len(said') = inserted'
      /\ said'[inserted + 1] = what
      /\ \A t \in 1 .. inserted : said'[t] = said[t]
      /\ \A t \in 0 .. inserted : SaidUpTo(t)' = SaidUpTo(t)
      /\ SaidUpTo(inserted)' = SaidUpTo(inserted) \cup {inserted + 1}
      /\ Cardinality(SaidUpTo(inserted)') = c + 1
  BY <1>1, <1>2, SayTold DEF Telling
<1>4. HeaderFirst'
  <2>1. said # <<>> /\ inserted # 0
    BY <1>1 DEF Telling, HeaderFirst
  <2>2. 1 \in 1 .. inserted
    BY <1>3, <2>1
  <2>3. said'[1] = Header /\ said' # <<>>
    BY <1>3, <2>1, <2>2 DEF Telling, HeaderFirst
  <2> QED BY <1>3, <2>3 DEF HeaderFirst
<1>5. TakenInOrder' /\ Services' = Services /\ phase' = phase
  BY <1>1 DEF Telling, TakenInOrder, portVars, Services
<1>6. /\ c \in Nat /\ Len(turn) + c = Cardinality(Services)
      /\ \A j \in 1 .. Len(turn) : turn[j] = list[c + j]
      /\ \A t \in SaidUpTo(inserted) : said[t] = list[Cardinality(SaidUpTo(t))]
  BY <1>1, <1>3, SaidIsFinite DEF Telling, Announced
<1>7. /\ Tail(turn) \in Seq(Ports) /\ Len(Tail(turn)) = Len(turn) - 1 /\ Len(turn) \in Nat \ {0}
      /\ \A j \in 1 .. Len(turn) - 1 : Tail(turn)[j] = turn[j + 1]
  BY <1>1
<1> HIDE DEF c, list, what
<1>8. Len(Tail(turn)) + (c + 1) = Cardinality(Services)
  BY <1>6, <1>7
<1>9. ASSUME NEW j \in 1 .. Len(Tail(turn)) PROVE Tail(turn)[j] = list[(c + 1) + j]
  <2>1. j + 1 \in 1 .. Len(turn) /\ c + (j + 1) = (c + 1) + j
    BY <1>6, <1>7
  <2> QED BY <1>6, <1>7, <2>1
<1>10. ASSUME NEW t \in SaidUpTo(inserted)'
       PROVE  said'[t] = list[Cardinality(SaidUpTo(t)')]
  <2>1. CASE t = inserted + 1
    <3>1. SaidUpTo(t)' = SaidUpTo(inserted)'
      BY <1>3, <2>1 DEF SaidUpTo
    <3>2. what = list[c + 1]
      BY <1>2, <1>6, <1>7
    <3> QED BY <1>3, <2>1, <3>1, <3>2
  <2>2. CASE t \in SaidUpTo(inserted)
    <3>1. t \in 1 .. inserted
      BY <2>2 DEF SaidUpTo
    <3>2. said'[t] = said[t] /\ SaidUpTo(t)' = SaidUpTo(t)
      BY <1>3, <3>1
    <3> QED BY <1>6, <2>2, <3>2
  <2> QED BY <1>3, <2>1, <2>2
<1>11. Announced'
  BY <1>1, <1>3, <1>5, <1>7, <1>8, <1>9, <1>10 DEF Announced, list
<1> QED
  BY <1>4, <1>5, <1>11 DEF Telling

LEMMA ServicesInOrder ==
  InOrder(Services) \in Seq(Ports) /\ Len(InOrder(Services)) = Cardinality(Services)
<1>1. Services \in SUBSET Ports /\ Ports \in SUBSET Nat /\ IsFiniteSet(Ports)
  BY PortAssumption, FS_Interval DEF Services, Ports
<1>2. Services \in SUBSET Nat /\ IsFiniteSet(Services)
  BY <1>1, FS_Subset
<1>3. InOrder(Services) \in Seq(Services) /\ Len(InOrder(Services)) = Cardinality(Services)
  BY <1>2, InOrderIsSeq
<1> DEFINE list == InOrder(Services)
<1> HIDE DEF list
<1>4. ASSUME NEW S, NEW T, S \subseteq T, NEW q \in Seq(S) PROVE q \in Seq(T)
  BY <1>4
<1> QED
  BY <1>1, <1>3, <1>4 DEF list

\* The delivery: nothing was said of a service, and the turn has all of them to say.
LEMMA DeliveryTold ==
  ASSUME Telling, PortsInv, IInv, subscribeNext
  PROVE  Telling'
<1>1. /\ phase = "joined" /\ phase' = "delivered" /\ UNCHANGED <<said, inserted, result>>
      /\ services' = Services /\ turn' = InOrder(services')
      /\ [PortsNext]_portVars
  BY DEF subscribeNext, deliver, terminalVars, PortsNext
<1>2. turn' = InOrder(Services) /\ Services' = Services
  BY <1>1 DEF Services
<1>3. SaidUpTo(inserted) = {} /\ SaidUpTo(inserted)' = {}
  BY <1>1 DEF Telling, Announced, SaidUpTo
<1>4. Cardinality(SaidUpTo(inserted)') = 0
  BY <1>3, FS_EmptySet
<1>5. HeaderFirst' /\ TakenInOrder'
  BY <1>1, PortsTaken DEF Telling, HeaderFirst
<1> DEFINE list == InOrder(Services)
<1>6. /\ list \in Seq(Ports) /\ Len(list) = Cardinality(Services)
      /\ Len(list) \in Nat
  BY ServicesInOrder
<1> HIDE DEF list
<1>7. Len(list) + 0 = Cardinality(Services) /\ \A j \in 1 .. Len(list) : list[j] = list[0 + j]
  BY <1>6
<1>8. Announced'
  BY <1>1, <1>2, <1>3, <1>4, <1>6, <1>7 DEF Announced, list
<1> QED
  BY <1>5, <1>8 DEF Telling

LEMMA ScanStarted ==
  ASSUME Telling, PortsInv, IInv, startPortScan
  PROVE  Telling'
<1>1. /\ phase = "idle" /\ phase' \in {"queued", "dead"} /\ turn = <<StartPortScan>>
      /\ turn' = <<>> /\ UNCHANGED <<said, inserted>> /\ [PortsNext]_portVars
  BY DEF startPortScan, scanPortsOn, terminalVars, PortsNext
<1>2. said # <<>>
  BY <1>1 DEF Telling, HeaderFirst
<1>3. SaidUpTo(inserted)' = SaidUpTo(inserted)
  BY <1>1 DEF SaidUpTo
<1> QED
  BY <1>1, <1>2, <1>3, PortsTaken DEF Telling, HeaderFirst, Announced

\* What the threads of the background queue do is told nowhere yet, and the list of
\* services stays once it is delivered.
LEMMA ScanTold ==
  ASSUME Telling, PortsInv, IInv, ScanStep
  PROVE  Telling'
<1>1. UNCHANGED <<turn, said, inserted>> /\ [PortsNext]_portVars
  BY DEF ScanStep, terminalVars, PortsNext
<1>2. phase # "idle" /\ said # <<>>
  BY DEF ScanStep, subscribe, connect, select, send, complete, return, Working,
         Telling, HeaderFirst
<1>3. CASE send
  <2>1. result[port] = "none" /\ port \in Ports /\ phase' \in {"joined", phase}
    BY <1>3 DEF send, Working, Telling, TakenInOrder, PortsInv, PortsTypeOK
  <2>2. phase # "delivered"
    BY <2>1 DEF Telling, TakenInOrder
  <2> QED BY <1>1, <1>2, <2>1, <2>2, TellingStays
<1>4. CASE subscribe \/ connect \/ select \/ complete \/ return
  <2>1. UNCHANGED result /\ (phase' = phase \/ (phase = "queued" /\ phase' = "scanning"))
    BY <1>4 DEF subscribe, connect, select, complete, return
  <2> QED BY <1>1, <1>2, <2>1, TellingStays
<1> QED
  BY <1>3, <1>4 DEF ScanStep

LEMMA TellingNext == Telling /\ PortsInv /\ IInv /\ [ScreenNext]_vars => Telling'
<1> SUFFICES ASSUME Telling, PortsInv, IInv, [ScreenNext]_vars PROVE Telling'
  OBVIOUS
<1>1. CASE UNCHANGED <<portVars, turn, said>> /\ UNCHANGED inserted
  BY <1>1, TellingStays DEF portVars, Telling, HeaderFirst
<1>2. CASE UNCHANGED vars
  BY <1>1, <1>2 DEF vars, terminalVars
<1>3. CASE TerminalTurn
  BY <1>1, <1>3 DEF TerminalTurn, append, guard, showCharacter
<1>4. ASSUME NEW w \in Texts, TypeStep(w) PROVE Telling'
  BY <1>1, <1>4 DEF TypeStep, WriterStep, check, load, remove, writeToUIAndWait, clear
<1>5. CASE viewDidLoad
  BY <1>5, OtherTold DEF viewDidLoad
<1>6. CASE pressKey
  BY <1>6, OtherTold DEF pressKey
<1>7. CASE startPortScan \/ subscribeNext \/ insertService \/ ScanStep
  BY <1>7, ScanStarted, DeliveryTold, ServiceTold, ScanTold
<1> QED
  BY <1>2, <1>3, <1>4, <1>5, <1>6, <1>7 DEF ScreenNext, MainTurn

\* As long as no append overlapped a removal, the i-th text that is complete on the
\* display is the i-th that was given to the terminal.
LEMMA ShownIsSaid ==
  ASSUME IInv, TypedInv, ~raced, NEW i \in 1 .. Len(text) \div Length
  PROVE  i \in 1 .. inserted /\ Shown[i] = said[i]
<1> DEFINE n == Len(text)
           m == n \div Length
           x == Length * (i - 1)
<1>1. /\ text \in Seq(Chars) /\ mainQueue \in Seq(Chars) /\ n \in Nat
      /\ Length \in Nat \ {0}
  BY TerminalAssumption DEF IInv, TypeOK
<1> HIDE DEF n, x
<1>2. m \in Nat /\ n % Length \in Nat /\ n = Length * m + (n % Length)
  <2>1. /\ n \div Length \in Nat /\ n % Length \in 0 .. Length - 1
        /\ n = Length * (n \div Length) + (n % Length)
    BY <1>1, Division
  <2> HIDE DEF m
  <2>2. n % Length \in Nat
    BY <1>1, <2>1
  <2> QED BY <2>1, <2>2 DEF m
<1> HIDE DEF m
<1>3. i \in 1 .. m /\ i \in Nat /\ i - 1 \in Nat
  BY <1>2 DEF m, n
<1>4. x \in Nat /\ x + Length <= Length * m
  <2>1. i - 1 < m
    BY <1>2, <1>3
  <2> QED BY <1>1, <1>2, <1>3, <2>1, TimesGrows DEF x
<1>5. i * Length = x + Length
  BY <1>1, <1>3 DEF x
<1> DEFINE y == Length * m
<1>6. y \in Nat /\ n = y + (n % Length) /\ x + Length <= y
  BY <1>1, <1>2, <1>4
<1> HIDE DEF x, y
<1>7. x + Length \in 1 .. n /\ (x + Length) - 1 = x + (Length - 1) /\ x + Length \in Nat \ {0}
  BY <1>1, <1>2, <1>4, <1>6
<1>8. ((x + Length) - 1) \div Length = i - 1
  <2>1. Length - 1 \in 0 .. Length - 1
    BY <1>1
  <2>2. (Length * (i - 1) + (Length - 1)) \div Length = i - 1
    BY <1>1, <1>3, <2>1, Divided
  <2> QED BY <1>7, <2>2 DEF x
<1>9. x + Length \in 1 .. Len(Posted) /\ Posted[x + Length] = text[x + Length]
  BY <1>1, <1>7 DEF Posted, n
<1>10. PICK k \in 0 .. Inserts : TypedUpTo(k) /\ k <= InBuffer
  BY DEF TypedInv, Ordered, BufferFrom
<1>11. text[x + Length].text = i
  <2>1. Posted[x + Length] = CharAt(x + Length)
    BY <1>9, <1>10 DEF TypedUpTo
  <2>2. Posted[x + Length].text = (i - 1) + 1
    BY <1>7, <1>8, <2>1, TextOfChar
  <2> QED BY <1>3, <1>9, <2>2
<1>12. i \in 1 .. k
  <2>1. Posted[x + Length].text \in Taken
    BY <1>9 DEF Taken
  <2> QED BY <1>9, <1>10, <1>11, <2>1, TakenUpTo
<1>13. i \in 1 .. inserted
  <2>1. inserted \in Nat /\ InBuffer <= inserted /\ InBuffer \in Nat
    BY InBufferIsNat, TerminalAssumption DEF InBuffer, IInv, TypeOK
  <2> QED BY <1>10, <1>12, <2>1, TerminalAssumption
<1>14. Shown[i] = said[text[i * Length].text]
  BY DEF Shown
<1> QED
  BY <1>5, <1>11, <1>13, <1>14

LEMMA TellingGives == IInv /\ TypedInv /\ Telling => DisplayTellsScan
<1> SUFFICES ASSUME IInv, TypedInv, Telling, ~raced
             PROVE  /\ Shown # <<>> => Head(Shown) = Header
                    /\ \A i \in DOMAIN Shown : Shown[i] \in Ports =>
                         LET n == Cardinality(ServicesUpTo(i)) IN
                         /\ phase = "delivered"
                         /\ n \in DOMAIN InOrder(Services)
                         /\ Shown[i] = InOrder(Services)[n]
  BY DEF DisplayTellsScan
<1> DEFINE m == Len(text) \div Length
<1>1. m \in Nat /\ DOMAIN Shown = 1 .. m
  <2>1. Len(text) \in Nat /\ Length \in Nat \ {0}
    BY TerminalAssumption DEF IInv, TypeOK
  <2>2. m \in Nat
    BY <2>1, Division
  <2> QED BY <2>2 DEF Shown
<1>2. \A i \in 1 .. m : i \in 1 .. inserted /\ Shown[i] = said[i]
  BY ShownIsSaid
<1> HIDE DEF m
<1>3. Shown # <<>> => Head(Shown) = Header
  <2>1. ASSUME Shown # <<>> PROVE m # 0
    <3>1. Shown = [i \in 1 .. m |-> said[text[i * Length].text]]
      BY DEF Shown, m
    <3> QED BY <2>1, <3>1
  <2>2. ASSUME m # 0 PROVE Head(Shown) = Header
    <3>1. 1 \in 1 .. m
      BY <1>1, <2>2
    <3>2. Head(Shown) = Shown[1]
      OBVIOUS
    <3>3. said # <<>>
      BY <1>2, <3>1 DEF Telling, HeaderFirst
    <3> QED BY <1>2, <3>1, <3>2, <3>3 DEF Telling, HeaderFirst
  <2> QED BY <2>1, <2>2
<1>4. ASSUME NEW i \in DOMAIN Shown, Shown[i] \in Ports
      PROVE  LET n == Cardinality(ServicesUpTo(i)) IN
             /\ phase = "delivered"
             /\ n \in DOMAIN InOrder(Services)
             /\ Shown[i] = InOrder(Services)[n]
  <2>1. i \in 1 .. m /\ i \in 1 .. inserted /\ said[i] \in Ports /\ Shown[i] = said[i]
    BY <1>1, <1>2, <1>4
  <2>2. ServicesUpTo(i) = SaidUpTo(i)
    <3>1. \A j \in 1 .. i : j \in 1 .. m
      BY <1>1, <2>1
    <3> QED BY <1>2, <3>1 DEF ServicesUpTo, SaidUpTo
  <2>3. i \in SaidUpTo(inserted)
    BY <2>1 DEF SaidUpTo
  <2>4. phase = "delivered"
    BY <2>3 DEF Telling, Announced
  <2> DEFINE n == Cardinality(SaidUpTo(i))
             c == Cardinality(SaidUpTo(inserted))
  <2>5. said[i] = InOrder(Services)[n] /\ c <= Cardinality(Services) /\ c \in Nat
    <3>1. inserted \in Nat
      BY TerminalAssumption DEF IInv, TypeOK
    <3>4. c \in Nat
      BY <3>1, SaidIsFinite
    <3>2. turn \in Seq(Ports) /\ Len(turn) + c = Cardinality(Services)
      BY <2>4 DEF Telling, Announced
    <3>3. said[i] = InOrder(Services)[n]
      BY <2>3, <2>4 DEF Telling, Announced
    <3>5. Len(turn) \in Nat
      BY <3>2
    <3> HIDE DEF c
    <3>6. c <= Cardinality(Services)
      BY <3>2, <3>4, <3>5
    <3> QED BY <3>3, <3>4, <3>6
  <2>6. n \in 1 .. c
    <3>1. i \in SaidUpTo(i) /\ SaidUpTo(i) \in SUBSET SaidUpTo(inserted)
      <4>1. inserted \in Nat /\ i \in 1 .. i /\ \A u \in 1 .. i : u \in 1 .. inserted
        BY <2>1, TerminalAssumption DEF IInv, TypeOK
      <4> QED BY <2>1, <4>1 DEF SaidUpTo
    <3>2. IsFiniteSet(SaidUpTo(inserted))
      <4>1. inserted \in Nat
        BY TerminalAssumption DEF IInv, TypeOK
      <4> QED BY <4>1, SaidIsFinite
    <3>3. IsFiniteSet(SaidUpTo(i)) /\ n <= c
      BY <3>1, <3>2, FS_Subset
    <3>4. n \in Nat /\ n # 0
      BY <3>1, <3>3, FS_CardinalityType, FS_EmptySet
    <3> QED BY <2>5, <3>3, <3>4
  <2>7. n \in DOMAIN InOrder(Services)
    <3>1. DOMAIN InOrder(Services) = 1 .. Cardinality(Services)
      BY DEF InOrder
    <3>2. Cardinality(Services) \in Nat
      BY ServicesInOrder
    <3> QED BY <2>5, <2>6, <3>1, <3>2
  <2> QED BY <2>1, <2>2, <2>4, <2>5, <2>7
<1> QED
  BY <1>3, <1>4

\* The invariants of the texts hold on the screen, for any number of ports and keys.
LEMMA ScreenTold == ScreenSpec => [](IInv /\ TypedInv /\ Telling)
<1>1. ScreenInit => TypedInv
  BY TypedInit DEF ScreenInit
<1>2. IInv /\ TypedInv /\ [ScreenNext]_vars => TypedInv'
  BY ScreenStepsTerminal, NextTyped
<1> QED
  BY <1>1, <1>2, TellingInit, TellingNext, ScreenInvariant, PTL DEF ScreenSpec

\* On the screen, too, the characters of a text stay together.
THEOREM ScreenTextsStayWhole == ScreenSpec => []TextsAreWhole
  BY ScreenTold, TypedGives, PTL

\* On the screen, too, nothing is lost or typed twice before an append meets a removal.
THEOREM ScreenNothingIsLost == ScreenSpec => []NothingLostIfNotRaced
  BY ScreenTold, TypedGives, PTL

\* The display tells the scan, of any number of ports and with texts of any length: the
\* header, then the services in the order of their ports, each once.
THEOREM DisplayTells == ScreenSpec => []DisplayTellsScan
  BY ScreenTold, TellingGives, PTL
=============================================================================
