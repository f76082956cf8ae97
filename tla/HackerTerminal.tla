---------------------------- MODULE HackerTerminal ----------------------------
(***************************************************************************)
(* The terminal of the device screen (HackerTerminal.swift): the main      *)
(* thread appends texts to `buffer', a block on a background queue takes   *)
(* them out, and posts them to the main queue one character at a time.     *)
(* Neither `buffer' nor `isTyping' is under a lock, so the unit of a step  *)
(* is one read or one write of them, taken in one order that both threads  *)
(* agree on.                                                               *)
(*                                                                         *)
(* An append and a removal each load the array and later store it.  Two    *)
(* that overlap are a data race: the store of one undoes the other's, so a *)
(* text is lost or comes back.  The race may also crash the process; a run *)
(* that crashes is one that stops, which every safety property allows, and *)
(* no liveness is claimed once `raced' is set.                             *)
(*                                                                         *)
(* A text is the number of its insertText call, and a character is the     *)
(* text it belongs to and its place in it.  A writer is named after the    *)
(* text whose insertText started it.                                       *)
(***************************************************************************)
EXTENDS Naturals, Sequences, FiniteSets

CONSTANTS
  Inserts,   \* how often insertText is called (bound)
  Length     \* characters of a text; the code inserts no empty one

ASSUME TerminalAssumption == Inserts \in Nat /\ Length \in Nat \ {0}

VARIABLES
  inserted,   \* calls of insertText so far
  main,       \* where the main thread is: between turns, or in insertText
  loaded,     \* the array as the append has loaded it
  buffer,
  isTyping,
  writer,     \* [Texts -> Writer]
  mainQueue,  \* characters posted to the main queue
  text,       \* characters on display
  raced       \* an append and a removal have overlapped

terminalVars == <<inserted, main, loaded, buffer, isTyping, writer, mainQueue, text, raced>>

Texts == 1 .. Inserts
Chars == [text : Texts, at : 1 .. Length]
NoChar == [text |-> 0, at |-> 0]
MainSteps == {"idle", "appending", "guarding"}
WriterSteps == {"none", "check", "remove", "removing", "typing", "clear", "done"}
Writer == [step : WriterSteps, array : Seq(Texts), char : Chars \cup {NoChar}]

TypeOK ==
  /\ inserted \in 0 .. Inserts
  /\ main \in MainSteps
  /\ loaded \in Seq(Texts) /\ buffer \in Seq(Texts)
  /\ isTyping \in BOOLEAN /\ raced \in BOOLEAN
  /\ writer \in [Texts -> Writer]
  /\ mainQueue \in Seq(Chars) /\ text \in Seq(Chars)

Init ==
  /\ inserted = 0 /\ main = "idle"
  /\ loaded = <<>> /\ buffer = <<>>
  /\ isTyping = FALSE /\ raced = FALSE
  /\ writer = [w \in Texts |-> [step |-> "none", array |-> <<>>, char |-> NoChar]]
  /\ mainQueue = <<>> /\ text = <<>>

Running == {w \in Texts : writer[w].step \notin {"none", "done"}}
Removing == {w \in Texts : writer[w].step = "removing"}

-----------------------------------------------------------------------------
(* The main thread *)

\* insertText is called, by the device screen or by the keyboard, and the
\* append loads the array.
insertText ==
  /\ main = "idle" /\ inserted < Inserts
  /\ inserted' = inserted + 1
  /\ main' = "appending" /\ loaded' = buffer
  /\ raced' = (raced \/ Removing # {})
  /\ UNCHANGED <<buffer, isTyping, writer, mainQueue, text>>

\* ... and stores it with the text at its end.
append ==
  /\ main = "appending"
  /\ buffer' = Append(loaded, inserted)
  /\ main' = "guarding" /\ loaded' = <<>>
  /\ UNCHANGED <<inserted, isTyping, writer, mainQueue, text, raced>>

\* writeBufferToConsole: the flag is set and a block goes to the background
\* queue.  It is on its way to the first test of its loop.
writeBufferToConsole ==
  /\ isTyping' = TRUE
  /\ writer' = [writer EXCEPT ![inserted].step = "check"]

\* mutant: the guard goes by what is in the buffer, not by the flag
guardByBuffer ==
  /\ main = "guarding"
  /\ IF Len(buffer) > 1 THEN UNCHANGED <<isTyping, writer>> ELSE writeBufferToConsole
  /\ main' = "idle"
  /\ UNCHANGED <<inserted, loaded, buffer, mainQueue, text, raced>>

\* guard !isTyping: the text is left to the writer there is, or starts one.
guard ==
  /\ main = "guarding"
  /\ IF isTyping THEN UNCHANGED <<isTyping, writer>> ELSE writeBufferToConsole
  /\ main' = "idle"
  /\ UNCHANGED <<inserted, loaded, buffer, mainQueue, text, raced>>

\* Between turns the main queue runs the next block, which shows a character.
showCharacter ==
  /\ main = "idle" /\ mainQueue # <<>>
  /\ text' = Append(text, Head(mainQueue))
  /\ mainQueue' = Tail(mainQueue)
  /\ UNCHANGED <<inserted, main, loaded, buffer, isTyping, writer, raced>>

-----------------------------------------------------------------------------
(* A writer *)

\* mutant: the loop is entered on an empty buffer
checkOffByOne(w) ==
  /\ writer[w].step = "check"
  /\ writer' = [writer EXCEPT ![w].step = IF Len(buffer) < 0 THEN "clear" ELSE "remove"]
  /\ UNCHANGED <<inserted, main, loaded, buffer, isTyping, mainQueue, text, raced>>

\* while self.buffer.count > 0
check(w) ==
  /\ writer[w].step = "check"
  /\ writer' = [writer EXCEPT ![w].step = IF buffer = <<>> THEN "clear" ELSE "remove"]
  /\ UNCHANGED <<inserted, main, loaded, buffer, isTyping, mainQueue, text, raced>>

\* self.buffer.remove(at: 0) loads the array
load(w) ==
  /\ writer[w].step = "remove"
  /\ writer' = [writer EXCEPT ![w].step = "removing", ![w].array = buffer]
  /\ raced' = (raced \/ main = "appending")
  /\ UNCHANGED <<inserted, main, loaded, buffer, isTyping, mainQueue, text>>

\* mutant: the last text is taken instead of the first
removeLast(w) ==
  LET array == writer[w].array IN
  /\ writer[w].step = "removing"
  /\ buffer' = SubSeq(array, 1, Len(array) - 1)
  /\ writer' = [writer EXCEPT ![w] =
       [step |-> "typing", array |-> <<>>,
        char |-> [text |-> array[Len(array)], at |-> 1]]]
  /\ UNCHANGED <<inserted, main, loaded, isTyping, mainQueue, text, raced>>

\* ... and stores it without its first text, which the writer keeps.
remove(w) ==
  LET array == writer[w].array IN
  /\ writer[w].step = "removing"
  /\ buffer' = Tail(array)
  /\ writer' = [writer EXCEPT ![w] =
       [step |-> "typing", array |-> <<>>, char |-> [text |-> Head(array), at |-> 1]]]
  /\ UNCHANGED <<inserted, main, loaded, isTyping, mainQueue, text, raced>>

\* mutant: the writer ends after one text, as if the loop were an `if'
writeOnce(w) ==
  LET char == writer[w].char IN
  /\ writer[w].step = "typing"
  /\ mainQueue' = Append(mainQueue, char)
  /\ writer' = [writer EXCEPT
       ![w].step = IF char.at = Length THEN "clear" ELSE "typing",
       ![w].char = IF char.at = Length THEN NoChar ELSE [char EXCEPT !.at = @ + 1]]
  /\ UNCHANGED <<inserted, main, loaded, buffer, isTyping, text, raced>>

\* writeToUIAndWait: one character is posted; after the last one the loop tests
\* the buffer again.
writeToUIAndWait(w) ==
  LET char == writer[w].char IN
  /\ writer[w].step = "typing"
  /\ mainQueue' = Append(mainQueue, char)
  /\ writer' = [writer EXCEPT
       ![w].step = IF char.at = Length THEN "check" ELSE "typing",
       ![w].char = IF char.at = Length THEN NoChar ELSE [char EXCEPT !.at = @ + 1]]
  /\ UNCHANGED <<inserted, main, loaded, buffer, isTyping, text, raced>>

\* mutant: the flag is not taken back
clearForgotten(w) ==
  /\ writer[w].step = "clear"
  /\ writer' = [writer EXCEPT ![w].step = "done"]
  /\ UNCHANGED <<inserted, main, loaded, buffer, isTyping, mainQueue, text, raced>>

\* self.isTyping = false, some time after the test that found the buffer empty
clear(w) ==
  /\ writer[w].step = "clear"
  /\ isTyping' = FALSE
  /\ writer' = [writer EXCEPT ![w].step = "done"]
  /\ UNCHANGED <<inserted, main, loaded, buffer, mainQueue, text, raced>>

WriterStep(w) ==
  check(w) \/ load(w) \/ remove(w) \/ writeToUIAndWait(w) \/ clear(w)
MainStep == append \/ guard \/ showCharacter

Next == insertText \/ MainStep \/ \E w \in Texts : WriterStep(w)

\* The main thread comes back to its queue, and the background queue runs its
\* blocks.  Nobody has to insert anything.
Fairness == WF_terminalVars(MainStep) /\ \A w \in Texts : WF_terminalVars(WriterStep(w))

Spec == Init /\ [][Next]_terminalVars /\ Fairness

-----------------------------------------------------------------------------
(* Properties *)

\* The characters a terminal has shown or is about to.
Posted == text \o mainQueue

\* isTyping, which nothing protects, tells whether a writer is about, and there
\* is never a second one: the flag is set before the writer starts and cleared as
\* the last thing it does.
TypingIsOneWriter ==
  Cardinality(Running) <= 1 /\ (isTyping <=> Running # {})

\* remove(at: 0) traps on an empty array.  Between the test of the count and the
\* removal nobody may have emptied the buffer, even when an append raced.
RemoveIsSafe ==
  \A w \in Texts : /\ writer[w].step = "remove" => buffer # <<>>
                   /\ writer[w].step = "removing" => writer[w].array # <<>>

\* The characters of one text follow each other with no other text between them,
\* whatever is inserted meanwhile and even after a race.
TextsAreWhole ==
  \A i \in 1 .. Len(Posted) :
    /\ Posted[i].at = 1 + ((i - 1) % Length)
    /\ Posted[i].at > 1 => Posted[i - 1].text = Posted[i].text

\* Texts taken out of the buffer, texts in it, and the text still being appended.
Taken == {Posted[i].text : i \in 1 .. Len(Posted)}
         \cup {writer[w].char.text : w \in {v \in Texts : writer[v].step = "typing"}}
Appended == IF main = "appending" THEN 1 .. inserted - 1 ELSE 1 .. inserted

\* As long as no append overlapped a removal no text is lost or typed twice: the
\* buffer holds, in order, exactly the texts that follow those taken.
NothingLostIfNotRaced ==
  ~raced =>
    /\ Taken = 1 .. Cardinality(Taken)
    /\ buffer = [i \in 1 .. Cardinality(Appended) - Cardinality(Taken) |->
                   i + Cardinality(Taken)]
    /\ Len(Posted) <= Length * Cardinality(Taken)
=============================================================================
