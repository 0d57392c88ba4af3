--------------------------- MODULE CommandMailbox ---------------------------
(***************************************************************************)
(* SimulatorMain: the script that is read before the simulation runs, and   *)
(* the console, where a reader thread hands command lines to the simulator  *)
(* thread through m_tokens and the flag m_readyToRead.                     *)
(*                                                                         *)
(* A thread's reads and writes take effect in its program order.  What a     *)
(* command does is not modelled, but for TIME and QUIT.                    *)
(***************************************************************************)
EXTENDS Integers, Sequences

CONSTANTS
  Word,          \* the words of commands, as strings
  Milliseconds,  \* the value of the words that are numbers
  Line,          \* the lines that may be typed, with their words
  Scripts,       \* the scripts that may be given, as sequences of lines
  MaxTyped,      \* bound on the lines typed
  MaxScanDelay,  \* MAX_SCAN_DELAY
  MaxNotReady    \* MAX_NOT_READY

Command == Seq(Word)

(* A line of spaces has no words, but it is not empty. *)
IsLine(l) ==
  /\ l \in [empty : BOOLEAN, words : Command]
  /\ l.empty => l.words = <<>>

ASSUME LineAssumption ==
  /\ \A l \in Line : IsLine(l)
  /\ \A s \in Scripts : s \in Seq([empty : BOOLEAN, words : Command]) /\ \A i \in DOMAIN s : IsLine(s[i])
  /\ Milliseconds \in [Word -> Nat]

ASSUME BoundAssumption == MaxTyped \in Nat /\ MaxScanDelay \in Nat \ {0} /\ MaxNotReady \in Nat \ {0}

VARIABLES
  realStack,     \* m_realStack
  script,        \* the script given
  read,          \* lines of it that have been read
  time,          \* the script's time pointer
  agenda,        \* the commands of the script, with the times they are due
  ran,           \* how many of these have been executed
  tokens,        \* m_tokens
  readyToRead,   \* m_readyToRead
  scanDelay,     \* m_scanDelay
  notReadyCount, \* m_notReadyCount
  sim,           \* where the simulator thread is
  reader,        \* where the reader thread is
  line,          \* the words of the line it has read
  rest,          \* those of them it has not yet put into m_tokens
  typed,         \* lines typed so far
  posted,        \* commands inserted as events
  accepted,      \* history: the lines that were taken, by their words
  executed,      \* commands of the console that have been executed
  quit           \* Simulator::Stop was called

scriptVars == <<script, read, time, agenda>>
scanVars == <<scanDelay, notReadyCount>>
readerVars == <<reader, line, rest, typed>>
vars == <<realStack, scriptVars, ran, tokens, readyToRead, scanVars, sim, readerVars, posted,
          accepted, executed, quit>>

TypeOK ==
  /\ realStack \in BOOLEAN /\ readyToRead \in BOOLEAN /\ quit \in BOOLEAN
  /\ script \in Scripts
  /\ read \in 0 .. Len(script)
  /\ time \in Nat
  /\ agenda \in Seq([at : Nat, command : Command])
  /\ ran \in 0 .. Len(agenda)
  /\ tokens \in Command /\ line \in Command /\ rest \in Command
  /\ scanDelay \in 1 .. MaxScanDelay
  /\ notReadyCount \in 0 .. MaxNotReady - 1
  /\ sim \in {"start", "idle", "process", "clear", "release", "exited"}
  /\ reader \in {"none", "getline", "test", "tokenize", "post", "forget"}
  /\ typed \in 0 .. MaxTyped
  /\ posted \in Seq(Command) /\ accepted \in Seq(Command) /\ executed \in Seq(Command)

-----------------------------------------------------------------------------
(* Mutant: the words of the TIME line stay behind. *)
KeptAfterTime(ts) == ts

ClearedAfterTime(ts) == <<>>

(* One line of the script.  A TIME line with a wrong number of arguments is   *)
(* left in m_tokens.  START_TIME is 0 (70), so that no command is too early:  *)
(* one at time 0 takes the way of Reschedule, to the same moment.             *)
ReadScriptLine ==
  LET l == script[read + 1]
      ts == tokens \o l.words      \* Tokenize appends to what is there
  IN  /\ sim = "start"
      /\ read < Len(script)
      /\ read' = read + 1
      /\ IF l.empty \/ ts = <<>>
         THEN UNCHANGED <<tokens, time, agenda>>
         ELSE IF ts[1] = "TIME"
         THEN /\ tokens' = IF Len(ts) = 2 THEN ClearedAfterTime(ts) ELSE ts
              /\ time' = IF Len(ts) = 2 THEN time + Milliseconds[ts[2]] ELSE time
              /\ UNCHANGED agenda
         ELSE /\ agenda' = Append(agenda, [at |-> time, command |-> ts])
              /\ tokens' = <<>>
              /\ UNCHANGED time
      /\ UNCHANGED <<realStack, script, ran, readyToRead, scanVars, sim, readerVars, posted,
                     accepted, executed, quit>>

(* The first scan is scheduled and the reader thread is created. *)
Run ==
  /\ sim = "start"
  /\ read = Len(script)
  /\ sim' = "idle"
  /\ reader' = "getline"
  /\ UNCHANGED <<realStack, scriptVars, ran, tokens, readyToRead, scanVars, line, rest, typed,
                 posted, accepted, executed, quit>>

-----------------------------------------------------------------------------
(* The reader thread. *)
Reads(next) ==
  /\ sim # "exited"
  /\ reader' = next
  /\ UNCHANGED <<realStack, scriptVars, ran, scanVars, sim, executed, quit>>

GetLine(l) ==
  /\ reader = "getline"
  /\ typed < MaxTyped
  /\ typed' = typed + 1
  /\ line' = l.words
  /\ rest' = l.words
  /\ Reads(IF l.empty THEN "getline" ELSE "test")
  /\ UNCHANGED <<tokens, readyToRead, posted, accepted>>

(* Mutant: the reader does not wait for the last command. *)
NeverBusy == FALSE

Busy == readyToRead /\ ~realStack

(* A busy simulator has the line thrown away. *)
TestBusy ==
  /\ reader = "test"
  /\ Reads(IF Busy THEN "getline" ELSE "tokenize")
  /\ UNCHANGED <<tokens, readyToRead, line, rest, typed, posted, accepted>>

Tokenize ==
  /\ reader = "tokenize"
  /\ IF rest # <<>>
     THEN tokens' = Append(tokens, Head(rest)) /\ rest' = Tail(rest) /\ Reads("tokenize")
     ELSE UNCHANGED <<tokens, rest>> /\ Reads(IF tokens = <<>> THEN "getline" ELSE "post")
  /\ UNCHANGED <<readyToRead, line, typed, posted, accepted>>

Post ==
  /\ reader = "post"
  /\ accepted' = Append(accepted, line)
  /\ IF realStack
     THEN posted' = Append(posted, tokens) /\ UNCHANGED readyToRead /\ Reads("forget")
     ELSE readyToRead' = TRUE /\ UNCHANGED posted /\ Reads("getline")
  /\ UNCHANGED <<tokens, line, rest, typed>>

Forget ==
  /\ reader = "forget"
  /\ tokens' = <<>>
  /\ Reads("getline")
  /\ UNCHANGED <<readyToRead, line, rest, typed, posted, accepted>>

-----------------------------------------------------------------------------
(* The simulator thread. *)
Simulates(next) == sim' = next /\ UNCHANGED <<realStack, scriptVars, readerVars, accepted>>

(* ProcessCommandTokens *)
Quits(command) == quit' = (quit \/ command[1] = "QUIT")

(* Mutant: the delay is doubled without a limit. *)
DoubledForever(d) == d * 2

Doubled(d) == IF d * 2 > MaxScanDelay THEN MaxScanDelay ELSE d * 2

(* Mutant: after some scans that found nothing no other is scheduled. *)
ScanDueUntilIdle == ~realStack /\ ~quit /\ notReadyCount + 1 # MaxNotReady

(* After QUIT there is no other scan: the next is at least a millisecond away. *)
ScanDue == ~realStack /\ ~quit

(* ReadCommandTokens looks at the flag. *)
Scan ==
  /\ sim = "idle"
  /\ ScanDue
  /\ IF readyToRead
     THEN scanDelay' = 1 /\ UNCHANGED notReadyCount /\ Simulates("process")
     ELSE /\ Simulates("idle")
          /\ IF notReadyCount + 1 = MaxNotReady
             THEN notReadyCount' = 0 /\ scanDelay' = Doubled(scanDelay)
             ELSE notReadyCount' = notReadyCount + 1 /\ UNCHANGED scanDelay
  /\ UNCHANGED <<ran, tokens, readyToRead, posted, executed, quit>>

Process ==
  /\ sim = "process"
  /\ IF tokens # <<>>
     THEN executed' = Append(executed, tokens) /\ Quits(tokens)
     ELSE UNCHANGED <<executed, quit>>
  /\ Simulates("clear")
  /\ UNCHANGED <<ran, tokens, readyToRead, scanVars, posted>>

Clear ==
  /\ sim = "clear"
  /\ tokens' = <<>>
  /\ Simulates("release")
  /\ UNCHANGED <<ran, readyToRead, scanVars, posted, executed, quit>>

Release ==
  /\ sim = "release"
  /\ readyToRead' = FALSE
  /\ Simulates("idle")
  /\ UNCHANGED <<ran, tokens, scanVars, posted, executed, quit>>

(* A command that the reader thread inserted as an event. *)
RunPosted ==
  /\ sim = "idle"
  /\ posted # <<>>
  /\ posted' = Tail(posted)
  /\ executed' = Append(executed, Head(posted))
  /\ Quits(Head(posted))
  /\ Simulates("idle")
  /\ UNCHANGED <<ran, tokens, readyToRead, scanVars>>

(* The next command of the script is due. *)
RunScript ==
  /\ sim = "idle"
  /\ ran < Len(agenda)
  /\ ran' = ran + 1
  /\ Quits(agenda[ran + 1].command)
  /\ Simulates("idle")
  /\ UNCHANGED <<tokens, readyToRead, scanVars, posted, executed>>

(* Simulator::Run returns and the process exits, wherever the reader thread is: *)
(* main does not call SimulatorMain::Stop, which would cancel it.              *)
Exit ==
  /\ sim = "idle"
  /\ quit
  /\ Simulates("exited")
  /\ UNCHANGED <<ran, tokens, readyToRead, scanVars, posted, executed, quit>>

-----------------------------------------------------------------------------
(* The user may type fewer lines than the bound allows. *)
Init ==
  /\ realStack \in BOOLEAN
  /\ script \in Scripts /\ read = 0
  /\ time = 0 /\ agenda = <<>> /\ ran = 0
  /\ tokens = <<>> /\ readyToRead = FALSE
  /\ scanDelay = 1 /\ notReadyCount = 0
  /\ sim = "start" /\ reader = "none"
  /\ line = <<>> /\ rest = <<>> /\ typed \in 0 .. MaxTyped
  /\ posted = <<>> /\ accepted = <<>> /\ executed = <<>> /\ quit = FALSE

ReaderStep == TestBusy \/ Tokenize \/ Post \/ Forget

ScanStep == Scan \/ Process \/ Clear \/ Release

SimulatorStep == ReadScriptLine \/ Run \/ ScanStep \/ RunPosted \/ RunScript \/ Exit

Next == (\E l \in Line : GetLine(l)) \/ ReaderStep \/ SimulatorStep

(* Threads are scheduled, and so is every event; whether a line is typed is   *)
(* up to the user.                                                           *)
Fairness ==
  /\ WF_vars(ReaderStep)
  /\ WF_vars(ReadScriptLine \/ Run)
  /\ WF_vars(ScanStep) /\ WF_vars(RunPosted) /\ WF_vars(RunScript)
  /\ WF_vars(Exit)

Spec == Init /\ [][Next]_vars /\ Fairness
=============================================================================
