------------------------ MODULE CommandMailbox_proofs ------------------------
(***************************************************************************)
(* The console is a CommandQueue for any lines and any interleaving of the  *)
(* two threads, after a script whose TIME lines have their one argument.    *)
(***************************************************************************)
EXTENDS CommandMailboxProperties, SequenceTheorems, FiniteSetTheorems, WellFoundedInduction, TLAPS

LineWords == {l.words : l \in Line}

Typed ==
  /\ realStack \in BOOLEAN /\ readyToRead \in BOOLEAN /\ quit \in BOOLEAN
  /\ script \in Scripts /\ read \in 0 .. Len(script)
  /\ tokens \in Command /\ line \in Command /\ rest \in Command
  /\ sim \in {"start", "idle", "process", "clear", "release", "exited"}
  /\ reader \in {"none", "getline", "test", "tokenize", "post", "forget"}
  /\ posted \in Seq(Command) /\ accepted \in Seq(Command) /\ executed \in Seq(Command)

Scanning == sim \in {"process", "clear", "release"}

(* Who is where: the scan works on the mailbox only while the flag is set, the *)
(* reader only while it is not; the real stack uses neither.                  *)
Apart ==
  /\ sim = "start" <=> reader = "none"
  /\ sim = "start" => ~readyToRead
  /\ Scanning => readyToRead
  /\ readyToRead => ~realStack
  /\ readyToRead => reader \notin {"tokenize", "post"}
  /\ reader = "forget" => realStack

(* What m_tokens holds: nothing, the words of the line so far, or the command. *)
Contents ==
  /\ reader \in {"test", "tokenize", "post"} => line \in LineWords
  /\ reader = "test" => rest = line
  /\ reader = "tokenize" => tokens \o rest = line
  /\ reader = "post" => tokens = line /\ tokens # <<>>
  /\ ~readyToRead /\ reader \in {"none", "getline", "test"} => tokens = <<>>
  /\ sim = "release" => tokens = <<>>

InMailbox == readyToRead /\ sim \notin {"clear", "release"}

(* What was taken and not yet executed is in m_tokens or among the events. *)
Outstanding ==
  /\ ~realStack => posted = <<>>
  /\ InMailbox => /\ Len(accepted) = Len(executed) + 1
                  /\ tokens = accepted[Len(accepted)]
                  /\ tokens # <<>>
  /\ ~InMailbox => Len(accepted) = Len(executed) + Len(posted)
  /\ \A i \in 1 .. Len(posted) : posted[i] = accepted[Len(executed) + i]

IInv == Typed /\ Apart /\ Contents /\ Outstanding

-----------------------------------------------------------------------------
LEMMA EmptyCommand == <<>> \in Command /\ <<>> \in Seq(Command) /\ Len(<<>>) = 0
  BY EmptySeq DEF Command

(* One word moves from the rest of the line to m_tokens. *)
LEMMA WordMoved ==
  ASSUME NEW s \in Command, NEW t \in Command, t # <<>>
  PROVE  /\ Append(s, Head(t)) \in Command /\ Tail(t) \in Command
         /\ Append(s, Head(t)) \o Tail(t) = s \o t
<1> DEFINE h == Head(t)
           u == Append(s, h)
           v == Tail(t)
<1>1. h \in Word /\ v \in Seq(Word) /\ Len(v) = Len(t) - 1
      /\ h = t[1] /\ Len(t) # 0 /\ Len(t) \in Nat
      /\ \A i \in 1 .. Len(v) : v[i] = t[i + 1]
  BY HeadTailProperties, EmptySeq, LenProperties DEF Command
<1>2. u \in Seq(Word) /\ Len(u) = Len(s) + 1 /\ Len(s) \in Nat
      /\ (\A i \in 1 .. Len(s) : u[i] = s[i]) /\ u[Len(s) + 1] = h
  BY <1>1, AppendProperties, LenProperties DEF Command
<1>3. /\ u \o v \in Seq(Word) /\ Len(u \o v) = Len(u) + Len(v)
      /\ \A i \in 1 .. Len(u) + Len(v) : (u \o v)[i] = IF i <= Len(u) THEN u[i] ELSE v[i - Len(u)]
  BY <1>1, <1>2, ConcatProperties
<1>4. /\ s \o t \in Seq(Word) /\ Len(s \o t) = Len(s) + Len(t)
      /\ \A i \in 1 .. Len(s) + Len(t) : (s \o t)[i] = IF i <= Len(s) THEN s[i] ELSE t[i - Len(s)]
  BY ConcatProperties DEF Command
<1>5. Len(u \o v) = Len(s \o t) /\ Len(u) + Len(v) = Len(s) + Len(t)
  BY <1>1, <1>2, <1>3, <1>4
<1>6. ASSUME NEW i \in 1 .. Len(s) + Len(t)
      PROVE  (u \o v)[i] = (s \o t)[i]
  <2> HIDE DEF h, u, v
  <2>0. (u \o v)[i] = (IF i <= Len(u) THEN u[i] ELSE v[i - Len(u)])
        /\ (s \o t)[i] = (IF i <= Len(s) THEN s[i] ELSE t[i - Len(s)])
    BY <1>3, <1>4, <1>5
  <2>1. CASE i <= Len(s)
    BY <1>2, <2>0, <2>1
  <2>2. CASE i = Len(s) + 1
    <3>1. (u \o v)[i] = h
      BY <1>2, <2>0, <2>2
    <3>2. (s \o t)[i] = t[1]
      BY <1>2, <2>0, <2>2
    <3> QED
      BY <1>1, <3>1, <3>2
  <2>3. CASE i > Len(s) + 1
    <3>1. i - Len(u) \in 1 .. Len(v) /\ i - Len(u) + 1 = i - Len(s)
      BY <1>1, <1>2, <2>3
    <3>2. v[i - Len(u)] = t[i - Len(s)]
      BY <1>1, <3>1
    <3> QED
      BY <1>2, <2>0, <2>3, <3>2
  <2>4. i <= Len(s) \/ i = Len(s) + 1 \/ i > Len(s) + 1
    BY <1>1, <1>2
  <2> QED
    BY <2>1, <2>2, <2>3, <2>4, Zenon
<1>7. u \o v = s \o t
  <2> HIDE DEF h, u, v
  <2> QED
    BY <1>3, <1>4, <1>5, <1>6, SeqEqual
<1> QED
  BY <1>1, <1>2, <1>7 DEF Command

(* A TIME line is followed by the one argument it takes. *)
WellFormed == \A s \in Scripts : \A i \in 1 .. Len(s) : IsTime(s[i]) => Len(s[i].words) = 2

LEMMA ScriptLength ==
  ASSUME NEW s \in Scripts
  PROVE  Len(s) \in Nat /\ DOMAIN s = 1 .. Len(s)
  BY LineAssumption, LenProperties

LEMMA LineCommand == \A l \in Line : l.words \in Command /\ (l.empty => l.words = <<>>)
  BY LineAssumption DEF IsLine

LEMMA ScriptCommand ==
  ASSUME NEW s \in Scripts, NEW i \in 1 .. Len(s)
  PROVE  s[i].words \in Command /\ s[i] \in [empty : BOOLEAN, words : Command]
  BY LineAssumption DEF IsLine

LEMMA CommandAdded ==
  ASSUME NEW q \in Seq(Command), NEW c \in Command
  PROVE  /\ Append(q, c) \in Seq(Command)
         /\ Len(q) \in Nat /\ Len(Append(q, c)) = Len(q) + 1
         /\ \A i \in 1 .. Len(q) : Append(q, c)[i] = q[i]
         /\ Append(q, c)[Len(q) + 1] = c
  BY AppendProperties, LenProperties

LEMMA CommandTaken ==
  ASSUME NEW q \in Seq(Command), q # <<>>
  PROVE  /\ Head(q) \in Command /\ Head(q) = q[1]
         /\ Tail(q) \in Seq(Command)
         /\ Len(q) \in Nat \ {0} /\ Len(Tail(q)) = Len(q) - 1
         /\ \A i \in 1 .. Len(Tail(q)) : Tail(q)[i] = q[i + 1]
  BY HeadTailProperties, EmptySeq, LenProperties

-----------------------------------------------------------------------------
LEMMA InitIInv == Init => IInv
<1> SUFFICES ASSUME Init PROVE IInv
  OBVIOUS
<1>1. Typed
  <2>1. script \in Scripts /\ read \in 0 .. Len(script)
    BY ScriptLength DEF Init
  <2> QED
    BY <2>1, EmptyCommand DEF Init, Typed
<1>2. Apart
  BY DEF Init, Apart, Scanning
<1>3. Contents
  BY DEF Init, Contents
<1>4. Outstanding
  BY EmptyCommand DEF Init, Outstanding, InMailbox
<1> QED
  BY <1>1, <1>2, <1>3, <1>4 DEF IInv

(* The script leaves nothing in m_tokens and does not touch the console. *)
LEMMA StepReadScriptLine ==
  ASSUME WellFormed, IInv, ReadScriptLine
  PROVE  IInv' /\ UNCHANGED Queue!vars
<1> USE DEF ReadScriptLine, scanVars, readerVars
<1>1. tokens = <<>>
  BY DEF IInv, Apart, Contents
<1>2. tokens' = <<>>
  <2> DEFINE l == script[read + 1]
             ts == tokens \o l.words
  <2>1. script \in Scripts /\ read + 1 \in 1 .. Len(script)
    BY ScriptLength DEF IInv, Typed
  <2>2. l.words = ts
    <3>1. l.words \in Seq(Word)
      BY <2>1, ScriptCommand DEF Command
    <3> QED
      BY <1>1, <3>1, ConcatEmptySeq
  <2>3. CASE l.empty \/ ts = <<>>
    BY <1>1, <2>3
  <2>4. CASE ~(l.empty \/ ts = <<>>) /\ ts[1] = "TIME"
    <3>1. IsTime(l)
      BY <2>2, <2>4 DEF IsTime
    <3>2. Len(l.words) = 2
      BY <2>1, <3>1 DEF WellFormed
    <3> QED
      BY <2>2, <2>4, <3>2 DEF ClearedAfterTime
  <2>5. CASE ~(l.empty \/ ts = <<>>) /\ ts[1] # "TIME"
    BY <2>5
  <2> QED
    BY <2>3, <2>4, <2>5
<1>3. Typed'
  BY <1>2, EmptyCommand, ScriptLength DEF IInv, Typed
<1>4. Apart'
  BY DEF IInv, Apart, Scanning
<1>5. Contents'
  BY <1>2 DEF IInv, Apart, Contents
<1>6. Outstanding'
  BY DEF IInv, Apart, Outstanding, InMailbox
<1> QED
  BY <1>3, <1>4, <1>5, <1>6 DEF IInv, Queue!vars

LEMMA StepRun ==
  ASSUME IInv, Run
  PROVE  IInv' /\ UNCHANGED Queue!vars
<1> USE DEF Run, scriptVars, scanVars
<1>1. Typed'
  BY DEF IInv, Typed
<1>2. Apart'
  BY DEF IInv, Apart, Scanning
<1>3. Contents'
  BY DEF IInv, Apart, Contents
<1>4. Outstanding'
  BY DEF IInv, Apart, Outstanding, InMailbox
<1> QED
  BY <1>1, <1>2, <1>3, <1>4 DEF IInv, Queue!vars

-----------------------------------------------------------------------------
(* The reader thread takes a line only while the mailbox is empty. *)
LEMMA StepGetLine ==
  ASSUME IInv, NEW l \in Line, GetLine(l)
  PROVE  IInv' /\ UNCHANGED Queue!vars
<1> USE DEF GetLine, Reads, scriptVars, scanVars
<1>1. l.words \in Command /\ l.words \in LineWords
  BY LineCommand DEF LineWords
<1>2. Typed'
  BY <1>1 DEF IInv, Typed
<1>3. Apart'
  BY DEF IInv, Apart, Scanning
<1>4. Contents'
  BY <1>1 DEF IInv, Apart, Contents
<1>5. Outstanding'
  BY DEF IInv, Outstanding, InMailbox
<1> QED
  BY <1>2, <1>3, <1>4, <1>5 DEF IInv, Queue!vars

LEMMA StepTestBusy ==
  ASSUME IInv, TestBusy
  PROVE  IInv' /\ UNCHANGED Queue!vars
<1> USE DEF TestBusy, Reads, Busy, scriptVars, scanVars
<1>1. Typed'
  BY DEF IInv, Typed
<1>2. Apart'
  BY DEF IInv, Typed, Apart, Scanning
<1>3. Contents'
  <2>1. CASE Busy
    BY <2>1 DEF IInv, Typed, Apart, Contents
  <2>2. CASE ~Busy
    <3>1. tokens = <<>> /\ rest = line /\ line \in Seq(Word)
      BY <2>2 DEF IInv, Typed, Apart, Contents, Command
    <3>2. tokens \o rest = line
      BY <3>1, ConcatEmptySeq
    <3> QED
      BY <2>2, <3>2 DEF IInv, Apart, Contents
  <2> QED
    BY <2>1, <2>2
<1>4. Outstanding'
  BY DEF IInv, Outstanding, InMailbox
<1> QED
  BY <1>1, <1>2, <1>3, <1>4 DEF IInv, Queue!vars

LEMMA StepTokenize ==
  ASSUME IInv, Tokenize
  PROVE  IInv' /\ UNCHANGED Queue!vars
<1> USE DEF Tokenize, Reads, scriptVars, scanVars
<1>1. tokens \in Command /\ rest \in Command /\ line \in Command /\ tokens \o rest = line
      /\ line \in LineWords /\ ~readyToRead
  BY DEF IInv, Typed, Apart, Contents
<1>2. CASE rest # <<>>
  <2>1. tokens' \in Command /\ rest' \in Command /\ tokens' \o rest' = line
    BY <1>1, <1>2, WordMoved
  <2>2. Typed'
    BY <1>2, <2>1 DEF IInv, Typed
  <2>3. Apart'
    BY <1>2 DEF IInv, Apart, Scanning
  <2>4. Contents'
    BY <1>1, <1>2, <2>1 DEF IInv, Apart, Contents, Scanning
  <2>5. Outstanding'
    BY <1>1, <1>2 DEF IInv, Outstanding, InMailbox
  <2> QED
    BY <1>2, <2>2, <2>3, <2>4, <2>5 DEF IInv, Queue!vars
<1>3. CASE rest = <<>>
  <2>1. tokens = line
    BY <1>1, <1>3, ConcatEmptySeq DEF Command
  <2>2. Typed'
    BY <1>3 DEF IInv, Typed
  <2>3. Apart'
    BY <1>1, <1>3 DEF IInv, Apart, Scanning
  <2>4. Contents'
    BY <1>1, <1>3, <2>1 DEF IInv, Apart, Contents, Scanning
  <2>5. Outstanding'
    BY <1>3 DEF IInv, Outstanding, InMailbox
  <2> QED
    BY <1>3, <2>2, <2>3, <2>4, <2>5 DEF IInv, Queue!vars
<1> QED
  BY <1>2, <1>3

(* The line that was read is the command taken. *)
LEMMA StepPost ==
  ASSUME IInv, Post
  PROVE  IInv' /\ Queue!Next
<1> USE DEF Post, Reads, scriptVars, scanVars
<1>1. /\ ~readyToRead /\ ~Scanning /\ line \in LineWords /\ line \in Command
      /\ tokens = line /\ tokens # <<>>
      /\ accepted \in Seq(Command) /\ posted \in Seq(Command) /\ executed \in Seq(Command)
      /\ Len(accepted) = Len(executed) + Len(posted)
  BY DEF IInv, Typed, Apart, Contents, Outstanding, InMailbox
<1>2. /\ accepted' \in Seq(Command) /\ Len(accepted) \in Nat /\ Len(accepted') = Len(accepted) + 1
      /\ \A i \in 1 .. Len(accepted) : accepted'[i] = accepted[i]
      /\ accepted'[Len(accepted) + 1] = line
  BY <1>1, CommandAdded
<1>3. Len(executed) \in Nat /\ Len(posted) \in Nat
  BY <1>1, LenProperties
<1>4. CASE realStack
  <2>1. /\ posted' \in Seq(Command) /\ Len(posted') = Len(posted) + 1
        /\ \A i \in 1 .. Len(posted) : posted'[i] = posted[i]
        /\ posted'[Len(posted) + 1] = line
    <3>1. posted' = Append(posted, line)
      BY <1>1, <1>4
    <3> QED
      BY <1>1, <3>1, CommandAdded
  <2>2. Typed'
    BY <1>2, <1>4, <2>1 DEF IInv, Typed
  <2>3. Apart'
    BY <1>1, <1>4 DEF IInv, Apart, Scanning
  <2>4. Contents'
    BY <1>1, <1>4 DEF IInv, Apart, Contents, Scanning
  <2>5. ASSUME NEW i \in 1 .. Len(posted')
        PROVE  posted'[i] = accepted'[Len(executed) + i]
    <3>1. CASE i = Len(posted) + 1
      BY <1>1, <1>2, <1>3, <2>1, <3>1
    <3>2. CASE i \in 1 .. Len(posted)
      <4>1. posted[i] = accepted[Len(executed) + i]
        BY <3>2 DEF IInv, Outstanding
      <4>2. Len(executed) + i \in 1 .. Len(accepted)
        BY <1>1, <1>3, <3>2
      <4> QED
        BY <1>2, <2>1, <3>2, <4>1, <4>2
    <3>3. i = Len(posted) + 1 \/ i \in 1 .. Len(posted)
      BY <1>3, <2>1
    <3> QED
      BY <3>1, <3>2, <3>3, Zenon
  <2>6. Outstanding'
    <3>1. Len(accepted') = Len(executed') + Len(posted') /\ ~InMailbox' /\ executed' = executed
      BY <1>1, <1>2, <1>3, <1>4, <2>1 DEF InMailbox
    <3> QED
      BY <1>4, <2>5, <3>1 DEF Outstanding
  <2>7. Queue!Next
    BY <1>1, <1>4 DEF Queue!Next, Queue!Put, LineWords
  <2> QED
    BY <2>2, <2>3, <2>4, <2>6, <2>7 DEF IInv
<1>5. CASE ~realStack
  <2>1. posted = <<>> /\ Len(posted) = 0
    BY <1>5, EmptyCommand DEF IInv, Outstanding
  <2>2. Typed'
    BY <1>2, <1>5 DEF IInv, Typed
  <2>3. Apart'
    BY <1>1, <1>5 DEF IInv, Apart, Scanning
  <2>4. Contents'
    BY <1>1, <1>5 DEF IInv, Apart, Contents, Scanning
  <2>5. Outstanding'
    BY <1>1, <1>2, <1>3, <1>5, <2>1 DEF IInv, Outstanding, InMailbox, Scanning
  <2>6. Queue!Next
    BY <1>1, <1>3, <1>5, <2>1 DEF Queue!Next, Queue!Put, LineWords
  <2> QED
    BY <2>2, <2>3, <2>4, <2>5, <2>6 DEF IInv
<1> QED
  BY <1>4, <1>5

LEMMA StepForget ==
  ASSUME IInv, Forget
  PROVE  IInv' /\ UNCHANGED Queue!vars
<1> USE DEF Forget, Reads, scriptVars, scanVars
<1>1. ~readyToRead
  BY DEF IInv, Apart
<1>2. Typed'
  BY EmptyCommand DEF IInv, Typed
<1>3. Apart'
  BY <1>1 DEF IInv, Apart, Scanning
<1>4. Contents'
  BY DEF IInv, Apart, Contents
<1>5. Outstanding'
  BY <1>1 DEF IInv, Outstanding, InMailbox
<1> QED
  BY <1>2, <1>3, <1>4, <1>5 DEF IInv, Queue!vars

-----------------------------------------------------------------------------
LEMMA QuitsStops ==
  ASSUME quit \in BOOLEAN, NEW c, Quits(c)
  PROVE  quit' \in BOOLEAN /\ quit' \in {quit, TRUE}
  BY Zenon DEF Quits

(* The simulator thread empties the mailbox only while the flag keeps the     *)
(* reader thread out.                                                        *)
LEMMA StepScan ==
  ASSUME IInv, Scan
  PROVE  IInv' /\ UNCHANGED Queue!vars
<1> USE DEF Scan, Simulates, ScanDue, scriptVars, readerVars
<1>1. Typed'
  BY DEF IInv, Typed
<1>2. Apart'
  BY DEF IInv, Apart, Scanning
<1>3. Contents'
  BY DEF IInv, Contents
<1>4. Outstanding'
  BY DEF IInv, Outstanding, InMailbox
<1> QED
  BY <1>1, <1>2, <1>3, <1>4 DEF IInv, Queue!vars

LEMMA StepProcess ==
  ASSUME IInv, Process
  PROVE  IInv' /\ Queue!Next
<1> USE DEF Process, Simulates, scriptVars, readerVars
<1>1. /\ InMailbox /\ readyToRead /\ ~realStack /\ posted = <<>> /\ tokens # <<>>
      /\ Len(accepted) = Len(executed) + 1 /\ tokens = accepted[Len(accepted)]
      /\ tokens \in Command /\ accepted \in Seq(Command) /\ executed \in Seq(Command)
      /\ quit \in BOOLEAN
  BY DEF IInv, Typed, Apart, Outstanding, InMailbox, Scanning
<1>2. executed' = Append(executed, tokens) /\ Quits(tokens)
  BY <1>1
<1>3. executed' \in Seq(Command) /\ Len(executed) \in Nat /\ Len(executed') = Len(executed) + 1
  BY <1>1, <1>2, CommandAdded
<1>4. quit' \in BOOLEAN /\ quit' \in {quit, TRUE}
  BY <1>1, <1>2, QuitsStops
<1>5. Typed'
  BY <1>3, <1>4 DEF IInv, Typed
<1>6. Apart'
  BY DEF IInv, Apart, Scanning
<1>7. Contents'
  BY <1>1 DEF IInv, Contents
<1>8. Outstanding'
  BY <1>1, <1>3, EmptyCommand DEF Outstanding, InMailbox
<1>9. Queue!Next
  <2>1. /\ Len(executed) < Len(accepted) /\ UNCHANGED <<realStack, accepted>>
        /\ executed' = Append(executed, accepted[Len(executed) + 1])
    BY <1>1, <1>2, <1>3
  <2> QED
    BY <1>4, <2>1, Zenon DEF Queue!Next, Queue!Take
<1> QED
  BY <1>5, <1>6, <1>7, <1>8, <1>9 DEF IInv

LEMMA StepClear ==
  ASSUME IInv, Clear
  PROVE  IInv' /\ UNCHANGED Queue!vars
<1> USE DEF Clear, Simulates, scriptVars, scanVars, readerVars
<1>1. readyToRead
  BY DEF IInv, Apart, Scanning
<1>2. Typed'
  BY EmptyCommand DEF IInv, Typed
<1>3. Apart'
  BY DEF IInv, Apart, Scanning
<1>4. Contents'
  BY <1>1 DEF IInv, Apart, Contents
<1>5. Outstanding'
  BY DEF IInv, Outstanding, InMailbox
<1> QED
  BY <1>2, <1>3, <1>4, <1>5 DEF IInv, Queue!vars

LEMMA StepRelease ==
  ASSUME IInv, Release
  PROVE  IInv' /\ UNCHANGED Queue!vars
<1> USE DEF Release, Simulates, scriptVars, scanVars, readerVars
<1>1. readyToRead /\ tokens = <<>> /\ reader \notin {"tokenize", "post"}
  BY DEF IInv, Apart, Contents, Scanning
<1>2. Typed'
  BY DEF IInv, Typed
<1>3. Apart'
  BY DEF IInv, Apart, Scanning
<1>4. Contents'
  BY <1>1 DEF IInv, Contents
<1>5. Outstanding'
  BY DEF IInv, Outstanding, InMailbox
<1> QED
  BY <1>2, <1>3, <1>4, <1>5 DEF IInv, Queue!vars

(* The first of the events is the oldest command outstanding. *)
LEMMA StepRunPosted ==
  ASSUME IInv, RunPosted
  PROVE  IInv' /\ Queue!Next
<1> USE DEF RunPosted, Simulates, scriptVars, scanVars, readerVars
<1>1. /\ realStack /\ ~InMailbox /\ ~readyToRead /\ posted # <<>> /\ quit \in BOOLEAN
      /\ Len(accepted) = Len(executed) + Len(posted)
      /\ posted \in Seq(Command) /\ accepted \in Seq(Command) /\ executed \in Seq(Command)
  BY DEF IInv, Typed, Apart, Outstanding, InMailbox
<1>2. /\ Head(posted) \in Command /\ Head(posted) = posted[1] /\ posted' \in Seq(Command)
      /\ Len(posted) \in Nat \ {0} /\ Len(posted') = Len(posted) - 1
      /\ \A i \in 1 .. Len(posted') : posted'[i] = posted[i + 1]
  BY <1>1, CommandTaken
<1>3. executed' \in Seq(Command) /\ Len(executed) \in Nat /\ Len(executed') = Len(executed) + 1
  BY <1>1, <1>2, CommandAdded
<1>4. quit' \in BOOLEAN /\ quit' \in {quit, TRUE}
  BY <1>1, QuitsStops
<1>5. Head(posted) = accepted[Len(executed) + 1]
  BY <1>2 DEF IInv, Outstanding
<1>6. Typed'
  BY <1>2, <1>3, <1>4 DEF IInv, Typed
<1>7. Apart'
  BY DEF IInv, Apart, Scanning
<1>8. Contents'
  BY DEF IInv, Contents
<1>9. ASSUME NEW i \in 1 .. Len(posted')
      PROVE  posted'[i] = accepted[Len(executed') + i]
  <2>1. posted'[i] = posted[i + 1] /\ i + 1 \in 1 .. Len(posted)
        /\ Len(executed) + (i + 1) = Len(executed') + i
    BY <1>2, <1>3
  <2>2. posted[i + 1] = accepted[Len(executed) + (i + 1)]
    BY <2>1 DEF IInv, Outstanding
  <2> QED
    BY <2>1, <2>2
<1>10. Outstanding'
  <2>1. Len(accepted') = Len(executed') + Len(posted') /\ ~InMailbox' /\ realStack'
        /\ accepted' = accepted
    BY <1>1, <1>2, <1>3 DEF InMailbox
  <2> QED
    BY <1>9, <2>1 DEF Outstanding
<1>11. Queue!Next
  <2>1. /\ Len(executed) < Len(accepted) /\ UNCHANGED <<realStack, accepted>>
        /\ executed' = Append(executed, accepted[Len(executed) + 1])
    BY <1>1, <1>2, <1>3, <1>5
  <2> QED
    BY <1>4, <2>1, Zenon DEF Queue!Next, Queue!Take
<1> QED
  BY <1>6, <1>7, <1>8, <1>10, <1>11 DEF IInv

(* A command of the script may be the one that stops the simulation. *)
LEMMA StepRunScript ==
  ASSUME IInv, RunScript
  PROVE  IInv' /\ [Queue!Next]_(Queue!vars)
<1> USE DEF RunScript, Simulates, scriptVars, scanVars, readerVars
<1>1. quit' \in BOOLEAN /\ quit' \in {quit, TRUE}
  BY QuitsStops DEF IInv, Typed
<1>2. Typed'
  BY <1>1 DEF IInv, Typed
<1>3. Apart'
  BY DEF IInv, Apart, Scanning
<1>4. Contents'
  BY DEF IInv, Contents
<1>5. Outstanding'
  BY DEF IInv, Outstanding, InMailbox
<1>6. [Queue!Next]_(Queue!vars)
  BY <1>1 DEF Queue!Next, Queue!Stop, Queue!vars
<1> QED
  BY <1>2, <1>3, <1>4, <1>5, <1>6 DEF IInv

LEMMA StepExit ==
  ASSUME IInv, Exit
  PROVE  IInv' /\ UNCHANGED Queue!vars
<1> USE DEF Exit, Simulates, scriptVars, scanVars, readerVars
<1>1. Typed'
  BY DEF IInv, Typed
<1>2. Apart'
  BY DEF IInv, Apart, Scanning
<1>3. Contents'
  BY DEF IInv, Contents
<1>4. Outstanding'
  BY DEF IInv, Outstanding, InMailbox
<1> QED
  BY <1>1, <1>2, <1>3, <1>4 DEF IInv, Queue!vars

LEMMA StepQueue ==
  ASSUME WellFormed, IInv, [Next]_vars
  PROVE  IInv' /\ [Queue!Next]_(Queue!vars)
<1>1. CASE UNCHANGED vars
  BY <1>1 DEF vars, scriptVars, scanVars, readerVars, IInv, Typed, Apart, Contents, Outstanding,
              InMailbox, Scanning, Queue!vars
<1>2. CASE \E l \in Line : GetLine(l)
  BY <1>2, StepGetLine
<1>3. CASE ReaderStep
  BY <1>3, StepTestBusy, StepTokenize, StepPost, StepForget DEF ReaderStep
<1>4. CASE SimulatorStep
  BY <1>4, StepReadScriptLine, StepRun, StepScan, StepProcess, StepClear, StepRelease,
     StepRunPosted, StepRunScript, StepExit DEF SimulatorStep, ScanStep
<1> QED
  BY <1>1, <1>2, <1>3, <1>4 DEF Next

(* After a well-formed script, whatever is typed and whenever the threads run, *)
(* what the console takes is executed once, whole and in order (CommandHandler *)
(* 244-280, ReadCommandTokens 286-313).                                      *)
THEOREM ConsoleIsQueue ==
  ASSUME WellFormed
  PROVE  Spec => ImplementsQueue
<1>1. Init => Queue!Init
  BY DEF Init, Queue!Init
<1>2. IInv /\ [Next]_vars => IInv' /\ [Queue!Next]_(Queue!vars)
  BY StepQueue
<1> QED
  BY InitIInv, <1>1, <1>2, PTL DEF Spec, ImplementsQueue, Queue!Spec

-----------------------------------------------------------------------------
(* The types, after a script of any form. *)
LEMMA InitTypeOK == Init => TypeOK
<1> SUFFICES ASSUME Init PROVE TypeOK
  OBVIOUS
<1>1. script \in Scripts /\ read \in 0 .. Len(script)
  BY ScriptLength DEF Init
<1>2. agenda \in Seq([at : Nat, command : Command]) /\ ran \in 0 .. Len(agenda)
  BY EmptySeq DEF Init
<1>3. 1 \in 1 .. MaxScanDelay /\ 0 \in 0 .. MaxNotReady - 1
  BY BoundAssumption
<1>4. /\ tokens \in Command /\ line \in Command /\ rest \in Command
      /\ posted \in Seq(Command) /\ accepted \in Seq(Command) /\ executed \in Seq(Command)
  BY EmptyCommand DEF Init
<1> QED
  BY <1>1, <1>2, <1>3, <1>4 DEF Init, TypeOK

LEMMA TypesReadScriptLine ==
  ASSUME TypeOK, ReadScriptLine
  PROVE  TypeOK'
<1> USE DEF ReadScriptLine, scanVars, readerVars
<1> DEFINE l == script[read + 1]
           ts == tokens \o l.words
<1>1. script \in Scripts /\ read' \in 0 .. Len(script) /\ read + 1 \in 1 .. Len(script)
  BY ScriptLength DEF TypeOK
<1>2. ts \in Seq(Word) /\ Len(ts) \in Nat /\ (\A i \in 1 .. Len(ts) : ts[i] \in Word)
      /\ ts \in Command
  <2>1. l.words \in Seq(Word) /\ tokens \in Seq(Word)
    BY <1>1, ScriptCommand DEF Command, TypeOK
  <2>2. ts \in Seq(Word)
    BY <2>1, ConcatProperties
  <2> HIDE DEF ts
  <2> QED
    BY <2>2, LenProperties, ElementOfSeq DEF Command
<1>3. Milliseconds \in [Word -> Nat] /\ time \in Nat
  BY LineAssumption DEF TypeOK
<1>4. tokens' \in Command /\ time' \in Nat
  <2>1. CASE l.empty \/ ts = <<>>
    BY <2>1 DEF TypeOK
  <2>2. CASE ~(l.empty \/ ts = <<>>) /\ ts[1] = "TIME"
    <3>1. CASE Len(ts) = 2
      <4>1. Milliseconds[ts[2]] \in Nat
        BY <1>2, <1>3, <3>1
      <4>2. tokens' = <<>> /\ time' = time + Milliseconds[ts[2]]
        <5>1. /\ tokens' = IF Len(ts) = 2 THEN ClearedAfterTime(ts) ELSE ts
              /\ time' = IF Len(ts) = 2 THEN time + Milliseconds[ts[2]] ELSE time
          BY <2>2, Zenon
        <5> HIDE DEF ts
        <5> QED
          BY <3>1, <5>1 DEF ClearedAfterTime
      <4>3. tokens' \in Command
        BY <4>2, EmptyCommand
      <4> HIDE DEF ts
      <4>4. time' \in Nat
        BY <1>3, <4>1, <4>2
      <4> QED
        BY <4>3, <4>4
    <3>2. CASE Len(ts) # 2
      BY <1>2, <1>3, <2>2, <3>2
    <3> QED
      BY <3>1, <3>2
  <2>3. CASE ~(l.empty \/ ts = <<>>) /\ ts[1] # "TIME"
    BY <1>3, <2>3, EmptyCommand
  <2> QED
    BY <2>1, <2>2, <2>3
<1>5. agenda' \in Seq([at : Nat, command : Command]) /\ ran' \in 0 .. Len(agenda')
  <2>1. agenda \in Seq([at : Nat, command : Command]) /\ ran \in 0 .. Len(agenda)
    BY DEF TypeOK
  <2>2. CASE UNCHANGED agenda
    BY <2>1, <2>2
  <2>3. CASE agenda' = Append(agenda, [at |-> time, command |-> ts])
    <3>1. [at |-> time, command |-> ts] \in [at : Nat, command : Command]
      BY <1>2, <1>3
    <3>2. agenda' \in Seq([at : Nat, command : Command]) /\ Len(agenda') = Len(agenda) + 1
          /\ Len(agenda) \in Nat
      BY <2>1, <2>3, <3>1, AppendProperties, LenProperties
    <3> QED
      BY <2>1, <3>2
  <2> QED
    BY <2>2, <2>3
<1> QED
  BY <1>1, <1>4, <1>5 DEF TypeOK

LEMMA TypesReader ==
  ASSUME TypeOK, ReaderStep
  PROVE  TypeOK'
<1> USE DEF Reads, scriptVars, scanVars
<1>1. CASE TestBusy
  BY <1>1 DEF TestBusy, TypeOK
<1>2. CASE Tokenize
  <2>1. tokens \in Command /\ rest \in Command
    BY DEF TypeOK
  <2>2. tokens' \in Command /\ rest' \in Command
    BY <1>2, <2>1, WordMoved DEF Tokenize
  <2> QED
    BY <1>2, <2>2 DEF Tokenize, TypeOK
<1>3. CASE Post
  <2>1. accepted' \in Seq(Command) /\ posted' \in Seq(Command)
    BY <1>3, CommandAdded DEF Post, TypeOK
  <2> QED
    BY <1>3, <2>1 DEF Post, TypeOK
<1>4. CASE Forget
  BY <1>4, EmptyCommand DEF Forget, TypeOK
<1> QED
  BY <1>1, <1>2, <1>3, <1>4 DEF ReaderStep

LEMMA TypesGetLine ==
  ASSUME TypeOK, NEW l \in Line, GetLine(l)
  PROVE  TypeOK'
<1> USE DEF GetLine, Reads, scriptVars, scanVars
<1>1. l.words \in Command
  BY LineCommand
<1>2. typed' \in 0 .. MaxTyped
  BY BoundAssumption DEF TypeOK
<1> QED
  BY <1>1, <1>2 DEF TypeOK

(* The delay is doubled up to its limit, and the count starts again at its own. *)
LEMMA TypesScan ==
  ASSUME TypeOK, ScanStep
  PROVE  TypeOK'
<1> USE DEF Simulates, scriptVars, scanVars, readerVars
<1>1. CASE Scan
  <2>1. scanDelay' \in 1 .. MaxScanDelay /\ notReadyCount' \in 0 .. MaxNotReady - 1
    <3>1. /\ scanDelay \in Nat /\ scanDelay >= 1 /\ scanDelay <= MaxScanDelay
          /\ notReadyCount \in Nat /\ notReadyCount <= MaxNotReady - 1
      BY BoundAssumption DEF TypeOK
    <3>2. Doubled(scanDelay) \in 1 .. MaxScanDelay
      BY <3>1, BoundAssumption DEF Doubled
    <3>3. notReadyCount + 1 # MaxNotReady => notReadyCount + 1 \in 0 .. MaxNotReady - 1
      BY <3>1, BoundAssumption
    <3>4. 1 \in 1 .. MaxScanDelay /\ 0 \in 0 .. MaxNotReady - 1
      BY BoundAssumption
    <3>5. scanDelay \in 1 .. MaxScanDelay /\ notReadyCount \in 0 .. MaxNotReady - 1
      BY DEF TypeOK
    <3> QED
      BY <1>1, <3>2, <3>3, <3>4, <3>5 DEF Scan
  <2> QED
    BY <1>1, <2>1 DEF Scan, TypeOK
<1>2. CASE Process
  <2>1. executed' \in Seq(Command) /\ quit' \in BOOLEAN
    <3>1. executed \in Seq(Command) /\ tokens \in Command /\ quit \in BOOLEAN
      BY DEF TypeOK
    <3>2. CASE tokens # <<>>
      BY <1>2, <3>1, <3>2, CommandAdded, QuitsStops DEF Process
    <3>3. CASE tokens = <<>>
      BY <1>2, <3>1, <3>3 DEF Process
    <3> QED
      BY <3>2, <3>3
  <2> QED
    BY <1>2, <2>1 DEF Process, TypeOK
<1>3. CASE Clear
  BY <1>3, EmptyCommand DEF Clear, TypeOK
<1>4. CASE Release
  BY <1>4 DEF Release, TypeOK
<1> QED
  BY <1>1, <1>2, <1>3, <1>4 DEF ScanStep

LEMMA TypesSimulator ==
  ASSUME TypeOK, Run \/ RunPosted \/ RunScript \/ Exit
  PROVE  TypeOK'
<1> USE DEF Simulates, scriptVars, scanVars, readerVars
<1>0. quit \in BOOLEAN
  BY DEF TypeOK
<1>1. CASE Run
  BY <1>1 DEF Run, TypeOK
<1>2. CASE RunPosted
  <2>1. posted' \in Seq(Command) /\ executed' \in Seq(Command)
    BY <1>2, CommandTaken, CommandAdded DEF RunPosted, TypeOK
  <2>2. quit' \in BOOLEAN
    BY <1>0, <1>2, QuitsStops DEF RunPosted
  <2> QED
    BY <1>2, <2>1, <2>2 DEF RunPosted, TypeOK
<1>3. CASE RunScript
  <2>1. ran' \in 0 .. Len(agenda)
    <3>1. agenda \in Seq([at : Nat, command : Command])
      BY DEF TypeOK
    <3>2. Len(agenda) \in Nat
      BY <3>1, LenProperties
    <3> QED
      BY <1>3, <3>2 DEF RunScript, TypeOK
  <2>2. quit' \in BOOLEAN
    BY <1>0, <1>3, QuitsStops DEF RunScript
  <2> QED
    BY <1>3, <2>1, <2>2 DEF RunScript, TypeOK
<1>4. CASE Exit
  BY <1>4 DEF Exit, TypeOK
<1> QED
  BY <1>1, <1>2, <1>3, <1>4

LEMMA NextTypeOK == TypeOK /\ [Next]_vars => TypeOK'
<1> SUFFICES ASSUME TypeOK, [Next]_vars PROVE TypeOK'
  OBVIOUS
<1>1. CASE UNCHANGED vars
  BY <1>1 DEF vars, scriptVars, scanVars, readerVars, TypeOK
<1>2. CASE Next
  BY <1>2, TypesGetLine, TypesReader, TypesReadScriptLine, TypesScan, TypesSimulator
     DEF Next, SimulatorStep
<1> QED
  BY <1>1, <1>2

(* Whatever the script holds, malformed TIME lines included, and whatever is   *)
(* typed: the delay between scans stays within MAX_SCAN_DELAY, the count of    *)
(* scans below MAX_NOT_READY, and the events that have run are among those     *)
(* scheduled (ReadCommandTokens 286-313).                                    *)
THEOREM TypeCorrect == Spec => []TypeOK
  BY InitTypeOK, NextTypeOK, PTL DEF Spec


-----------------------------------------------------------------------------
(* The script. *)
LEMMA Smallest ==
  ASSUME NEW T, T \subseteq Nat, T # {}
  PROVE  \E x \in T : \A y \in T : x <= y
<1>1. PICK x \in T : \A y \in T : ~ (<<y, x>> \in OpToRel(<, Nat))
  BY NatLessThanWellFounded, WFMin
<1>2. \A y \in T : <<y, x>> \in OpToRel(<, Nat) <=> y < x
  BY DEF OpToRel
<1>3. \A y \in T : x \in Nat /\ y \in Nat /\ ~ (y < x)
  BY <1>1, <1>2
<1> QED
  BY <1>3

(* What a line adds to the script's time. *)
Delay(l) == IF IsTime(l) THEN Milliseconds[l.words[2]] ELSE 0

AddsUp(f, s, n) ==
  f = [k \in 0 .. n |-> IF k = 0 THEN 0 ELSE f[k - 1] + Delay(s[k])]

LEMMA AddedUp ==
  ASSUME NEW s, NEW n \in Nat
  PROVE  \E f : AddsUp(f, s, n)
<1> DEFINE T == {k \in Nat : ~ \E f : AddsUp(f, s, k)}
<1> SUFFICES ASSUME T # {} PROVE FALSE
  OBVIOUS
<1>a. T \subseteq Nat /\ T # {}
  OBVIOUS
<1> HIDE DEF T
<1>1. PICK k \in T : \A j \in T : k <= j
  BY <1>a, Smallest
<1> USE DEF T
<1>2. CASE k = 0
  <2>1. AddsUp([j \in 0 .. 0 |-> 0], s, 0)
    BY DEF AddsUp
  <2> QED
    BY <1>2, <2>1
<1>3. CASE k # 0
  <2>1. k - 1 \in Nat /\ k - 1 \notin T
    BY <1>1, <1>3
  <2>2. PICK f : AddsUp(f, s, k - 1)
    BY <2>1
  <2> DEFINE g == [j \in 0 .. k |-> IF j = k THEN f[k - 1] + Delay(s[k]) ELSE f[j]]
  <2>3. f = [j \in 0 .. k - 1 |-> IF j = 0 THEN 0 ELSE f[j - 1] + Delay(s[j])]
    BY <2>2 DEF AddsUp
  <2>4. ASSUME NEW j \in 0 .. k
        PROVE  g[j] = IF j = 0 THEN 0 ELSE g[j - 1] + Delay(s[j])
    <3>1. CASE j = k
      <4>1. g[j] = f[k - 1] + Delay(s[k])
        BY <3>1
      <4>2. g[j - 1] = f[k - 1]
        BY <1>3, <2>1, <3>1
      <4> QED
        BY <1>3, <3>1, <4>1, <4>2
    <3>2. CASE j # k
      <4>1. j \in 0 .. k - 1
        BY <2>1, <3>2
      <4>2. g[j] = f[j]
        BY <3>2
      <4>3. j # 0 => j - 1 \in 0 .. k /\ j - 1 # k
        BY <4>1
      <4>4. j # 0 => g[j - 1] = f[j - 1]
        BY <4>3
      <4> QED
        BY <2>3, <4>1, <4>2, <4>4
    <3> QED
      BY <3>1, <3>2
  <2>5. g = [j \in 0 .. k |-> IF j = 0 THEN 0 ELSE g[j - 1] + Delay(s[j])]
    BY <2>4
  <2>6. AddsUp(g, s, k)
    BY <2>5 DEF AddsUp
  <2> QED
    BY <2>6
<1> QED
  BY <1>2, <1>3

(* The time passes from line to line. *)
LEMMA ElapsedGrows ==
  ASSUME NEW s, Len(s) \in Nat
  PROVE  /\ Elapsed(s)[0] = 0
         /\ \A k \in 1 .. Len(s) : Elapsed(s)[k] = Elapsed(s)[k - 1] + Delay(s[k])
<1>1. PICK f : AddsUp(f, s, Len(s))
  BY AddedUp
<1>2. Elapsed(s) = CHOOSE e : AddsUp(e, s, Len(s))
  BY DEF Elapsed, AddsUp, Delay
<1>3. AddsUp(Elapsed(s), s, Len(s))
  BY <1>1, <1>2
<1> DEFINE t == Elapsed(s)
<1> HIDE DEF t
<1>4. t = [k \in 0 .. Len(s) |-> IF k = 0 THEN 0 ELSE t[k - 1] + Delay(s[k])]
  BY <1>3 DEF AddsUp, t
<1>5. t[0] = 0 /\ \A k \in 1 .. Len(s) : t[k] = t[k - 1] + Delay(s[k])
  BY <1>4
<1> QED
  BY <1>5 DEF t

(* While the script is read its time is that of the lines so far. *)
OnTime == sim = "start" => time = Elapsed(script)[read]

KInv == TypeOK /\ IInv /\ ScriptKept /\ OnTime

LEMMA InitKept == Init => ScriptKept /\ OnTime
<1> SUFFICES ASSUME Init PROVE ScriptKept /\ OnTime
  OBVIOUS
<1>1. Len(script) \in Nat
  BY ScriptLength DEF Init
<1>2. CommandLines = {}
  BY DEF Init, CommandLines
<1>3. Len(agenda) = Cardinality(CommandLines)
  BY <1>2, FS_EmptySet, EmptyCommand DEF Init
<1>4. time = Elapsed(script)[read]
  BY <1>1, ElapsedGrows DEF Init
<1> QED
  BY <1>2, <1>3, <1>4 DEF ScriptKept, OnTime

(* The lines of commands, counted. *)
LEMMA CommandsCounted ==
  ASSUME TypeOK
  PROVE  /\ CommandLines \subseteq 1 .. read /\ read \in Nat
         /\ IsFiniteSet(CommandLines)
         /\ \A S \in SUBSET CommandLines : IsFiniteSet(S) /\ Cardinality(S) \in Nat
                                           /\ Cardinality(S) <= Cardinality(CommandLines)
<1>1. read \in Nat /\ CommandLines \subseteq 1 .. read
  BY ScriptLength DEF TypeOK, CommandLines
<1>2. IsFiniteSet(1 .. read)
  BY <1>1, FS_Interval
<1>3. IsFiniteSet(CommandLines)
  BY <1>1, <1>2, FS_Subset
<1> QED
  BY <1>1, <1>3, FS_Subset, FS_CardinalityType

(* A line that is no command leaves the agenda. *)
LEMMA KeptWithout ==
  ASSUME TypeOK, ScriptKept, read' = read + 1, UNCHANGED <<agenda, script>>,
         ~IsCommand(script[read + 1])
  PROVE  ScriptKept'
<1>1. CommandLines' = CommandLines
  <2>1. read \in Nat /\ 1 .. (read + 1) = 1 .. read \cup {read + 1}
    BY CommandsCounted
  <2> QED
    BY <2>1 DEF CommandLines
<1> QED
  BY <1>1 DEF ScriptKept

(* A command is appended to the agenda, behind those of the lines before it. *)
LEMMA KeptWith ==
  ASSUME TypeOK, ScriptKept, read' = read + 1, UNCHANGED script,
         IsCommand(script[read + 1]),
         NEW e \in [at : Nat, command : Command],
         e = [at |-> Elapsed(script)[read + 1], command |-> script[read + 1].words],
         agenda' = Append(agenda, e)
  PROVE  ScriptKept'
<1> DEFINE C == CommandLines
           r == read + 1
           upTo(S, i) == {j \in S : j <= i}
<1>1. /\ C \subseteq 1 .. read /\ read \in Nat /\ IsFiniteSet(C)
      /\ \A S \in SUBSET C : IsFiniteSet(S) /\ Cardinality(S) \in Nat
                             /\ Cardinality(S) <= Cardinality(C)
  BY CommandsCounted
<1>2. C' = C \cup {r} /\ r \notin C
  <2>1. 1 .. r = 1 .. read \cup {r}
    BY <1>1
  <2> QED
    BY <1>1, <2>1 DEF CommandLines
<1>3. Cardinality(C') = Cardinality(C) + 1 /\ Cardinality(C) \in Nat
  BY <1>1, <1>2, FS_AddElement
<1>4. /\ Len(agenda) = Cardinality(C) /\ Len(agenda') = Len(agenda) + 1
      /\ \A i \in 1 .. Len(agenda) : agenda'[i] = agenda[i]
      /\ agenda'[Len(agenda) + 1] = e
  <2>1. agenda \in Seq([at : Nat, command : Command])
    BY DEF TypeOK
  <2> QED
    BY <2>1, AppendProperties DEF ScriptKept
<1>5. ASSUME NEW i \in C'
      PROVE  agenda'[Cardinality(upTo(C', i))] =
               [at |-> Elapsed(script)[i], command |-> script[i].words]
  <2>1. CASE i = r
    <3>0. \A j \in C' : j <= r
      BY <1>1, <1>2
    <3>1. upTo(C', i) = C'
      BY <2>1, <3>0
    <3>2. Cardinality(upTo(C', i)) = Len(agenda) + 1
      BY <1>3, <1>4, <3>1
    <3> QED
      BY <1>4, <2>1, <3>2
  <2>2. CASE i # r
    <3>1. i \in C /\ upTo(C', i) = upTo(C, i) /\ i \in upTo(C, i) /\ upTo(C, i) \in SUBSET C
      BY <1>1, <1>2, <2>2
    <3>2. Cardinality(upTo(C, i)) \in 1 .. Len(agenda)
      <4>1. IsFiniteSet(upTo(C, i)) /\ Cardinality(upTo(C, i)) \in Nat
            /\ Cardinality(upTo(C, i)) <= Cardinality(C)
        BY <1>1, <3>1
      <4>2. Cardinality(upTo(C, i)) # 0
        BY <3>1, <4>1, FS_EmptySet
      <4> QED
        BY <1>3, <1>4, <4>1, <4>2
    <3>3. agenda[Cardinality(upTo(C, i))] =
            [at |-> Elapsed(script)[i], command |-> script[i].words]
      BY <3>1 DEF ScriptKept
    <3> QED
      BY <1>4, <3>1, <3>2, <3>3
  <2> QED
    BY <2>1, <2>2
<1> QED
  BY <1>3, <1>4, <1>5 DEF ScriptKept

(* tokens are empty at the loop's head, so that they hold this line's words. *)
LEMMA KeptReading ==
  ASSUME WellFormed, KInv, ReadScriptLine
  PROVE  ScriptKept' /\ OnTime'
<1> USE DEF ReadScriptLine, scanVars, readerVars
<1> DEFINE l == script[read + 1]
           ts == tokens \o l.words
<1>1. /\ script \in Scripts /\ read + 1 \in 1 .. Len(script) /\ Len(script) \in Nat
      /\ read \in Nat /\ read' = read + 1 /\ UNCHANGED <<script, sim>> /\ sim = "start"
  BY ScriptLength DEF KInv, TypeOK
<1>2. ts = l.words
  <2>1. tokens = <<>>
    BY DEF KInv, IInv, Apart, Contents
  <2>2. l.words \in Seq(Word)
    BY <1>1, ScriptCommand DEF Command
  <2> QED
    BY <2>1, <2>2, ConcatEmptySeq
<1>3. Elapsed(script)[read + 1] = time + Delay(l) /\ time \in Nat
  <2>1. time = Elapsed(script)[read] /\ time \in Nat /\ read + 1 - 1 = read
    BY <1>1 DEF KInv, OnTime, TypeOK
  <2> QED
    BY <1>1, <2>1, ElapsedGrows
<1>4. l.empty => l.words = <<>>
  BY <1>1, LineAssumption DEF IsLine
<1>5. CASE l.empty \/ ts = <<>>
  <2>1. l.words = <<>> /\ UNCHANGED <<time, agenda>>
    BY <1>2, <1>4, <1>5
  <2>2. ~IsCommand(l) /\ Delay(l) = 0
    BY <2>1 DEF IsCommand, IsTime, Delay
  <2>3. time' = Elapsed(script)[read + 1]
    BY <1>3, <2>1, <2>2
  <2>4. ScriptKept'
    BY <1>1, <2>1, <2>2, KeptWithout DEF KInv
  <2> QED
    BY <1>1, <2>3, <2>4 DEF OnTime
<1>6. CASE ~(l.empty \/ ts = <<>>) /\ ts[1] = "TIME"
  <2>1. IsTime(l) /\ ~IsCommand(l)
    BY <1>2, <1>6 DEF IsTime, IsCommand
  <2>2. Len(ts) = 2
    BY <1>1, <1>2, <2>1 DEF WellFormed
  <2>3. time' = time + Milliseconds[ts[2]] /\ UNCHANGED agenda
    <3>1. /\ time' = IF Len(ts) = 2 THEN time + Milliseconds[ts[2]] ELSE time
          /\ UNCHANGED agenda
      BY <1>6, Zenon
    <3> HIDE DEF ts
    <3> QED
      BY <2>2, <3>1
  <2>4. time' = Elapsed(script)[read + 1]
    <3>1. Delay(l) = Milliseconds[ts[2]]
      BY <1>2, <2>1 DEF Delay
    <3> HIDE DEF l, ts
    <3> QED
      BY <1>3, <2>3, <3>1
  <2>5. ScriptKept'
    BY <1>1, <2>1, <2>3, KeptWithout DEF KInv
  <2> QED
    BY <1>1, <2>4, <2>5 DEF OnTime
<1>7. CASE ~(l.empty \/ ts = <<>>) /\ ts[1] # "TIME"
  <2>1. IsCommand(l) /\ Delay(l) = 0
    BY <1>2, <1>7 DEF IsTime, IsCommand, Delay
  <2>2. agenda' = Append(agenda, [at |-> time, command |-> l.words]) /\ UNCHANGED time
    BY <1>2, <1>7
  <2>3. time = Elapsed(script)[read + 1]
    BY <1>3, <2>1
  <2>4. l.words \in Command
    BY <1>1, ScriptCommand
  <2>5. ScriptKept'
    <3> DEFINE e == [at |-> time, command |-> l.words]
    <3>1. e \in [at : Nat, command : Command]
      BY <1>3, <2>4
    <3>2. e = [at |-> Elapsed(script)[read + 1], command |-> script[read + 1].words]
      BY <2>3
    <3>3. agenda' = Append(agenda, e)
      BY <2>2
    <3> HIDE DEF e
    <3> QED
      BY <1>1, <2>1, <3>1, <3>2, <3>3, KeptWith DEF KInv
  <2> QED
    BY <1>1, <2>2, <2>3, <2>5 DEF OnTime
<1> QED
  BY <1>5, <1>6, <1>7

LEMMA KeptOtherwise ==
  ASSUME KInv, UNCHANGED scriptVars, sim' = "start" => sim = "start"
  PROVE  ScriptKept' /\ OnTime'
  BY DEF KInv, ScriptKept, OnTime, CommandLines, scriptVars

LEMMA NextKept ==
  ASSUME WellFormed, KInv, [Next]_vars
  PROVE  ScriptKept' /\ OnTime'
<1>1. CASE ReadScriptLine
  BY <1>1, KeptReading
<1>2. CASE UNCHANGED vars
  BY <1>2, KeptOtherwise DEF vars
<1>3. CASE \E l \in Line : GetLine(l)
  BY <1>3, KeptOtherwise DEF GetLine, Reads
<1>4. CASE ReaderStep
  BY <1>4, KeptOtherwise DEF ReaderStep, TestBusy, Tokenize, Post, Forget, Reads
<1>5. CASE ScanStep
  <2>1. UNCHANGED scriptVars /\ sim' # "start"
    BY <1>5 DEF ScanStep, Scan, Process, Clear, Release, Simulates
  <2> QED
    BY <2>1, KeptOtherwise
<1>6. CASE Run \/ RunPosted \/ RunScript \/ Exit
  <2>1. UNCHANGED scriptVars /\ sim' # "start"
    BY <1>6 DEF Run, RunPosted, RunScript, Exit, Simulates
  <2> QED
    BY <2>1, KeptOtherwise
<1> QED
  BY <1>1, <1>2, <1>3, <1>4, <1>5, <1>6 DEF Next, SimulatorStep

(* The loop over the script's lines clears m_tokens on every way back to its  *)
(* head when TIME has its one argument: each command comes to be scheduled    *)
(* with its own words and at its own time, however many lines there are.      *)
THEOREM ScriptStaysKept ==
  ASSUME WellFormed
  PROVE  Spec => []ScriptKept
<1>1. Init => KInv
  BY InitIInv, InitTypeOK, InitKept DEF KInv
<1>2. KInv /\ [Next]_vars => KInv'
  BY StepQueue, NextTypeOK, NextKept DEF KInv
<1>3. KInv => ScriptKept
  BY DEF KInv
<1> QED
  BY <1>1, <1>2, <1>3, PTL DEF Spec
=============================================================================
