-------------------------- MODULE PollScheduleProofs --------------------------
(***************************************************************************)
(* Proofs about PollSchedule, for any times that are related the way those *)
(* of the code are.  A command that lives is followed from one reading of  *)
(* the row to the next: how old it can be there bounds how old it is when  *)
(* the row is finished, and so that it sleeps no longer than Fast; and so  *)
(* its checks are never as far apart as the page's window.                 *)
(***************************************************************************)
EXTENDS PollSchedule, TLAPS

Is(c, at) == cmd[c].at = at
Due(c) == cmd[c].age + cmd[c].left

\* A command is no older than the pairing, a row it has read as finished is,
\* and only a short time may pass till it is up.
Loaded ==
    \A c \in Alive :
        /\ age <= Timeout => cmd[c].age <= age
        /\ cmd[c].row = "finished" => done
        /\ Is(c, "boot") => cmd[c].left <= Boot /\ cmd[c].age = 0 /\ cmd[c].row = "open"

\* How old a command is at the end of what it does: it has last read the row
\* before the timeout, or after it and TWINT has no result yet, or has one.
Cycle == Fast + Latency
After(at) == IF at = "call" THEN Cycle ELSE Fast
Bound(c) ==
    IF cmd[c].row = "open" THEN Timeout
    ELSE IF result THEN Timeout + Cycle + Cycle ELSE Timeout + Cycle
InTime ==
    ~done => \A c \in Alive : ~Is(c, "boot") => Due(c) <= Bound(c) + After(cmd[c].at)

\* The page waits for a command that starts, and it is in its window that a
\* living one checks again.
Covered(c) ==
    \/ Is(c, "boot") /\ cmd[c].left < page
    \/ Is(c, "sleep") /\ cmd[c].left = 0 /\ page > 0
    \/ Is(c, "sleep") /\ checked + cmd[c].left < Window
    \/ Is(c, "call") /\ checked + cmd[c].left + Fast < Window
Covers == ~done => \A c \in Alive : Covered(c)

TimeInv == TypeOK /\ Loaded /\ InTime

Command == [at : {"off", "boot", "call", "sleep"}, left : Nat, age : 0..Counted,
            row : {"open", "late", "finished"}]

-----------------------------------------------------------------------------
LEMMA TimesAreNat ==
    /\ {Window, Timeout, Fast, Slow, FastFor, PageEvery, Boot, Latency} \subseteq Nat
    /\ Window > 0 /\ Fast > 0 /\ PageEvery > 0 /\ Latency > 0 /\ Boot > 0
    /\ Deadline = Timeout + Cycle + Cycle + Cycle
    /\ Deadline \in Nat /\ Cycle \in Nat /\ Counted \in Nat /\ Closed \in Nat
BY TimesAssumption DEF Deadline, Cycle, Counted, Closed

LEMMA FastIsShort == Cycle > 0 /\ Fast <= Cycle
BY TimesAreNat DEF Cycle

\* The row as the command finds it.
LEMMA ReadType ==
    /\ RowRead(done) \in {"open", "late", "finished"}
    /\ RowRead(done') \in {"open", "late", "finished"}
BY DEF RowRead

\* What a question of the page starts: nothing, or a command in a free place.
LEMMA Starts ==
    ASSUME TypeOK, StartProcess
    PROVE  \E b \in Cmds \ Alive, new \in Command :
              /\ new.at = "boot" /\ new.age = 0 /\ new.row = "open"
              /\ new.left \in 0..Boot
              /\ cmd' = [cmd EXCEPT ![b] = new]
<1>1. PICK b \in Cmds \ Alive, d \in 0..Boot :
          cmd' = [cmd EXCEPT ![b] = [Off EXCEPT !.at = "boot", !.left = d]]
  BY DEF StartProcess
<1>. DEFINE new == [Off EXCEPT !.at = "boot", !.left = d]
<1>2. Off \in Command /\ d \in Nat
  BY TimesAreNat DEF Off, Command
<1>3. new \in Command
  BY <1>2 DEF Command
<1>4. new.at = "boot" /\ new.age = 0 /\ new.row = "open" /\ new.left = d
  BY <1>3 DEF Off
<1>. QED
  BY <1>1, <1>3, <1>4

LEMMA Asks ==
    ASSUME TypeOK, Ask
    PROVE  /\ page = 0 /\ page' \in 1..Closed /\ blind' \in 0..MaxBlind
           /\ UNCHANGED <<age, checked, result, done>>
           /\ \/ UNCHANGED cmd
              \/ /\ (~done /\ ~IsRunning) \/ blind' # blind
                 /\ page' \in {Closed, PageEvery}
                 /\ \E b \in Cmds \ Alive, new \in Command :
                       /\ new.at = "boot" /\ new.age = 0 /\ new.row = "open"
                       /\ new.left \in 0..Boot
                       /\ cmd' = [cmd EXCEPT ![b] = new]
<1>1. page = 0 /\ UNCHANGED <<age, checked, result, done>>
  BY DEF Ask
<1>2. {Closed, PageEvery} \subseteq 1..Closed
  BY TimesAreNat DEF Closed
<1>3. CASE Look
  <2>1. page' \in {Closed, PageEvery} /\ blind' = blind
    BY <1>3 DEF Look, PageNext
  <2>2. UNCHANGED cmd \/ (~done /\ ~IsRunning /\ StartProcess)
    BY <1>3 DEF Look
  <2>. QED
    BY <1>1, <1>2, <2>1, <2>2, Starts DEF TypeOK
<1>4. CASE Blindly
  <2>1. blind' \in 0..MaxBlind /\ blind' # blind
    BY <1>4, BlindAssumption DEF Blindly, TypeOK
  <2>2. CASE page' \in PageNext /\ StartProcess
    <3>1. page' \in {Closed, PageEvery}
      BY <2>2 DEF PageNext
    <3>. QED
      BY <1>1, <1>2, <2>1, <2>2, <3>1, Starts
  <2>3. CASE page' \in {Closed} \cup 1..PageEvery /\ UNCHANGED cmd
    BY <1>1, <2>1, <2>3, TimesAreNat DEF Closed
  <2>. QED
    BY <1>4, <2>2, <2>3 DEF Blindly
<1>. QED
  BY <1>3, <1>4 DEF Ask

\* After an answer the command sleeps, its row read anew: for Fast seconds as
\* long as there is no result, since it is young then.
LEMMA Replied ==
    ASSUME TimeInv, FastUntilDone, NEW c \in Cmds, Reply(c)
    PROVE  /\ UNCHANGED <<age, checked, page, blind>>
           /\ done' = (done \/ result) /\ result' = (result \/ cmd[c].row = "late")
           /\ cmd[c].at = "call" /\ cmd[c].left = 0
           /\ ~done => cmd[c].age <= Bound(c) + Cycle
           /\ cmd[c].row = "open" \/ cmd[c].row = "late" \/ done
           /\ \E new \in Command :
                 /\ new.at = "sleep" /\ new.age = cmd[c].age /\ new.row = RowRead(done')
                 /\ ~done /\ ~result => new.left = Fast
                 /\ cmd' = [cmd EXCEPT ![c] = new]
<1>. USE TimesAreNat DEF Alive, Is, TimeInv
<1>. DEFINE rests == Interval(cmd[c].age)
            new == [cmd[c] EXCEPT !.at = "sleep", !.left = rests, !.row = RowRead(done')]
<1>1. /\ UNCHANGED <<age, checked, page, blind>>
      /\ done' = (done \/ result) /\ result' = (result \/ cmd[c].row = "late")
      /\ cmd[c].at = "call" /\ cmd[c].left = 0
      /\ cmd' = [cmd EXCEPT ![c] = new]
  BY DEF Reply, Settled
<1>2. Due(c) = cmd[c].age /\ cmd[c].age \in Nat
  BY <1>1 DEF TypeOK, Due
<1>3. ~done => cmd[c].age <= Bound(c) + Cycle
  BY <1>1, <1>2 DEF InTime, After
<1>4. cmd[c].row = "open" \/ cmd[c].row = "late" \/ done
  BY <1>1 DEF TypeOK, Loaded
<1>5. rests \in Nat /\ (~done /\ ~result => rests = Fast)
  <2>1. ~result => Bound(c) = Timeout \/ Bound(c) = Timeout + Cycle
    BY DEF Bound
  <2>2. ~done /\ ~result => cmd[c].age < FastFor
    BY <1>2, <1>3, <2>1, FastIsShort DEF FastUntilDone
  <2>. QED
    BY <2>2 DEF Interval
<1>. HIDE DEF rests
<1>6. /\ new \in Command /\ new.at = "sleep" /\ new.left = rests
      /\ new.age = cmd[c].age /\ new.row = RowRead(done')
  <2>1. cmd[c] \in Command
    BY DEF TypeOK, Command
  <2>2. new \in Command
    BY <1>5, <2>1, ReadType DEF Command
  <2>. QED
    BY <2>1, <2>2 DEF Command
<1>. HIDE DEF new
<1>. QED
  BY <1>1, <1>2, <1>3, <1>4, <1>5, <1>6

LEMMA OneMore ==
    ASSUME NEW n \in 0..Counted, n # Counted
    PROVE  n + 1 \in 0..Counted
BY TimesAreNat

\* A second: what is under way has one less left, and is a second older.
LEMMA SecondPasses ==
    ASSUME TypeOK, Tick
    PROVE  /\ age' \in 0..(Timeout + 1) /\ (age' <= Timeout => age' = age + 1)
           /\ checked' \in 0..Window /\ checked' <= checked + 1
           /\ page' \in 0..Closed /\ (page' = page - 1 \/ page' = Closed)
           /\ UNCHANGED <<result, done, blind>>
           /\ cmd' = [c \in Cmds |-> cmd'[c]]
           /\ \A c \in Cmds : cmd[c].at = "off" => cmd'[c] = Off
           /\ \A c \in Cmds : cmd[c].at # "off" =>
                 /\ cmd'[c] \in Command
                 /\ cmd'[c].at = cmd[c].at /\ cmd'[c].row = cmd[c].row
                 /\ cmd[c].left > 0 /\ cmd'[c].left = cmd[c].left - 1
                 /\ cmd'[c].age \in {cmd[c].age, cmd[c].age + 1}
                 /\ cmd[c].at = "boot" => cmd'[c].age = cmd[c].age
<1>. USE TimesAreNat DEF Alive
<1>1. /\ age' \in 0..(Timeout + 1) /\ (age' <= Timeout => age' = age + 1)
      /\ checked' \in 0..Window /\ checked' <= checked + 1
      /\ page' \in 0..Closed /\ (page' = page - 1 \/ page' = Closed)
  <2>1. age \in 0..(Timeout + 1) /\ checked \in 0..Window /\ page \in 0..Closed /\ page # 0
    BY DEF Tick, TypeOK
  <2>2. /\ age' = IF age > Timeout THEN age ELSE age + 1
        /\ checked' = IF checked = Window THEN Window ELSE checked + 1
        /\ page' = IF page = Closed THEN page ELSE page - 1
    BY DEF Tick
  <2>3. age' \in 0..(Timeout + 1) /\ (age' <= Timeout => age' = age + 1)
    BY <2>1, <2>2
  <2>4. checked' \in 0..Window /\ checked' <= checked + 1
    BY <2>1, <2>2
  <2>5. page' \in 0..Closed /\ (page' = page - 1 \/ page' = Closed)
    BY <2>1, <2>2
  <2>. QED
    BY <2>3, <2>4, <2>5
<1>2. UNCHANGED <<result, done, blind>> /\ cmd' = [c \in Cmds |-> cmd'[c]]
  BY DEF Tick
<1>3. ASSUME NEW c \in Cmds, cmd[c].at = "off"
      PROVE  cmd'[c] = Off
  BY <1>3 DEF Tick
<1>4. ASSUME NEW c \in Cmds, cmd[c].at # "off"
      PROVE  /\ cmd'[c] \in Command
             /\ cmd'[c].at = cmd[c].at /\ cmd'[c].row = cmd[c].row
             /\ cmd[c].left > 0 /\ cmd'[c].left = cmd[c].left - 1
             /\ cmd'[c].age \in {cmd[c].age, cmd[c].age + 1}
             /\ cmd[c].at = "boot" => cmd'[c].age = cmd[c].age
  <2>. DEFINE older == IF cmd[c].at = "boot" \/ cmd[c].age = Counted
                       THEN cmd[c].age ELSE cmd[c].age + 1
              new == [cmd[c] EXCEPT !.left = @ - 1, !.age = older]
  <2>1. cmd[c] \in Command /\ cmd[c].left > 0
    BY <1>4 DEF TypeOK, Command, Tick
  <2>2. cmd[c].age \in 0..Counted /\ cmd[c].left - 1 \in Nat
    BY <2>1 DEF Command
  <2>3. /\ older \in 0..Counted /\ older \in {cmd[c].age, cmd[c].age + 1}
        /\ cmd[c].at = "boot" => older = cmd[c].age
    <3>1. CASE cmd[c].at = "boot" \/ cmd[c].age = Counted
      <4>1. older = cmd[c].age
        BY <3>1
      <4>. QED
        BY <2>2, <4>1
    <3>2. CASE cmd[c].at # "boot" /\ cmd[c].age # Counted
      <4>1. older = cmd[c].age + 1
        BY <3>2
      <4>. HIDE DEF older
      <4>2. older \in 0..Counted
        BY <2>2, <3>2, <4>1, OneMore
      <4>. QED
        BY <3>2, <4>1, <4>2
    <3>. QED
      BY <3>1, <3>2
  <2>4. cmd'[c] = new
    BY <1>4 DEF Tick
  <2>. HIDE DEF older
  <2>5. new \in Command
    BY <2>1, <2>2, <2>3 DEF Command
  <2>6. /\ new.at = cmd[c].at /\ new.row = cmd[c].row
        /\ new.left = cmd[c].left - 1 /\ new.age = older
    BY <2>1 DEF Command
  <2>. QED
    BY <2>1, <2>3, <2>4, <2>5, <2>6
<1>. QED
  BY <1>1, <1>2, <1>3, <1>4

-----------------------------------------------------------------------------
LEMMA TwintDecidesInTime ==
    ASSUME TimeInv, TwintDecides
    PROVE  TimeInv'
<1>. USE TimesAreNat DEF TwintDecides, Alive, Is, TimeInv
<1>1. TypeOK'
  BY DEF TypeOK, Closed
<1>2. Loaded'
  BY DEF TypeOK, Loaded
<1>3. InTime'
  BY DEF TypeOK, Loaded, InTime, Due, Bound, After, Cycle
<1>. QED
  BY <1>1, <1>2, <1>3

LEMMA ClosePageInTime ==
    ASSUME TimeInv, ClosePage
    PROVE  TimeInv'
<1>. USE TimesAreNat DEF ClosePage, Alive, Is, TimeInv
<1>1. TypeOK'
  BY DEF TypeOK, Closed
<1>2. Loaded'
  BY DEF TypeOK, Loaded
<1>3. InTime'
  BY DEF TypeOK, Loaded, InTime, Due, Bound, After, Cycle
<1>. QED
  BY <1>1, <1>2, <1>3

LEMMA OpenPageInTime ==
    ASSUME TimeInv, OpenPage
    PROVE  TimeInv'
<1>. USE TimesAreNat DEF OpenPage, Alive, Is, TimeInv
<1>1. TypeOK'
  BY DEF TypeOK, Closed
<1>2. Loaded'
  BY DEF TypeOK, Loaded
<1>3. InTime'
  BY DEF TypeOK, Loaded, InTime, Due, Bound, After, Cycle
<1>. QED
  BY <1>1, <1>2, <1>3

LEMMA LoadInTime ==
    ASSUME TimeInv, NEW c \in Cmds, Load(c)
    PROVE  TimeInv'
<1>. USE TimesAreNat DEF Load, RowRead, IsTimedOut, Alive, Is, TimeInv
<1>1. TypeOK'
  <2>1. [cmd[c] EXCEPT !.at = "sleep", !.row = RowRead(done)] \in Command
    BY ReadType DEF TypeOK, Command
  <2>. QED
    BY <2>1 DEF TypeOK, Command
<1>2. Loaded'
  BY DEF TypeOK, Loaded
<1>3. InTime'
  BY DEF TypeOK, Loaded, InTime, Due, Bound, After, Cycle
<1>. QED
  BY <1>1, <1>2, <1>3

LEMMA RoundInTime ==
    ASSUME TimeInv, NEW c \in Cmds, Round(c)
    PROVE  TimeInv'
<1>. USE TimesAreNat DEF Round, Off, Alive, Is, TimeInv
<1>1. TypeOK'
  BY DEF TypeOK, Closed
<1>2. Loaded'
  BY DEF TypeOK, Loaded
<1>3. InTime'
  BY DEF TypeOK, Loaded, InTime, Due, Bound, After, Cycle
<1>. QED
  BY <1>1, <1>2, <1>3

LEMMA ScheduledTaskInTime ==
    ASSUME TimeInv, ScheduledTask
    PROVE  TimeInv'
<1>. USE TimesAreNat DEF ScheduledTask, Settled, IsTimedOut, Alive, Is, TimeInv
<1>1. TypeOK'
  BY DEF TypeOK, Closed
<1>2. Loaded'
  BY DEF TypeOK, Loaded
<1>3. InTime'
  BY DEF TypeOK, Loaded, InTime, Due, Bound, After, Cycle
<1>. QED
  BY <1>1, <1>2, <1>3

LEMMA DieInTime ==
    ASSUME TimeInv, NEW c \in Cmds, Die(c)
    PROVE  TimeInv'
<1>. USE TimesAreNat DEF Die, Off, Alive, Is, TimeInv
<1>1. TypeOK'
  BY DEF TypeOK, Closed
<1>2. Loaded'
  BY DEF TypeOK, Loaded
<1>3. InTime'
  BY DEF TypeOK, Loaded, InTime, Due, Bound, After, Cycle
<1>. QED
  BY <1>1, <1>2, <1>3

LEMMA AskInTime ==
    ASSUME TimeInv, Ask
    PROVE  TimeInv'
<1>. USE TimesAreNat DEF Alive, Is, TimeInv
<1>1. page' \in 0..Closed /\ blind' \in 0..MaxBlind /\ UNCHANGED <<age, checked, result, done>>
  <2>1. 1..Closed \subseteq 0..Closed
    OBVIOUS
  <2>. QED
    BY <2>1, Asks
<1>2. CASE UNCHANGED cmd
  BY <1>1, <1>2 DEF TypeOK, Loaded, InTime, Due, Bound, After
<1>3. ASSUME NEW b \in Cmds, NEW new \in Command, cmd' = [cmd EXCEPT ![b] = new],
             new.at = "boot", new.left \in 0..Boot, new.age = 0, new.row = "open"
      PROVE  TimeInv'
  <2>1. TypeOK'
    BY <1>1, <1>3 DEF TypeOK, Command
  <2>2. Loaded'
    BY <1>1, <1>3 DEF TypeOK, Loaded
  <2>3. InTime'
    BY <1>1, <1>3 DEF TypeOK, InTime, Due, Bound, After
  <2>. QED
    BY <2>1, <2>2, <2>3
<1>. QED
  BY <1>2, <1>3, Asks

LEMMA ReplyInTime ==
    ASSUME TimeInv, FastUntilDone, NEW c \in Cmds, Reply(c)
    PROVE  TimeInv'
<1>. USE TimesAreNat DEF Alive, Is, TimeInv
<1>1. PICK new \in Command :
          /\ new.at = "sleep" /\ new.age = cmd[c].age /\ new.row = RowRead(done')
          /\ ~done /\ ~result => new.left = Fast
          /\ cmd' = [cmd EXCEPT ![c] = new]
  BY Replied
<1>2. /\ UNCHANGED <<age, checked, page, blind>>
      /\ done' = (done \/ result) /\ result' = (result \/ cmd[c].row = "late")
      /\ cmd[c].at = "call" /\ cmd[c].left = 0
      /\ ~done => cmd[c].age <= Bound(c) + Cycle
      /\ cmd[c].row = "open" \/ cmd[c].row = "late" \/ done
  BY Replied
<1>3. TypeOK'
  <2>1. done' \in BOOLEAN /\ result' \in BOOLEAN /\ (done' => result')
    BY <1>2 DEF TypeOK
  <2>. QED
    BY <1>1, <1>2, <2>1 DEF TypeOK, Command
<1>4. Loaded'
  BY <1>1, <1>2 DEF TypeOK, Loaded, RowRead
<1>5. InTime'
  <2>1. SUFFICES ASSUME ~done', NEW d \in Cmds, cmd'[d].at # "off", cmd'[d].at # "boot"
                 PROVE  (Due(d) <= Bound(d) + After(cmd[d].at))'
    BY DEF InTime
  <2>2. CASE d = c
    <3>. SUFFICES (Due(c) <= Bound(c) + After(cmd[c].at))'
      BY <2>2
    <3>1. ~done /\ ~result
      BY <1>2, <2>1 DEF TypeOK
    <3>2. cmd'[c] = new
      BY <1>1 DEF TypeOK
    <3>3. /\ Due(c)' = cmd[c].age + Fast /\ After(cmd[c].at)' = Fast
          /\ cmd[c].age \in Nat
      BY <1>1, <3>1, <3>2 DEF Due, After, TypeOK
    <3>4. CASE age <= Timeout
      <4>1. Bound(c)' = Timeout /\ cmd[c].age <= Timeout
        BY <1>1, <1>2, <2>1, <3>2, <3>4 DEF Bound, RowRead, IsTimedOut, Loaded, TypeOK
      <4>. QED
        BY <3>3, <4>1
    <3>5. CASE age > Timeout
      <4>1. cmd'[c].row = "late"
        BY <1>1, <1>2, <2>1, <3>2, <3>5 DEF RowRead, IsTimedOut
      <4>2. CASE cmd[c].row = "open"
        BY <1>2, <3>1, <3>3, <4>1, <4>2 DEF Bound
      <4>3. CASE cmd[c].row = "late"
        <5>1. result'
          BY <1>2, <4>3
        <5>2. Bound(c)' = Timeout + Cycle + Cycle
          BY <4>1, <5>1 DEF Bound
        <5>3. Bound(c) = Timeout + Cycle
          BY <3>1, <4>3 DEF Bound
        <5>. QED
          BY <1>2, <3>1, <3>3, <5>2, <5>3
      <4>. QED
        BY <1>2, <3>1, <4>2, <4>3
    <3>. QED
      BY <3>4, <3>5 DEF TypeOK
  <2>3. CASE d # c
    BY <1>1, <1>2, <2>1, <2>3 DEF TypeOK, InTime, Due, Bound, After
  <2>. QED
    BY <2>2, <2>3
<1>. QED
  BY <1>3, <1>4, <1>5

LEMMA TickInTime ==
    ASSUME TimeInv, Tick
    PROVE  TimeInv'
<1>. USE TimesAreNat, SecondPasses DEF Alive, Is, TimeInv
<1>1. TypeOK'
  <2>1. \A c \in Cmds : cmd'[c] \in Command
    BY DEF TypeOK, Command, Off
  <2>2. cmd' \in [Cmds -> Command]
    BY <2>1
  <2>3. done' \in BOOLEAN /\ result' \in BOOLEAN /\ (done' => result')
    BY DEF TypeOK
  <2>4. age' \in 0..(Timeout + 1) /\ checked' \in 0..Window /\ page' \in 0..Closed
    OBVIOUS
  <2>. QED
    BY <2>2, <2>3, <2>4 DEF TypeOK, Command
<1>2. Loaded'
  BY DEF TypeOK, Loaded, Off
<1>3. InTime'
  BY DEF TypeOK, InTime, Due, Bound, After, Off
<1>. QED
  BY <1>1, <1>2, <1>3

-----------------------------------------------------------------------------
LEMMA InitInTime == Init => TimeInv
<1>. SUFFICES ASSUME Init PROVE TimeInv
  OBVIOUS
<1>1. \A c \in Cmds : cmd[c] = Off
  BY DEF Init
<1>2. Off \in Command
  BY TimesAreNat DEF Off, Command
<1>3. TypeOK
  <2>1. cmd \in [Cmds -> Command]
    BY <1>2 DEF Init
  <2>2. result = FALSE /\ done = FALSE
    BY DEF Init
  <2>3. /\ age \in 0..(Timeout + 1) /\ checked \in 0..Window /\ page \in 0..Closed
        /\ blind \in 0..MaxBlind
    BY TimesAreNat, BlindAssumption DEF Init
  <2>. QED
    BY <2>1, <2>2, <2>3 DEF TypeOK, Command
<1>4. Alive = {}
  BY <1>1 DEF Alive, Off
<1>. QED
  BY <1>3, <1>4 DEF TimeInv, Loaded, InTime

LEMMA NextInTime ==
    ASSUME FastUntilDone, TimeInv, [Next]_vars
    PROVE  TimeInv'
<1>1. CASE TwintDecides \/ Ask \/ ClosePage \/ OpenPage \/ ScheduledTask \/ Tick
  BY <1>1, TwintDecidesInTime, AskInTime, ClosePageInTime, OpenPageInTime,
     ScheduledTaskInTime, TickInTime
<1>2. ASSUME NEW c \in Cmds, Load(c) \/ Round(c) \/ Reply(c) \/ Die(c)
      PROVE  TimeInv'
  BY <1>2, LoadInTime, RoundInTime, ReplyInTime, DieInTime
<1>3. CASE UNCHANGED vars
  BY <1>3 DEF vars, TimeInv, TypeOK, Loaded, InTime, Alive, Is, Due, Bound, After
<1>. QED
  BY <1>1, <1>2, <1>3 DEF Next

LEMMA InTimeFinished ==
    ASSUME TimeInv
    PROVE  FinishedInTime
<1>. SUFFICES ASSUME NEW c \in Alive, ~done PROVE cmd[c].age <= Deadline
  BY TimesAreNat DEF FinishedInTime, TimeInv, TypeOK, Alive
<1>1. cmd[c].age \in Nat /\ cmd[c].left \in Nat /\ c \in Cmds
  BY TimesAreNat DEF Alive, TimeInv, TypeOK
<1>2. CASE Is(c, "boot")
  BY <1>2, TimesAreNat DEF TimeInv, Loaded
<1>3. CASE ~Is(c, "boot")
  <2>1. Due(c) <= Bound(c) + After(cmd[c].at)
    BY <1>3 DEF TimeInv, InTime
  <2>2. After(cmd[c].at) \in Nat /\ After(cmd[c].at) <= Cycle
    BY TimesAreNat, FastIsShort DEF After
  <2>3. Bound(c) \in Nat /\ Bound(c) <= Timeout + Cycle + Cycle
    BY TimesAreNat DEF Bound
  <2>. QED
    BY <1>1, <2>1, <2>2, <2>3, TimesAreNat DEF Due
<1>. QED
  BY <1>2, <1>3

-----------------------------------------------------------------------------
LEMMA TwintDecidesCovers ==
    ASSUME TimeInv, Covers, ChecksOften, TwintDecides
    PROVE  Covers'
<1>. USE TimesAreNat DEF TwintDecides, Alive, Is, TimeInv, TypeOK, Covers, Off
<1>. QED
  BY DEF Covered, Loaded, Closed, ChecksOften

LEMMA ClosePageCovers ==
    ASSUME TimeInv, Covers, ChecksOften, ClosePage
    PROVE  Covers'
<1>. USE TimesAreNat DEF ClosePage, Alive, Is, TimeInv, TypeOK, Covers, Off
<1>. QED
  BY DEF Covered, Loaded, Closed, ChecksOften

LEMMA OpenPageCovers ==
    ASSUME TimeInv, Covers, ChecksOften, OpenPage
    PROVE  Covers'
<1>. USE TimesAreNat DEF OpenPage, Alive, Is, TimeInv, TypeOK, Covers, Off
<1>. QED
  BY DEF Covered, Loaded, Closed, ChecksOften

LEMMA LoadCovers ==
    ASSUME TimeInv, Covers, ChecksOften, NEW c \in Cmds, Load(c)
    PROVE  Covers'
<1>. USE TimesAreNat DEF Load, Alive, Is, TimeInv, TypeOK, Covers, Off
<1>. QED
  BY DEF Covered, Loaded, Closed, ChecksOften

LEMMA RoundCovers ==
    ASSUME TimeInv, Covers, ChecksOften, NEW c \in Cmds, Round(c)
    PROVE  Covers'
<1>. USE TimesAreNat DEF Round, Alive, Is, TimeInv, TypeOK, Covers, Off
<1>. QED
  BY DEF Covered, Loaded, Closed, ChecksOften

LEMMA ScheduledTaskCovers ==
    ASSUME TimeInv, Covers, ChecksOften, ScheduledTask
    PROVE  Covers'
<1>. USE TimesAreNat DEF ScheduledTask, Alive, Is, TimeInv, TypeOK, Covers, Off
<1>. QED
  BY DEF Covered, Loaded, Closed, ChecksOften

LEMMA DieCovers ==
    ASSUME TimeInv, Covers, ChecksOften, NEW c \in Cmds, Die(c)
    PROVE  Covers'
<1>. USE TimesAreNat DEF Die, Alive, Is, TimeInv, TypeOK, Covers, Off
<1>. QED
  BY DEF Covered, Loaded, Closed, ChecksOften

\* A command in the window keeps the page from starting another, and what is
\* started without a look is up before the page asks again.
LEMMA LivingIsRunning ==
    ASSUME TimeInv, Covers, page = 0, ~done, NEW c \in Alive
    PROVE  IsRunning
BY TimesAreNat DEF TimeInv, Covers, Covered, Is, IsRunning, Alive, TypeOK, Loaded

LEMMA AskCovers ==
    ASSUME TimeInv, Covers, ChecksOften, Ask
    PROVE  Covers'
<1>. USE TimesAreNat DEF TimeInv
<1>1. UNCHANGED <<checked, done>> /\ page = 0 /\ page' > 0
  BY Asks DEF Closed
<1>2. ASSUME NEW c \in Alive, ~done, cmd'[c] = cmd[c]
      PROVE  Covered(c)'
  <2>1. Covered(c) /\ cmd[c].left \in Nat
    BY <1>2 DEF Covers, Alive, TypeOK
  <2>. QED
    BY <1>1, <1>2, <2>1 DEF Covered, Is
<1>3. CASE UNCHANGED cmd
  BY <1>1, <1>2, <1>3 DEF Covers, Alive
<1>4. ASSUME NEW b \in Cmds \ Alive, NEW new \in Command, cmd' = [cmd EXCEPT ![b] = new],
             new.at = "boot", new.left \in 0..Boot, page' \in {Closed, PageEvery}
      PROVE  Covers'
  <2>1. Alive' = Alive \cup {b} /\ cmd'[b] = new /\ \A c \in Alive : cmd'[c] = cmd[c]
    BY <1>4 DEF Alive, TypeOK
  <2>2. new.left < page'
    BY <1>4 DEF Closed, ChecksOften
  <2>3. Covered(b)'
    BY <1>4, <2>1, <2>2 DEF Covered, Is
  <2>. QED
    BY <1>1, <1>2, <2>1, <2>3 DEF Covers
<1>. QED
  BY <1>3, <1>4, Asks

LEMMA ReplyCovers ==
    ASSUME TimeInv, Covers, FastUntilDone, ChecksOften, NEW c \in Cmds, Reply(c)
    PROVE  Covers'
<1>. USE TimesAreNat DEF TimeInv, Covers
<1>1. PICK new \in Command :
          /\ new.at = "sleep"
          /\ ~done /\ ~result => new.left = Fast
          /\ cmd' = [cmd EXCEPT ![c] = new]
  BY Replied
<1>2. /\ UNCHANGED <<checked, page>> /\ done' = (done \/ result)
      /\ cmd[c].at = "call" /\ cmd[c].left = 0
  BY Replied
<1>3. Alive' = Alive /\ c \in Alive /\ cmd'[c] = new
  BY <1>1, <1>2 DEF Alive, TypeOK
<1>4. ASSUME ~done'
      PROVE  Covered(c)'
  <2>1. ~done /\ ~result
    BY <1>2, <1>4 DEF TypeOK
  <2>2. checked + Fast < Window
    BY <1>2, <1>3, <2>1 DEF Covered, Is, TypeOK
  <2>. QED
    BY <1>1, <1>2, <1>3, <2>1, <2>2 DEF Covered, Is
<1>5. ASSUME NEW d \in Alive, d # c, ~done'
      PROVE  Covered(d)'
  <2>1. Covered(d) /\ cmd'[d] = cmd[d]
    BY <1>1, <1>2, <1>5 DEF Alive, TypeOK
  <2>. QED
    BY <1>2, <2>1 DEF Covered, Is
<1>. QED
  BY <1>3, <1>4, <1>5

LEMMA TickCovers ==
    ASSUME TimeInv, Covers, Tick
    PROVE  Covers'
<1>. USE TimesAreNat, SecondPasses DEF TimeInv, Covers
<1>1. Alive' = Alive
  BY DEF Alive, Off
<1>2. ASSUME NEW c \in Alive, ~done
      PROVE  Covered(c)'
  <2>1. Covered(c)
    BY <1>2
  <2>2. /\ cmd'[c].at = cmd[c].at /\ cmd[c].left > 0 /\ cmd'[c].left = cmd[c].left - 1
        /\ cmd[c].left \in Nat
    BY DEF Alive, TypeOK
  <2>3. CASE Is(c, "boot")
    BY <2>1, <2>2, <2>3 DEF Covered, Is, TypeOK, Loaded, Alive, Closed
  <2>4. CASE ~Is(c, "boot")
    BY <2>1, <2>2, <2>4 DEF Covered, Is, TypeOK
  <2>. QED
    BY <2>3, <2>4
<1>. QED
  BY <1>1, <1>2

-----------------------------------------------------------------------------
LEMMA InitCovers == Init => Covers
<1>1. Init => Alive = {}
  BY DEF Init, Alive, Off
<1>. QED
  BY <1>1 DEF Covers

LEMMA NextCovers ==
    ASSUME FastUntilDone, ChecksOften, TimeInv, Covers, [Next]_vars
    PROVE  Covers'
<1>1. CASE TwintDecides \/ Ask \/ ClosePage \/ OpenPage \/ ScheduledTask \/ Tick
  BY <1>1, TwintDecidesCovers, AskCovers, ClosePageCovers, OpenPageCovers, ScheduledTaskCovers,
     TickCovers
<1>2. ASSUME NEW c \in Cmds, Load(c) \/ Round(c) \/ Reply(c) \/ Die(c)
      PROVE  Covers'
  BY <1>2, LoadCovers, RoundCovers, ReplyCovers, DieCovers
<1>3. CASE UNCHANGED vars
  BY <1>3 DEF vars, Covers, Alive, Covered, Is
<1>. QED
  BY <1>1, <1>2, <1>3 DEF Next

\* Nothing but the page starts commands, and only when none lives, or blindly.
LEMMA NextStarts ==
    ASSUME TimeInv, Covers, Next
    PROVE  Alive = {} \/ Alive' \subseteq Alive \/ blind' # blind
<1>. USE DEF TimeInv, TypeOK, Alive
<1>1. CASE Ask
  <2>. SUFFICES ASSUME NEW c \in Alive, cmd' # cmd, blind' = blind PROVE FALSE
    BY <1>1 DEF Look
  <2>1. page = 0 /\ ~done /\ ~IsRunning
    BY <1>1, Asks
  <2>. QED
    BY <2>1, LivingIsRunning
<1>2. CASE TwintDecides \/ ClosePage \/ OpenPage \/ ScheduledTask
  BY <1>2 DEF TwintDecides, ClosePage, OpenPage, ScheduledTask
<1>3. CASE Tick
  BY <1>3 DEF Tick, Off
<1>4. ASSUME NEW c \in Cmds, Load(c) \/ Round(c) \/ Reply(c) \/ Die(c)
      PROVE  Alive' \subseteq Alive
  <2>1. cmd[c].at # "off" /\ \A d \in Cmds : d # c => cmd'[d] = cmd[d]
    BY <1>4 DEF Load, Round, Reply, Die
  <2>. QED
    BY <2>1
<1>. QED
  BY <1>1, <1>2, <1>3, <1>4 DEF Next

\* The schedule has its types: the ages and the times left, and a finished row
\* has a result of TWINT.
THEOREM TypeCorrect == FastUntilDone => (Spec => []TypeOK)
<1>. SUFFICES ASSUME FastUntilDone PROVE Spec => []TypeOK
  OBVIOUS
<1>1. Init => TimeInv
  BY InitInTime
<1>2. TimeInv /\ [Next]_vars => TimeInv'
  BY NextInTime
<1>3. TimeInv => TypeOK
  BY DEF TimeInv
<1>. QED
  BY <1>1, <1>2, <1>3, PTL DEF Spec

\* However a command, the page, the scheduled task and TWINT take turns: a
\* command that lives past Deadline has finished the row, provided that it asks
\* every Fast seconds until then.
THEOREM FinishedInTimeAlways == FastUntilDone => (Spec => []FinishedInTime)
<1>. SUFFICES ASSUME FastUntilDone PROVE Spec => []FinishedInTime
  OBVIOUS
<1>1. Init => TimeInv
  BY InitInTime
<1>2. TimeInv /\ [Next]_vars => TimeInv'
  BY NextInTime
<1>3. TimeInv => FinishedInTime
  BY InTimeFinished
<1>. QED
  BY <1>1, <1>2, <1>3, PTL DEF Spec

\* The page's window keeps it from starting a command beside one that lives,
\* however many its catch branch has started, provided that commands are up
\* before it asks again, and that a check follows the last within the window as
\* long as they are young.
THEOREM OneCommandAlways == FastUntilDone /\ ChecksOften => (Spec => OneCommand)
<1>. SUFFICES ASSUME FastUntilDone, ChecksOften PROVE Spec => OneCommand
  OBVIOUS
<1>1. Init => TimeInv /\ Covers
  BY InitInTime, InitCovers
<1>2. TimeInv /\ Covers /\ [Next]_vars => TimeInv' /\ Covers'
  BY NextInTime, NextCovers
<1>3. TimeInv /\ Covers /\ [Next]_vars
          => [Alive = {} \/ Alive' \subseteq Alive \/ blind' # blind]_vars
  BY NextStarts
<1>. QED
  BY <1>1, <1>2, <1>3, PTL DEF Spec, OneCommand
=============================================================================
