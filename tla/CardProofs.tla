----------------------------- MODULE CardProofs -----------------------------
(***************************************************************************)
(* What SmartcardLock and T1Link promise, for leases of any length, any    *)
(* answer time and any number of commands, and for commands, answers and   *)
(* error counts of any length.  Each part states an inductive invariant:   *)
(*                                                                         *)
(* - LockInv: the leases exclude each other, a counter is what is left of  *)
(*   its lease, and no task exchanges blocks with the card without one.    *)
(* - LinkInv: for each block under way, how the numbers of firmware and    *)
(*   card differ, and which blocks of the command and of the answer have   *)
(*   come.  Disturbances and a foreign use of the card are named in it.    *)
(***************************************************************************)
EXTENDS SmartcardLock, T1Link, SequenceTheorems, TLAPS

-----------------------------------------------------------------------------
(* SmartcardLock *)

\* A counter is the rest of its lease.
RestOfLease == \A t \in Tasks : lock[t] = IF age[t] < lease[t] THEN lease[t] - age[t] ELSE 0

\* A positive lease is taken right before every exchange with the card.
HeldAtCard(steps, held) ==
  \A i \in 1 .. Len(steps) :
     steps[i].step = "card" => IF i = 1 THEN held > 0
                               ELSE steps[i - 1].step = "lock" /\ steps[i - 1].ticks > 0

HoldsAtCard == \A t \in Tasks : HeldAtCard(todo[t], lease[t])

LockInv == LockTypeOK /\ LeasesExclude /\ RestOfLease /\ HoldsAtCard

LEMMA TasksFacts == /\ Tasks = {"ccid", "iw"}
                    /\ \A t \in Tasks : Other(t) \in Tasks /\ Other(t) # t /\ Other(Other(t)) = t
                    /\ \A t, u \in Tasks : u = t \/ u = Other(t)
  BY DEF Tasks, Other

LEMMA LeasesBounded == \A n \in Leases : n \in Nat /\ n <= MaxAge
<1> SUFFICES ASSUME NEW n \in Leases PROVE n \in Nat /\ n <= MaxAge
  OBVIOUS
<1>1. n = 0 \/ n = Long \/ n = PowerOn \/ n = Normal \/ n = Clear
  BY DEF Leases
<1>2. QED
  BY <1>1, LockAssumption

LEMMA StateFacts ==
  ASSUME LockTypeOK
  PROVE  \A t \in Tasks : /\ lock[t] \in Nat /\ age[t] \in 0 .. MaxAge /\ age[t] \in Nat
                          /\ lease[t] \in Nat /\ lease[t] <= MaxAge
<1> SUFFICES ASSUME NEW t \in Tasks
             PROVE  /\ lock[t] \in Nat /\ age[t] \in 0 .. MaxAge /\ age[t] \in Nat
                    /\ lease[t] \in Nat /\ lease[t] <= MaxAge
  OBVIOUS
<1>1. lock[t] \in Nat /\ age[t] \in 0 .. MaxAge /\ lease[t] \in Leases
  BY DEF LockTypeOK
<1>2. MaxAge \in Nat
  BY LockAssumption
<1>3. QED
  BY <1>1, <1>2, LeasesBounded

\* A command consists of steps, and takes a lease before it exchanges blocks with the card.
LEMMA CommandSteps ==
  ASSUME NEW t \in Tasks, NEW c \in Commands(t)
  PROVE  c \in Seq(Steps) /\ \A held : HeldAtCard(c, held)
<1> DEFINE L(n) == SetLockCounter(n)
<1>1. \A n \in Leases : L(n) \in Steps /\ L(n).step = "lock" /\ L(n).ticks = n
  BY DEF SetLockCounter, Steps
<1>2. /\ Card \in Steps /\ Card.step = "card" /\ Wait \in Steps /\ Wait.step = "wait"
      /\ CardSwitch \in Steps /\ CardSwitch.step = "switch"
  BY DEF Card, Wait, CardSwitch, Steps, Leases
<1>3. /\ 0 \in Leases /\ Long \in Leases /\ PowerOn \in Leases /\ Normal \in Leases
      /\ Clear \in Leases
      /\ Long > 0 /\ PowerOn > 0 /\ Normal > 0 /\ Clear > 0
  BY LockAssumption DEF Leases
<1>4. CASE t = "ccid"
  <2>1. PICK s \in {<<L(PowerOn), Card, L(Normal)>>, <<Card, L(Clear), L(Normal)>>,
                    <<Card, L(Normal)>>, <<L(Normal)>>, <<L(Normal), L(Clear)>>} :
           c = <<Wait, L(Long)>> \o s
    BY <1>4 DEF Commands, Dispatch
  <2>2. /\ s \in Seq(Steps)
        /\ \A i \in 1 .. Len(s) : s[i].step = "card" =>
             i = 1 \/ (i = 2 /\ s[1].step = "lock" /\ s[1].ticks > 0)
    <3>1. CASE s = <<L(PowerOn), Card, L(Normal)>>
      BY <3>1, <1>1, <1>2, <1>3
    <3>2. CASE s = <<Card, L(Clear), L(Normal)>>
      BY <3>2, <1>1, <1>2, <1>3
    <3>3. CASE s = <<Card, L(Normal)>>
      BY <3>3, <1>1, <1>2, <1>3
    <3>4. CASE s = <<L(Normal)>>
      BY <3>4, <1>1, <1>2, <1>3
    <3>5. CASE s = <<L(Normal), L(Clear)>>
      BY <3>5, <1>1, <1>2, <1>3
    <3>6. QED
      BY <2>1, <3>1, <3>2, <3>3, <3>4, <3>5
  <2>3. <<Wait, L(Long)>> \in Seq(Steps) /\ Len(<<Wait, L(Long)>>) = 2
    BY <1>1, <1>2, <1>3
  <2>4. /\ c \in Seq(Steps) /\ Len(c) = 2 + Len(s)
        /\ \A i \in 1 .. Len(c) : c[i] = IF i <= 2 THEN <<Wait, L(Long)>>[i] ELSE s[i - 2]
    BY <2>1, <2>2, <2>3, ConcatProperties
  <2>5. Len(s) \in Nat
    BY <2>2
  <2>6. c[1] = Wait /\ c[2] = L(Long)
    BY <2>4, <2>5
  <2>7. ASSUME NEW i \in 1 .. Len(c), c[i].step = "card"
        PROVE  i # 1 /\ c[i - 1].step = "lock" /\ c[i - 1].ticks > 0
    <3>1. i # 1 /\ i # 2
      BY <2>6, <2>7, <1>1, <1>2, <1>3
    <3>2. i - 2 \in 1 .. Len(s) /\ s[i - 2].step = "card"
      BY <3>1, <2>4, <2>5, <2>7
    <3>3. CASE i = 3
      BY <3>3, <2>6, <1>1, <1>3
    <3>4. CASE i # 3
      <4>1. i = 4 /\ s[1].step = "lock" /\ s[1].ticks > 0
        BY <3>2, <3>4, <2>2, <2>5
      <4>2. 3 \in 1 .. Len(c) /\ c[3] = s[1]
        BY <4>1, <2>4, <2>5
      <4>3. QED
        BY <4>1, <4>2
    <3>5. QED
      BY <3>1, <3>3, <3>4
  <2>8. QED
    BY <2>4, <2>7 DEF HeldAtCard
<1>5. CASE t = "iw"
  <2>1. c \in {<<L(Normal), Card, L(Clear)>>, <<CardSwitch>>, <<L(0), CardSwitch>>}
    BY <1>5 DEF Commands
  <2>2. L(Normal) \in Steps /\ L(Clear) \in Steps /\ L(0) \in Steps
    BY <1>1, <1>3
  <2>3. CASE c = <<L(Normal), Card, L(Clear)>>
    <3>1. c \in Seq(Steps)
      BY <2>2, <2>3, <1>2
    <3>2. \A i \in 1 .. Len(c) : c[i].step = "card" => i = 2 /\ c[1].step = "lock" /\ c[1].ticks > 0
      BY <2>3, <1>1, <1>2, <1>3
    <3>3. QED
      BY <3>1, <3>2 DEF HeldAtCard
  <2>4. CASE c = <<CardSwitch>>
    BY <2>4, <1>2 DEF HeldAtCard
  <2>5. CASE c = <<L(0), CardSwitch>>
    <3>1. c \in Seq(Steps)
      BY <2>2, <2>5, <1>2
    <3>2. \A i \in 1 .. Len(c) : c[i].step # "card"
      BY <2>5, <1>1, <1>2, <1>3
    <3>3. QED
      BY <3>1, <3>2 DEF HeldAtCard
  <2>6. QED
    BY <2>1, <2>3, <2>4, <2>5
<1>6. QED
  BY <1>4, <1>5 DEF Tasks

\* When a step is done, what is left holds as before: a lease just taken is the one held.
LEMMA RestHolds ==
  ASSUME NEW steps \in Seq(Steps), steps # <<>>, NEW held, HeldAtCard(steps, held),
         NEW held2, Head(steps).step = "lock" => held2 = Head(steps).ticks
  PROVE  HeldAtCard(Tail(steps), held2)
<1>1. /\ Len(steps) \in Nat /\ Len(steps) > 0 /\ Len(Tail(steps)) = Len(steps) - 1
      /\ \A i \in 1 .. Len(Tail(steps)) : Tail(steps)[i] = steps[i + 1]
      /\ Head(steps) = steps[1]
  BY HeadTailProperties, EmptySeq
<1>2. ASSUME NEW i \in 1 .. Len(Tail(steps)), Tail(steps)[i].step = "card"
      PROVE  IF i = 1 THEN held2 > 0
             ELSE Tail(steps)[i - 1].step = "lock" /\ Tail(steps)[i - 1].ticks > 0
  <2>1. i + 1 \in 1 .. Len(steps) /\ steps[i + 1].step = "card" /\ i + 1 # 1
    BY <1>1, <1>2
  <2>2. steps[i].step = "lock" /\ steps[i].ticks > 0
    <3>1. (i + 1) - 1 = i
      OBVIOUS
    <3>2. QED
      BY <2>1, <3>1 DEF HeldAtCard
  <2>3. CASE i = 1
    BY <2>2, <2>3, <1>1
  <2>4. CASE i # 1
    <3>1. i - 1 \in 1 .. Len(Tail(steps)) /\ (i - 1) + 1 = i
      BY <2>4, <1>1
    <3>2. Tail(steps)[i - 1] = steps[i]
      BY <3>1, <1>1
    <3>3. QED
      BY <2>2, <2>4, <3>2
  <2>5. QED
    BY <2>3, <2>4
<1>3. QED
  BY <1>2 DEF HeldAtCard

\* The first step of a command is at the head of what is left of it.
LEMMA HeadIsStep ==
  ASSUME LockTypeOK, NEW t \in Tasks, todo[t] # <<>>
  PROVE  /\ Head(todo[t]) \in Steps /\ Tail(todo[t]) \in Seq(Steps)
         /\ Head(todo[t]).ticks \in Leases
<1>1. Head(todo[t]) \in Steps /\ Tail(todo[t]) \in Seq(Steps)
  BY DEF LockTypeOK
<1>2. QED
  BY <1>1 DEF Steps

(* One lemma per action *)

LEMMA LockStarts == LockInit => LockInv
<1> SUFFICES ASSUME LockInit PROVE LockInv
  OBVIOUS
<1>1. LockTypeOK
  <2>1. CardSwitch \in Steps
    BY DEF CardSwitch, Steps, Leases
  <2>2. <<>> \in Seq(Steps) /\ <<CardSwitch>> \in Seq(Steps)
    BY <2>1
  <2>3. todo \in [Tasks -> Seq(Steps)]
    BY <2>2 DEF LockInit
  <2>4. QED
    BY <2>3, LockAssumption DEF LockInit, LockTypeOK, Leases
<1>2. LeasesExclude /\ RestOfLease
  BY TasksFacts DEF LockInit, LeasesExclude, RestOfLease
<1>3. HoldsAtCard
  <2>1. ASSUME NEW t \in Tasks PROVE HeldAtCard(todo[t], lease[t])
    <3>1. todo[t] = <<CardSwitch>> \/ todo[t] = <<>>
      BY DEF LockInit
    <3>2. \A i \in 1 .. Len(todo[t]) : todo[t][i].step # "card"
      <4>1. CASE todo[t] = <<CardSwitch>>
        BY <4>1 DEF CardSwitch
      <4>2. CASE todo[t] = <<>>
        <5>1. Len(<<>>) = 0 /\ 1 .. 0 = {}
          OBVIOUS
        <5>2. QED
          BY <4>2, <5>1
      <4>3. QED
        BY <3>1, <4>1, <4>2
    <3>3. QED
      BY <3>2 DEF HeldAtCard
  <2>2. QED
    BY <2>1 DEF HoldsAtCard
<1>4. QED
  BY <1>1, <1>2, <1>3 DEF LockInv

LEMMA BeginKeeps == ASSUME LockInv, NEW t \in Tasks, Begin(t) PROVE LockInv'
<1>1. PICK c \in Commands(t) : todo' = [todo EXCEPT ![t] = c]
  BY DEF Begin
<1>2. c \in Seq(Steps) /\ \A held : HeldAtCard(c, held)
  BY CommandSteps
<1>3. LockTypeOK'
  BY <1>1, <1>2, LockAssumption DEF LockInv, LockTypeOK, Begin
<1>4. LeasesExclude' /\ RestOfLease'
  BY DEF LockInv, Begin, LeasesExclude, RestOfLease
<1>5. HoldsAtCard'
  BY <1>1, <1>2 DEF LockInv, LockTypeOK, Begin, HoldsAtCard
<1>6. QED
  BY <1>3, <1>4, <1>5 DEF LockInv

\* A wait, or a turn of the card, that is over: the counters stay as they are.
LEMMA StepKeeps ==
  ASSUME LockInv, NEW t \in Tasks, Next_(t, "wait") \/ Next_(t, "card") \/ Next_(t, "switch"),
         todo' = [todo EXCEPT ![t] = Tail(@)], UNCHANGED <<lock, commands, lease, age>>
  PROVE  LockInv'
<1>1. todo[t] # <<>> /\ Head(todo[t]).step # "lock"
  BY DEF Next_
<1>2. LockTypeOK'
  BY <1>1, HeadIsStep DEF LockInv, LockTypeOK
<1>3. LeasesExclude' /\ RestOfLease'
  BY DEF LockInv, LeasesExclude, RestOfLease
<1>4. HoldsAtCard'
  <2>1. todo[t] \in Seq(Steps) /\ HeldAtCard(todo[t], lease[t])
    BY DEF LockInv, LockTypeOK, HoldsAtCard
  <2>2. HeldAtCard(Tail(todo[t]), lease[t])
    BY <1>1, <2>1, RestHolds
  <2>3. QED
    BY <2>2 DEF LockInv, LockTypeOK, HoldsAtCard
<1>5. QED
  BY <1>2, <1>3, <1>4 DEF LockInv

LEMMA SetLockKeeps == ASSUME LockInv, NEW t \in Tasks, SetLock(t) PROVE LockInv'
<1> DEFINE n == Head(todo[t]).ticks
<1>1. todo[t] # <<>> /\ Head(todo[t]).step = "lock" /\ lock[Other(t)] = 0
  BY DEF SetLock, Next_
<1>2. n \in Leases /\ n \in Nat /\ n <= MaxAge /\ Tail(todo[t]) \in Seq(Steps)
  BY <1>1, HeadIsStep, LeasesBounded DEF LockInv
<1>3. LockTypeOK'
  <2>1. lock' \in [Tasks -> Nat] /\ lease' \in [Tasks -> Leases]
    BY <1>2 DEF LockInv, LockTypeOK, SetLock
  <2>2. todo' \in [Tasks -> Seq(Steps)]
    BY <1>2 DEF LockInv, LockTypeOK, SetLock
  <2>3. 0 \in 0 .. MaxAge
    BY LockAssumption
  <2>4. age' \in [Tasks -> 0 .. MaxAge] /\ commands' = commands
    BY <2>3 DEF LockInv, LockTypeOK, SetLock
  <2>5. QED
    BY <2>1, <2>2, <2>4 DEF LockInv, LockTypeOK
<1>4. LeasesExclude'
  BY <1>1, TasksFacts DEF LockInv, LockTypeOK, SetLock, LeasesExclude
<1>5. RestOfLease'
  <2>1. lock'[t] = n /\ lease'[t] = n /\ age'[t] = 0
    BY DEF LockInv, LockTypeOK, SetLock
  <2>2. \A u \in Tasks : u # t => lock'[u] = lock[u] /\ lease'[u] = lease[u] /\ age'[u] = age[u]
    BY DEF LockInv, LockTypeOK, SetLock
  <2>3. QED
    BY <1>2, <2>1, <2>2 DEF LockInv, RestOfLease
<1>6. HoldsAtCard'
  <2>1. todo[t] \in Seq(Steps) /\ HeldAtCard(todo[t], lease[t])
    BY DEF LockInv, LockTypeOK, HoldsAtCard
  <2>2. HeldAtCard(Tail(todo[t]), n)
    BY <1>1, <2>1, RestHolds
  <2>3. QED
    BY <2>2 DEF LockInv, LockTypeOK, SetLock, HoldsAtCard
<1>7. QED
  BY <1>3, <1>4, <1>5, <1>6 DEF LockInv

LEMMA TickKeeps == ASSUME LockInv, Tick PROVE LockInv'
<1>1. \A t \in Tasks : /\ lock'[t] = IF lock[t] # 0 THEN lock[t] - 1 ELSE 0
                       /\ age'[t] = IF age[t] < MaxAge THEN age[t] + 1 ELSE age[t]
                       /\ lease'[t] = lease[t]
  BY DEF Tick, Decremented, Aged
<1>2. \A t \in Tasks : /\ lock[t] \in Nat /\ age[t] \in 0 .. MaxAge
                       /\ lease[t] \in Nat /\ lease[t] <= MaxAge
  BY StateFacts DEF LockInv
<1>3. MaxAge \in Nat
  BY LockAssumption
<1>4. LockTypeOK'
  <2>1. lock' = [t \in Tasks |-> lock'[t]] /\ age' = [t \in Tasks |-> age'[t]]
    BY DEF Tick
  <2>2. \A t \in Tasks : lock'[t] \in Nat /\ age'[t] \in 0 .. MaxAge
    BY <1>1, <1>2, <1>3
  <2>3. lock' \in [Tasks -> Nat] /\ age' \in [Tasks -> 0 .. MaxAge]
    BY <2>1, <2>2
  <2>4. QED
    BY <2>3 DEF LockInv, LockTypeOK, Tick
<1>5. LeasesExclude'
  BY <1>1, <1>2, TasksFacts DEF LockInv, LeasesExclude
<1>6. RestOfLease'
  BY <1>1, <1>2, <1>3 DEF LockInv, RestOfLease
<1>7. HoldsAtCard'
  BY DEF LockInv, Tick, HoldsAtCard
<1>8. QED
  BY <1>4, <1>5, <1>6, <1>7 DEF LockInv

(* The theorems *)

\* The inductive invariant of the leases holds of every behaviour.
THEOREM LockInvariant == LockSpec => []LockInv
<1>1. LockInit => LockInv
  BY LockStarts
<1>2. LockInv /\ [LockNext]_lockVars => LockInv'
  <2> SUFFICES ASSUME LockInv, [LockNext]_lockVars PROVE LockInv'
    OBVIOUS
  <2>1. CASE Tick
    BY <2>1, TickKeeps
  <2>2. ASSUME NEW t \in Tasks, Begin(t) PROVE LockInv'
    BY <2>2, BeginKeeps
  <2>3. ASSUME NEW t \in Tasks, WaitUnlocked(t) PROVE LockInv'
    BY <2>3, StepKeeps DEF WaitUnlocked
  <2>4. ASSUME NEW t \in Tasks, SetLock(t) PROVE LockInv'
    BY <2>4, SetLockKeeps
  <2>5. ASSUME NEW t \in Tasks, CardDone(t) PROVE LockInv'
    BY <2>5, StepKeeps DEF CardDone, OnCard
  <2>6. CASE UNCHANGED lockVars
    BY <2>6 DEF LockInv, LockTypeOK, LeasesExclude, RestOfLease, HoldsAtCard, lockVars
  <2>7. QED
    BY <2>1, <2>2, <2>3, <2>4, <2>5, <2>6 DEF LockNext
<1>3. QED
  BY <1>1, <1>2, PTL DEF LockSpec

\* The two lock counters and the bookkeeping of the tasks keep their types: no counter
\* falls below 0.
THEOREM LockTypeCorrect == LockSpec => []LockTypeOK
<1>1. LockInv => LockTypeOK
  BY DEF LockInv
<1>2. QED
  BY <1>1, LockInvariant, PTL

\* At no time do the CCID task and the IW task both hold a lease on the card.
THEOREM MutualExclusion == LockSpec => []LeasesExclude
<1>1. LockInv => LeasesExclude
  BY DEF LockInv
<1>2. QED
  BY <1>1, LockInvariant, PTL

\* Whatever the leases and the answer time, the two tasks exchange blocks with the card together only
\* when one has outlived the lease it took.  A restart of the card and its switching off take no lease
\* and are no exchange.
THEOREM SharedOnlyAfterOverrun == LockSpec => []CardSharedOnlyAfterOverrun
<1>1. LockInv => CardSharedOnlyAfterOverrun
  <2> SUFFICES ASSUME LockInv, \A t \in Tasks : OnCard(t)
               PROVE  \E t \in Tasks : lease[t] > 0 /\ age[t] >= lease[t]
    BY DEF CardSharedOnlyAfterOverrun
  <2>1. \A t \in Tasks : lock[t] \in Nat /\ age[t] \in Nat /\ lease[t] \in Nat
    BY StateFacts DEF LockInv
  <2>2. ASSUME NEW t \in Tasks PROVE lease[t] > 0
    <3>1. todo[t] \in Seq(Steps) /\ todo[t] # <<>> /\ Head(todo[t]).step = "card"
      BY DEF LockInv, LockTypeOK, OnCard, Next_
    <3>2. Len(todo[t]) \in Nat /\ Len(todo[t]) > 0 /\ Head(todo[t]) = todo[t][1]
      BY <3>1, EmptySeq, HeadTailProperties
    <3>3. HeldAtCard(todo[t], lease[t]) /\ 1 \in 1 .. Len(todo[t])
      BY <3>2 DEF LockInv, HoldsAtCard
    <3>4. QED
      BY <3>1, <3>2, <3>3 DEF HeldAtCard
  <2>4. PICK t \in Tasks : lock[t] = 0
    BY TasksFacts DEF LockInv, LeasesExclude
  <2>5. age[t] >= lease[t]
    BY <2>1, <2>4 DEF LockInv, RestOfLease
  <2>6. QED
    BY <2>2, <2>5
<1>2. QED
  BY <1>1, LockInvariant, PTL

-----------------------------------------------------------------------------
(* T1Link *)

CardState ==
  [expects : Bit, own : Bit, taken : Seq(Part), cmd : 0 .. 2, parts : 0 .. MaxParts, part : 0 .. MaxParts,
   marks : BOOLEAN]

\* The blocks of an answer up to number n, as the firmware may have collected them
Answers(n) == {Parts(n), <<Parts(1)[1]>> \o Parts(n)}

\* The card has not executed the command ...
NotRun == ran = [times |-> 0, whole |-> TRUE] /\ got = <<>> /\ ~chained

\* ... or it has, once, and the numbers differ by the blocks of the answer that were collected.
Run ==
  /\ ran.times = 1 /\ (loose \/ ran.whole) /\ sent + 1 = total
  /\ card.taken = <<>> /\ card.cmd = cmd /\ card.part \in 1 .. card.parts
  /\ card.expects = IF chained THEN sendNr ELSE 1 - sendNr

\* The next block is the one that the card expects.
InStep ==
  /\ ~loose => card.expects = sendNr /\ card.taken = Parts(sent)
  /\ ~card.marks /\ ~before /\ lastNr # sendNr => card.expects = sendNr

\* A R-block is to ask for more: for the next block, or for the first one once again.
Asking ==
  /\ Run /\ card.part < card.parts /\ got \in Answers(card.part)
  /\ card.own = sendNr => card.part = 1 /\ got = Parts(1)

Phase == IF flag = "I" THEN NotRun /\ InStep ELSE Asking

AnswerUnderWay ==
  /\ wire = IBlock(card.own, cmd, card.part, card.part < card.parts) /\ Run
  /\ Append(got, [cmd |-> cmd, part |-> card.part]) \in Answers(card.part)
  /\ card.own # sendNr => card.part = 1 /\ got = <<>>

\* A block that was damaged, or that the card refuses
Refused ==
  /\ wire = SBlock \/ wire = RBlock(card.expects, TRUE)
  /\ Phase
  /\ wire = SBlock \/ flag = "R" \/ ~card.marks \/ ~loose => disturbed

\* A R-block that counts as a receipt
Receipt ==
  /\ wire = RBlock(card.expects, FALSE) /\ flag = "I" /\ NotRun /\ card.expects = 1 - sendNr
  /\ ~loose => sent + 1 < total /\ card.taken = Parts(sent + 1)
  /\ sent + 1 = total /\ ~card.marks /\ lastNr # sendNr => before

\* Between two commands the numbers are together, unless one was disturbed.
Rest ==
  /\ ~disturbed /\ (~loose \/ ran.times > 0) => card.expects = sendNr /\ card.taken = <<>>
  /\ ~disturbed /\ ~card.marks /\ lastNr # sendNr => card.expects = sendNr

Counts ==
  pc # "idle" =>
    /\ sent < total /\ errors <= MaxErrors /\ result = "none"
    /\ total > 1 => lastNr # sendNr
    /\ pc # "send" \/ flag = "R" => more = (sent + 1 < total)

Underway ==
  /\ pc = "idle" => Rest
  /\ pc = "send" => Phase
  /\ pc = "card" => Phase /\ wire = IF flag = "I" THEN IBlock(sendNr, cmd, sent + 1, more) ELSE RBlock(sendNr, FALSE)
  /\ pc = "receive" => AnswerUnderWay \/ Refused \/ Receipt

LinkTypes == LinkTypeOK /\ card \in CardState /\ ran \in [times : Nat, whole : BOOLEAN]

LinkInv ==
  /\ LinkTypes
  /\ Counts /\ Underway /\ AnswerIsRight /\ FailsOnceOnly

LEMMA PartsAre ==
  ASSUME NEW n \in Nat
  PROVE  Parts(n) \in Seq([cmd : {cmd}, part : 1 .. n]) /\ Len(Parts(n)) = n
BY DEF Parts

LEMMA NoParts == Parts(0) = <<>>
<1>1. Len(Parts(0)) = 0 /\ Parts(0) \in Seq([cmd : {cmd}, part : 1 .. 0])
  BY PartsAre
<1> QED BY <1>1, EmptySeq

LEMMA OnePart == Parts(1) = <<[cmd |-> cmd, part |-> 1]>> /\ Parts(1)[1] = [cmd |-> cmd, part |-> 1]
<1>1. Parts(1) = [i \in 1 .. 1 |-> [cmd |-> cmd, part |-> i]]
  BY DEF Parts
<1> QED BY <1>1

LEMMA NextPart ==
  ASSUME NEW n \in Nat
  PROVE  Append(Parts(n), [cmd |-> cmd, part |-> n + 1]) = Parts(n + 1)
<1> DEFINE S == [cmd : {cmd}, part : 1 .. n + 1]
           x == [cmd |-> cmd, part |-> n + 1]
<1>1. Parts(n) \in Seq(S) /\ Len(Parts(n)) = n /\ x \in S
  BY DEF Parts
<1>2. Parts(n + 1) \in Seq(S) /\ Len(Parts(n + 1)) = n + 1
  BY PartsAre
<1>3. /\ Append(Parts(n), x) \in Seq(S) /\ Len(Append(Parts(n), x)) = n + 1
      /\ \A i \in 1 .. n : Append(Parts(n), x)[i] = Parts(n)[i]
      /\ Append(Parts(n), x)[n + 1] = x
  BY <1>1, AppendProperties
<1>4. ASSUME NEW i \in 1 .. n + 1 PROVE Append(Parts(n), x)[i] = Parts(n + 1)[i]
  <2>1. CASE i \in 1 .. n
    BY <1>3, <2>1 DEF Parts
  <2>2. CASE i = n + 1
    BY <1>3, <2>2 DEF Parts
  <2>3. i \in 1 .. n \/ i = n + 1
    OBVIOUS
  <2> HIDE DEF x
  <2> QED BY <2>1, <2>2, <2>3
<1> HIDE DEF x
<1> QED BY <1>2, <1>3, <1>4, SeqEqual DEF x

\* The blocks of an answer
LEMMA AnswersAre ==
  ASSUME NEW n \in 1 .. MaxParts, cmd \in 0 .. 2, NEW a \in Answers(n)
  PROVE  a \in Seq(Part) /\ Len(a) <= MaxParts + 1 /\ a # <<>>
<1>1. n \in Nat /\ Parts(1)[1] = [cmd |-> cmd, part |-> 1] /\ n <= MaxParts
  BY LinkAssumption, OnePart
<1>2. Parts(n) \in Seq(Part) /\ Len(Parts(n)) = n
  <2>1. [cmd : {cmd}, part : 1 .. n] \subseteq Part
    BY LinkAssumption, <1>1 DEF Part
  <2> QED BY <1>1, <2>1, PartsAre, SeqMonotonic
<1>3. <<[cmd |-> cmd, part |-> 1]>> \in Seq(Part) /\ Len(<<[cmd |-> cmd, part |-> 1]>>) = 1
  BY LinkAssumption DEF Part
<1>4. LET b == <<[cmd |-> cmd, part |-> 1]>> \o Parts(n) IN b \in Seq(Part) /\ Len(b) = n + 1
  BY <1>1, <1>2, <1>3, ConcatProperties
<1>5. a = Parts(n) \/ a = <<[cmd |-> cmd, part |-> 1]>> \o Parts(n)
  BY <1>1 DEF Answers
<1>6. a \in Seq(Part) /\ Len(a) \in {n, n + 1}
  BY <1>2, <1>4, <1>5
<1>7. a # <<>>
  BY <1>1, <1>6, EmptySeq
<1> QED BY <1>1, <1>6, <1>7, LinkAssumption

LEMMA AnswersGrow ==
  ASSUME NEW n \in Nat, NEW a \in Answers(n)
  PROVE  Append(a, [cmd |-> cmd, part |-> n + 1]) \in Answers(n + 1)
<1> DEFINE S == [cmd : {cmd}, part : 1 .. n + 1]
           first == <<[cmd |-> cmd, part |-> 1]>>
           x == [cmd |-> cmd, part |-> n + 1]
<1>1. Parts(n) \in Seq(S) /\ first \in Seq(S) /\ x \in S
  BY DEF Parts
<1>2. Append(first \o Parts(n), x) = first \o Append(Parts(n), x)
  <2> HIDE DEF S, first, x
  <2>1. Parts(n) \in Seq(S) /\ first \in Seq(S) /\ x \in S
    BY <1>1
  <2>2. first \o Parts(n) \in Seq(S) /\ <<x>> \in Seq(S)
    BY <2>1, ConcatProperties
  <2>3. Append(first \o Parts(n), x) = (first \o Parts(n)) \o <<x>>
    BY <2>1, <2>2, AppendIsConcat
  <2>4. Append(Parts(n), x) = Parts(n) \o <<x>>
    BY <2>1, AppendIsConcat
  <2>5. (first \o Parts(n)) \o <<x>> = first \o (Parts(n) \o <<x>>)
    BY <2>1, <2>2, ConcatAssociative
  <2> QED BY <2>3, <2>4, <2>5
<1>3. Append(Parts(n), x) = Parts(n + 1)
  BY NextPart
<1>4. a = Parts(n) \/ a = first \o Parts(n)
  BY OnePart DEF Answers
<1>5. Append(a, x) = Parts(n + 1) \/ Append(a, x) = first \o Parts(n + 1)
  BY <1>2, <1>3, <1>4
<1> QED BY <1>5, OnePart DEF Answers

\* The first block, and the first block once again
LEMMA AnswersStart ==
  /\ Append(<<>>, [cmd |-> cmd, part |-> 1]) = Parts(1) /\ Parts(1) \in Answers(1)
  /\ Append(Parts(1), [cmd |-> cmd, part |-> 1]) \in Answers(1)
<1> DEFINE S == [cmd : {cmd}, part : {1}]
           x == [cmd |-> cmd, part |-> 1]
<1>1. Append(<<>>, x) = Parts(1)
  BY OnePart
<1>2. Parts(1) = <<x>> /\ <<x>> \in Seq(S) /\ x \in S
  BY OnePart
<1>3. Append(<<x>>, x) = <<x>> \o <<x>>
  BY <1>2, AppendIsConcat
<1>4. <<Parts(1)[1]>> \o Parts(1) = <<x>> \o <<x>>
  BY <1>2, OnePart
<1> HIDE DEF x
<1>5. Append(Parts(1), x) \in Answers(1)
  BY <1>2, <1>3, <1>4 DEF Answers
<1> QED BY <1>1, <1>5 DEF Answers, x

LEMMA PartsStay ==
  ASSUME UNCHANGED cmd
  PROVE  \A n : Parts(n)' = Parts(n) /\ Answers(n)' = Answers(n)
BY DEF Parts, Answers

LEMMA PowerCardKeeps ==
  ASSUME LinkInv, PowerCard
  PROVE  LinkInv'
<1>1. /\ LinkTypes /\ pc = "idle" /\ pc' = "idle" /\ sendNr' = 0 /\ lastNr' = 0 /\ card' = NewCard(card.marks)
      /\ loose' = FALSE /\ before' = FALSE /\ result' = "none" /\ disturbed' = FALSE /\ UNCHANGED <<send, wire, ran>>
  BY DEF LinkInv, PowerCard
<1>2. /\ card' \in CardState /\ card'.expects = 0 /\ card'.own = 0 /\ card'.taken = <<>> /\ card'.part = 0
      /\ card'.marks = card.marks
  BY <1>1, LinkAssumption DEF NewCard, LinkTypes, CardState, Bit
<1>3. LinkTypes'
  BY <1>1, <1>2 DEF LinkTypes, LinkTypeOK, CardState, send
<1>4. Counts' /\ Underway' /\ AnswerIsRight' /\ FailsOnceOnly'
  BY <1>1, <1>2 DEF Counts, Underway, Rest, AnswerIsRight, FailsOnceOnly
<1> QED BY <1>3, <1>4 DEF LinkInv

LEMMA BeginCommandKeeps ==
  ASSUME LinkInv, NEW n \in 1 .. MaxBlocks, BeginCommand(n)
  PROVE  LinkInv'
<1>1. /\ LinkTypes /\ Rest /\ pc' = "send" /\ (sendNr = lastNr => n = 1)
      /\ cmd' = (cmd + 1) % 3 /\ total' = n /\ sent' = 0 /\ flag' = "I" /\ errors' = 0
      /\ chained' = FALSE /\ got' = <<>>
      /\ result' = "none" /\ ran' = [times |-> 0, whole |-> TRUE]
      /\ before' = disturbed /\ loose' = (disturbed \/ (loose /\ ran.times = 0)) /\ disturbed' = FALSE
      /\ wire = Silence /\ UNCHANGED <<number, more, wire, card>>
  BY DEF LinkInv, LinkTypes, LinkTypeOK, Underway, BeginCommand
<1>2. LinkTypes'
  <2>1. cmd' \in 0 .. 2 /\ total' \in 1 .. MaxBlocks /\ sent' \in 0 .. MaxBlocks /\ errors' \in 0 .. MaxErrors + 1
    BY <1>1, LinkAssumption DEF LinkTypes, LinkTypeOK
  <2>2. got' \in Seq(Part) /\ Len(got') <= 2 * MaxParts
    BY <1>1, LinkAssumption
  <2>3. loose' \in BOOLEAN
    BY <1>1
  <2> QED BY <1>1, <2>1, <2>2, <2>3 DEF LinkTypes, LinkTypeOK, number
<1>3. Counts'
  BY <1>1, LinkAssumption DEF Counts, number
<1>4. InStep'
  <2>1. ~loose' => card'.expects = sendNr' /\ card'.taken = Parts(sent)'
    <3>1. Parts(sent)' = <<>>
      BY <1>1, NoParts DEF Parts
    <3>2. ran.times # 0 => ran.times > 0
      BY <1>1 DEF LinkTypes
    <3> QED BY <1>1, <3>1, <3>2 DEF Rest, number
  <2> QED BY <1>1, <2>1 DEF InStep, Rest, number
<1>5. Underway' /\ AnswerIsRight' /\ FailsOnceOnly'
  BY <1>1, <1>4 DEF Underway, Phase, NotRun, AnswerIsRight, FailsOnceOnly
<1> QED BY <1>2, <1>3, <1>5 DEF LinkInv

LEMMA SendKeeps ==
  ASSUME LinkInv, SendI \/ SendR
  PROVE  LinkInv'
<1>1. /\ LinkTypes /\ Counts /\ Phase /\ pc = "send" /\ pc' = "card"
      /\ wire' = IF flag = "I" THEN IBlock(sendNr, cmd, sent + 1, more') ELSE RBlock(sendNr, FALSE)
      /\ (flag = "I" => more' = (sent + 1 < total)) /\ (flag = "R" => more' = more)
      /\ UNCHANGED <<number, cmd, total, sent, flag, errors, chained, got, card, history>>
  BY DEF LinkInv, Underway, SendI, SendR, send
<1>2. more' = (sent + 1 < total)
  BY <1>1 DEF Counts, LinkTypes, LinkTypeOK
<1>3. wire' \in Block /\ wire' # Silence /\ more' \in BOOLEAN
  <2>1. more' \in BOOLEAN /\ sent + 1 \in 1 .. MaxBlocks + MaxParts /\ sendNr \in Bit /\ cmd \in 0 .. 2
    <3>1. sent \in 0 .. MaxBlocks /\ sendNr \in Bit /\ cmd \in 0 .. 2 /\ more \in BOOLEAN
      BY <1>1 DEF LinkTypes, LinkTypeOK
    <3>2. sent + 1 \in 1 .. MaxBlocks + MaxParts
      BY <3>1, LinkAssumption
    <3>3. more' \in BOOLEAN
      BY <1>2
    <3> QED BY <3>1, <3>2, <3>3
  <2>2. IBlock(sendNr, cmd, sent + 1, more') \in Block /\ IBlock(sendNr, cmd, sent + 1, more') # Silence
    BY <2>1 DEF Block, IBlock, Silence
  <2>3. RBlock(sendNr, FALSE) \in Block /\ RBlock(sendNr, FALSE) # Silence
    BY <2>1 DEF Block, RBlock, Silence
  <2> QED BY <1>1, <2>1, <2>2, <2>3
<1>4. LinkTypes'
  BY <1>1, <1>3 DEF LinkTypes, LinkTypeOK, number, history
<1>5. Counts'
  BY <1>1, <1>2 DEF Counts, number, history
<1>6. Phase'
  BY <1>1 DEF Phase, NotRun, InStep, Asking, Run, Answers, Parts, number, history
<1>7. Underway'
  BY <1>1, <1>6 DEF Underway, number
<1>8. AnswerIsRight' /\ FailsOnceOnly'
  BY <1>1 DEF Counts, AnswerIsRight, FailsOnceOnly, history
<1> QED BY <1>4, <1>5, <1>7, <1>8 DEF LinkInv

\* Silence is a block like others.
LEMMA SilenceIs == Silence \in Block
BY DEF Block

LEMMA Arrivals ==
  ASSUME LinkInv, pc = "receive"
  PROVE  /\ wire.type = "I" => AnswerUnderWay
         /\ wire.type = "R" => (Refused /\ wire = RBlock(card.expects, TRUE)) \/ Receipt
         /\ wire.type = "S" => Refused /\ wire = SBlock
BY DEF LinkInv, Underway, AnswerUnderWay, Refused, Receipt, IBlock, RBlock, SBlock

LEMMA AnswerArrives ==
  ASSUME LinkInv, Arrived("I")
  PROVE  /\ AnswerUnderWay /\ Data \in Answers(card.part) /\ (wire.more <=> card.part < card.parts)
         /\ Data \in Seq(Part) /\ Len(Data) <= 2 * MaxParts /\ Data # <<>>
         /\ ~(sent + 1 < total) /\ sent + 1 = total
<1>1. AnswerUnderWay
  BY Arrivals DEF Arrived
<1>2. wire.cmd = cmd /\ wire.part = card.part /\ (wire.more <=> card.part < card.parts)
  BY <1>1 DEF AnswerUnderWay, IBlock
<1>3. Data \in Answers(card.part)
  BY <1>1, <1>2 DEF AnswerUnderWay, Data
<1>4. card.part \in 1 .. MaxParts /\ cmd \in 0 .. 2 /\ sent \in Nat
  BY <1>1, LinkAssumption DEF LinkInv, LinkTypes, LinkTypeOK, AnswerUnderWay, Run
<1>5. Data \in Seq(Part) /\ Len(Data) <= MaxParts + 1 /\ Data # <<>>
  BY <1>3, <1>4, AnswersAre
<1>6. Len(Data) <= 2 * MaxParts
  <2>1. Len(Data) \in Nat
    BY <1>5
  <2> QED BY <1>5, <2>1, LinkAssumption
<1> QED BY <1>1, <1>2, <1>3, <1>4, <1>5, <1>6 DEF AnswerUnderWay, Run

LEMMA ReceiveIKeeps ==
  ASSUME LinkInv, ReceiveI
  PROVE  LinkInv'
<1>1. /\ LinkTypes /\ AnswerUnderWay /\ Data \in Answers(card.part) /\ ~(card.part < card.parts)
      /\ Data \in Seq(Part) /\ Len(Data) <= 2 * MaxParts /\ Data # <<>> /\ sent + 1 = total /\ ~(sent + 1 < total)
  BY AnswerArrives DEF LinkInv, ReceiveI
<1>2. /\ pc' = "idle" /\ result' = "ok" /\ got' = Data /\ sent' = sent + 1 /\ flag' = "I" /\ wire' = Silence
      /\ UNCHANGED <<cmd, total, more, errors, chained, card, ran, before, loose, disturbed>>
      /\ IF chained THEN sendNr' = sendNr /\ lastNr' = 1 - sendNr ELSE sendNr' = 1 - sendNr /\ lastNr' = sendNr
  BY <1>1 DEF ReceiveI, Arrived, Proceed, Switch
<1>3. sendNr' = card.expects /\ sendNr' \in Bit /\ lastNr' \in Bit
  BY <1>1, <1>2 DEF AnswerUnderWay, Run, LinkTypes, LinkTypeOK, Bit
<1>4. LinkTypes'
  <2>1. sent' \in 0 .. MaxBlocks
    BY <1>1, <1>2, LinkAssumption DEF LinkTypes, LinkTypeOK
  <2> QED BY <1>1, <1>2, <1>3, <2>1, SilenceIs DEF LinkTypes, LinkTypeOK
<1>5. Counts' /\ FailsOnceOnly'
  BY <1>2 DEF Counts, FailsOnceOnly
<1>6. Underway'
  BY <1>1, <1>2, <1>3 DEF Underway, Rest, AnswerUnderWay, Run
<1>7. AnswerIsRight'
  <2>1. card.part = card.parts
    BY <1>1, LinkAssumption DEF AnswerUnderWay, Run, LinkTypes, CardState
  <2>2. Parts(1)' = Parts(1) /\ Parts(card.parts)' = Parts(card.parts)
    BY <1>2 DEF Parts
  <2>3. AnswerIsWhole'
    BY <1>1, <1>2, <2>1, <2>2 DEF AnswerIsWhole, Answers
  <2> QED BY <1>1, <1>2, <2>3 DEF AnswerIsRight, AnswerUnderWay, Run
<1> QED BY <1>4, <1>5, <1>6, <1>7 DEF LinkInv

LEMMA ReceiveChainedKeeps ==
  ASSUME LinkInv, ReceiveChained
  PROVE  LinkInv'
<1>1. /\ LinkTypes /\ Counts /\ AnswerUnderWay /\ Data \in Answers(card.part) /\ card.part < card.parts
      /\ Data \in Seq(Part) /\ Len(Data) <= 2 * MaxParts /\ sent + 1 = total /\ ~(sent + 1 < total)
  BY AnswerArrives DEF LinkInv, ReceiveChained
<1>2. /\ pc = "receive" /\ pc' = "send" /\ got' = Data /\ flag' = "R" /\ chained' = ~chained /\ wire' = Silence
      /\ sendNr' = 1 - sendNr /\ lastNr' = sendNr
      /\ UNCHANGED <<cmd, total, sent, more, errors, card, history>>
  BY DEF ReceiveChained, Arrived, Switch
<1>3. LinkTypes'
  BY <1>1, <1>2, SilenceIs DEF LinkTypes, LinkTypeOK, Bit, history
<1>4. Counts'
  BY <1>1, <1>2 DEF Counts, history
<1>5. Asking'
  <2>1. Run'
    <3>1. sendNr \in {0, 1} /\ chained \in BOOLEAN
      BY <1>1 DEF LinkTypes, LinkTypeOK, Bit
    <3>2. card.expects = IF chained THEN sendNr ELSE 1 - sendNr
      BY <1>1 DEF AnswerUnderWay, Run
    <3>3. CASE chained
      <4>1. ~chained'
        BY <1>2, <3>3
      <4>2. card'.expects = 1 - sendNr'
        <5>1. card.expects = sendNr
          BY <3>2, <3>3
        <5> QED BY <1>2, <3>1, <5>1
      <4> QED BY <1>1, <1>2, <4>1, <4>2 DEF AnswerUnderWay, Run, history
    <3>4. CASE ~chained
      <4>1. chained' /\ card'.expects = sendNr'
        BY <1>2, <3>1, <3>2, <3>4
      <4> QED BY <1>1, <1>2, <4>1 DEF AnswerUnderWay, Run, history
    <3> QED BY <3>1, <3>3, <3>4
  <2>2. got' \in Answers(card.part)'
    BY <1>1, <1>2 DEF Answers, Parts
  <2>3. card'.own = sendNr' => card'.part = 1 /\ got' = Parts(1)'
    <3> SUFFICES ASSUME card.own = 1 - sendNr PROVE card.part = 1 /\ got' = Parts(1)'
      BY <1>2
    <3>1. card.own # sendNr
      BY <1>1 DEF LinkTypes, LinkTypeOK, Bit
    <3>2. card.part = 1 /\ got = <<>> /\ wire.cmd = cmd /\ wire.part = 1
      BY <1>1, <3>1 DEF AnswerUnderWay, IBlock
    <3>3. got' = Parts(1)
      BY <1>2, <3>2, AnswersStart DEF Data
    <3> QED BY <1>2, <3>2, <3>3 DEF Parts
  <2> QED BY <1>1, <1>2, <2>1, <2>2, <2>3 DEF Asking
<1>6. Underway'
  BY <1>2, <1>5 DEF Underway, Phase
<1>7. AnswerIsRight' /\ FailsOnceOnly'
  BY <1>1, <1>2 DEF Counts, AnswerIsRight, FailsOnceOnly, history
<1> QED BY <1>3, <1>4, <1>6, <1>7 DEF LinkInv

LEMMA ReceiveRKeeps ==
  ASSUME LinkInv, ReceiveR
  PROVE  LinkInv'
<1>1. /\ LinkTypes /\ Counts /\ pc = "receive" /\ Receipt /\ wire' = Silence /\ sent' = sent + 1
      /\ UNCHANGED <<cmd, total, flag, more, errors, chained, got, card, ran, before, loose, disturbed>>
      /\ lastNr = card.expects
  BY Arrivals DEF LinkInv, ReceiveR, Arrived, GoodR, Receipt, RBlock
<1>2. flag = "I" /\ got = <<>> /\ ~chained /\ NotRun /\ card.expects = 1 - sendNr
  BY <1>1 DEF Receipt, NotRun
<1>3. sendNr' = 1 - sendNr /\ lastNr' = sendNr /\ sendNr \in {0, 1}
  BY <1>2 DEF ReceiveR, Proceed, Switch, LinkInv, LinkTypes, LinkTypeOK, Bit
<1>4. \/ sent + 1 < total /\ pc' = "send" /\ result' = result
      \/ ~(sent + 1 < total) /\ pc' = "idle" /\ result' = "fail"
  BY <1>2 DEF ReceiveR, Proceed
<1>5. LinkTypes'
  <2>1. sent' \in 0 .. MaxBlocks
    BY <1>1, LinkAssumption DEF Counts, LinkTypes, LinkTypeOK
  <2> QED BY <1>1, <1>3, <1>4, <2>1, SilenceIs DEF LinkTypes, LinkTypeOK, Bit
<1>6. Counts'
  BY <1>1, <1>2, <1>3, <1>4 DEF Counts
<1>7. InStep' /\ NotRun'
  <2>1. Parts(sent)' = Parts(sent + 1)
    BY <1>1 DEF Parts
  <2>2. card'.expects = sendNr'
    BY <1>1, <1>2, <1>3
  <2>3. ~loose' => card'.taken = Parts(sent)'
    BY <1>1, <2>1 DEF Receipt
  <2> QED BY <1>1, <1>2, <2>2, <2>3 DEF InStep, NotRun
<1>8. Underway'
  <2>1. CASE pc' = "send"
    BY <1>1, <1>2, <1>7, <2>1 DEF Underway, Phase
  <2>2. CASE pc' = "idle"
    <3>1. loose
      BY <1>1, <1>4, <2>2 DEF Receipt
    <3>2. ran'.times = 0
      BY <1>1, <1>2 DEF NotRun
    <3> QED BY <1>1, <1>2, <1>3, <2>2, <3>1, <3>2 DEF Underway, Rest
  <2> QED BY <1>4, <2>1, <2>2
<1>9. AnswerIsRight' /\ FailsOnceOnly'
  <2>1. CASE pc' = "send"
    BY <1>1, <1>4, <2>1 DEF Counts, AnswerIsRight, FailsOnceOnly
  <2>2. CASE pc' = "idle"
    <3>1. sent + 1 = total /\ lastNr # sendNr
      BY <1>1, <1>2, <1>3, <1>4, <2>2 DEF Counts, LinkTypes, LinkTypeOK
    <3> QED BY <1>1, <1>4, <2>2, <3>1 DEF Receipt, AnswerIsRight, FailsOnceOnly
  <2> QED BY <1>4, <2>1, <2>2
<1> QED BY <1>5, <1>6, <1>8, <1>9 DEF LinkInv

\* A command that goes on after an error, or fails
LEMMA ReceiveErrorKeeps ==
  ASSUME LinkInv, ReceiveError
  PROVE  LinkInv'
<1>1. /\ LinkTypes /\ Counts /\ pc = "receive" /\ wire' = Silence /\ errors' = errors + 1
      /\ UNCHANGED <<number, cmd, total, sent, flag, more, chained, got, card, ran, before, loose, disturbed>>
      /\ \/ errors = MaxErrors /\ pc' = "idle" /\ result' = "fail"
         \/ errors # MaxErrors /\ pc' = "send" /\ result' = result
  BY DEF LinkInv, ReceiveError, Arrived, Fail
<1>2. \/ Refused
      \/ Receipt /\ lastNr # card.expects
  <2>1. CASE Arrived("I") /\ ~GoodI
    <3>1. AnswerUnderWay /\ ~(sent + 1 < total)
      BY <2>1, AnswerArrives
    <3>2. ~more
      BY <1>1, <3>1 DEF Counts
    <3> QED BY <2>1, <3>2 DEF GoodI
  <2>2. CASE Arrived("R") /\ ~GoodR
    BY <1>1, <2>2, Arrivals DEF Arrived, GoodR, Receipt, RBlock
  <2>3. CASE Arrived("S")
    BY <1>1, <2>3, Arrivals DEF Arrived
  <2> QED BY <2>1, <2>2, <2>3 DEF ReceiveError
<1>3. \/ Phase /\ (disturbed \/ (flag = "I" /\ card.marks /\ loose))
      \/ Phase /\ flag = "I" /\ lastNr = sendNr /\ loose
  <2>1. CASE Refused
    BY <1>1, <2>1 DEF Refused, LinkTypes, LinkTypeOK
  <2>2. CASE Receipt /\ lastNr # card.expects
    <3>1. lastNr = sendNr /\ flag = "I" /\ NotRun
      BY <1>1, <2>2 DEF Receipt, LinkTypes, LinkTypeOK, Bit
    <3>2. loose
      BY <1>1, <2>2, <3>1 DEF Receipt, Counts, LinkTypes, LinkTypeOK
    <3> QED BY <3>1, <3>2 DEF Phase, InStep
  <2> QED BY <1>2, <2>1, <2>2
<1>4. LinkTypes'
  <2>1. errors' \in 0 .. MaxErrors + 1
    BY <1>1, LinkAssumption DEF Counts, LinkTypes, LinkTypeOK
  <2> QED BY <1>1, <2>1, SilenceIs DEF LinkTypes, LinkTypeOK, number
<1>5. Counts'
  BY <1>1, LinkAssumption DEF Counts, LinkTypes, LinkTypeOK, number
<1>6. Phase'
  BY <1>1, <1>3 DEF Phase, NotRun, InStep, Asking, Run, Answers, Parts, number
<1>7. Underway'
  <2>1. CASE pc' = "send"
    BY <1>6, <2>1 DEF Underway
  <2>2. CASE pc' = "idle"
    <3>1. disturbed \/ ran.times = 0
      BY <1>3 DEF Phase, NotRun
    <3> QED BY <1>1, <1>3, <2>2, <3>1 DEF Underway, Rest, number
  <2> QED BY <1>1, <2>1, <2>2
<1>8. AnswerIsRight' /\ FailsOnceOnly'
  BY <1>1, <1>3 DEF Counts, AnswerIsRight, FailsOnceOnly, number
<1> QED BY <1>4, <1>5, <1>7, <1>8 DEF LinkInv

LEMMA ReceiveFailsKeeps ==
  ASSUME LinkInv, ReceiveFails
  PROVE  LinkInv'
<1>1. /\ LinkTypes /\ wire' = Silence /\ pc' = "idle" /\ result' = "fail" /\ disturbed' = TRUE
      /\ UNCHANGED <<number, send, card, ran, before, loose>>
  BY DEF LinkInv, ReceiveFails, Fail
<1>2. LinkTypes'
  BY <1>1, SilenceIs DEF LinkTypes, LinkTypeOK, number, send
<1>3. Counts' /\ Underway' /\ AnswerIsRight' /\ FailsOnceOnly'
  BY <1>1 DEF Counts, Underway, Rest, AnswerIsRight, FailsOnceOnly
<1> QED BY <1>2, <1>3 DEF LinkInv

\* A block of the card, or a receipt, is a block.
LEMMA BlocksAre ==
  ASSUME NEW nr \in Bit, NEW c \in 0 .. 2, NEW part \in 1 .. MaxParts, NEW m \in BOOLEAN
  PROVE  /\ IBlock(nr, c, part, m) \in Block /\ IBlock(nr, c, part, m) # Silence
         /\ RBlock(nr, m) \in Block /\ RBlock(nr, m) # Silence /\ SBlock \in Block /\ SBlock # Silence
<1>1. part \in 1 .. MaxBlocks + MaxParts
  BY LinkAssumption
<1> QED BY <1>1 DEF IBlock, RBlock, SBlock, Silence, Block

\* What the card is sent, and what it still has to receive
LEMMA CardReceives ==
  ASSUME LinkInv, pc = "card"
  PROVE  /\ LinkTypes /\ Counts /\ Phase
         /\ more = (sent + 1 < total) /\ sent \in Nat /\ sent < total /\ total <= MaxBlocks
         /\ total \in Nat
         /\ card \in CardState /\ sendNr \in {0, 1} /\ cmd \in 0 .. 2 /\ result = "none"
         /\ wire.type = "I" =>
              /\ flag = "I" /\ NotRun /\ InStep
              /\ wire.nr = sendNr /\ wire.cmd = cmd /\ wire.part = sent + 1 /\ wire.more = more
         /\ wire.type = "R" => flag = "R" /\ Asking /\ wire.nr = sendNr
<1>1. /\ LinkTypes /\ Counts /\ Phase
      /\ wire = IF flag = "I" THEN IBlock(sendNr, cmd, sent + 1, more) ELSE RBlock(sendNr, FALSE)
  BY DEF LinkInv, Underway
<1>2. /\ more = (sent + 1 < total) /\ sent \in Nat /\ sent < total /\ total <= MaxBlocks /\ total \in Nat
      /\ card \in CardState /\ sendNr \in {0, 1} /\ cmd \in 0 .. 2 /\ result = "none"
  BY <1>1, LinkAssumption DEF Counts, LinkTypes, LinkTypeOK, Bit
<1>3. /\ wire.type = "I" => wire = IBlock(sendNr, cmd, sent + 1, more) /\ flag = "I"
      /\ wire.type = "R" => wire = RBlock(sendNr, FALSE) /\ flag = "R"
  BY <1>1 DEF IBlock, RBlock, LinkTypes, LinkTypeOK
<1> QED BY <1>1, <1>2, <1>3 DEF Phase, IBlock, RBlock

\* The blocks that a card in step has taken are those that were sent.
LEMMA TakenBlocks ==
  ASSUME sent \in Nat, sent < MaxBlocks, card.taken = Parts(sent)
  PROVE  Taken([cmd |-> cmd, part |-> sent + 1]) = Parts(sent + 1)
<1>1. Len(card.taken) = sent
  BY PartsAre
<1>2. ~(Len(card.taken) > MaxBlocks)
  BY <1>1, LinkAssumption
<1> QED BY <1>2, NextPart DEF Taken

LEMMA TakenIsSeq ==
  ASSUME card \in CardState, NEW block \in Part
  PROVE  Taken(block) \in Seq(Part)
BY DEF Taken, CardState

\* The card takes a block of a command that goes on ...
LEMMA TakeKeeps ==
  ASSUME LinkInv, CardAnswers, Execute, more
  PROVE  LinkInv'
<1> DEFINE block == [cmd |-> wire.cmd, part |-> wire.part]
           next == [card EXCEPT !.expects = 1 - @, !.own = Own]
<1>1. pc = "card" /\ pc' = "receive" /\ wire.type = "I" /\ UNCHANGED <<number, send, result, before, loose, disturbed>>
  BY DEF CardAnswers, Execute
<1>2. /\ LinkTypes /\ Counts /\ sent + 1 < total /\ sent \in Nat /\ total <= MaxBlocks /\ total \in Nat
      /\ card \in CardState /\ sendNr \in {0, 1} /\ cmd \in 0 .. 2 /\ result = "none"
      /\ flag = "I" /\ NotRun /\ InStep /\ wire.nr = sendNr /\ wire.cmd = cmd /\ wire.part = sent + 1 /\ wire.more
  BY <1>1, CardReceives
<1>3. /\ card.expects = sendNr /\ card' = [next EXCEPT !.taken = Taken(block), !.part = 0]
      /\ wire' = RBlock(card'.expects, FALSE) /\ ran' = ran
  BY <1>2 DEF Execute
<1>4. Own \in Bit /\ 1 - card.expects \in Bit /\ 0 \in 0 .. MaxParts
  BY <1>2, LinkAssumption DEF Own, CardState, Bit
<1>5. block \in Part
  BY <1>2, LinkAssumption DEF Part
<1>6. Taken(block) \in Seq(Part)
  BY <1>2, <1>5, TakenIsSeq
<1>7. card' \in CardState /\ card'.expects = 1 - sendNr /\ card'.taken = Taken(block) /\ card'.marks = card.marks
  BY <1>2, <1>3, <1>4, <1>6 DEF CardState
<1>8. LinkTypes'
  <2>1. wire' \in Block /\ wire' # Silence
    BY <1>3, <1>7, LinkAssumption DEF RBlock, Block, Silence, CardState
  <2> QED BY <1>1, <1>2, <1>3, <1>7, <2>1 DEF LinkTypes, LinkTypeOK, CardState, number, send
<1>9. Counts'
  BY <1>1, <1>2, CardReceives DEF Counts, number, send
<1>10. Receipt'
  <2>1. ~loose => Taken(block) = Parts(sent + 1)
    <3>1. sent < MaxBlocks
      BY <1>2, LinkAssumption
    <3>2. block = [cmd |-> cmd, part |-> sent + 1]
      BY <1>2
    <3>3. ~loose => card.taken = Parts(sent)
      BY <1>2 DEF InStep
    <3> HIDE DEF block
    <3> QED BY <1>2, <3>1, <3>2, <3>3, TakenBlocks
  <2>2. Parts(sent + 1)' = Parts(sent + 1)
    BY <1>1 DEF Parts, send
  <2> QED BY <1>1, <1>2, <1>3, <1>7, <2>1, <2>2 DEF Receipt, NotRun, number, send
<1>11. Underway' /\ AnswerIsRight' /\ FailsOnceOnly'
  BY <1>1, <1>2, <1>10 DEF Underway, AnswerIsRight, FailsOnceOnly
<1> QED BY <1>8, <1>9, <1>11 DEF LinkInv

\* ... and executes the command with the last.
LEMMA ExecuteKeeps ==
  ASSUME LinkInv, CardAnswers, Execute, ~more
  PROVE  LinkInv'
<1> DEFINE block == [cmd |-> wire.cmd, part |-> wire.part]
           next == [card EXCEPT !.expects = 1 - @, !.own = Own]
<1>1. pc = "card" /\ pc' = "receive" /\ wire.type = "I" /\ UNCHANGED <<number, send, result, before, loose, disturbed>>
  BY DEF CardAnswers, Execute
<1>2. /\ LinkTypes /\ Counts /\ sent + 1 = total /\ sent \in Nat /\ total <= MaxBlocks /\ total \in Nat
      /\ card \in CardState /\ sendNr \in {0, 1} /\ cmd \in 0 .. 2 /\ result = "none"
      /\ flag = "I" /\ NotRun /\ InStep /\ wire.nr = sendNr /\ wire.cmd = cmd /\ wire.part = sent + 1 /\ ~wire.more
  <2>1. ~(sent + 1 < total) /\ sent \in Nat /\ total \in Nat /\ sent < total
    BY <1>1, CardReceives
  <2>2. sent + 1 = total
    BY <2>1
  <2> QED BY <1>1, <2>2, CardReceives
<1>3. /\ card.expects = sendNr
      /\ ran' = [times |-> ran.times + 1, whole |-> ran.whole /\ Whole(Taken(block))]
      /\ \E n \in 1 .. MaxParts : Answer([next EXCEPT !.taken = <<>>, !.cmd = wire.cmd, !.parts = n, !.part = 1])
  BY <1>2 DEF Execute
<1>4. PICK n \in 1 .. MaxParts : Answer([next EXCEPT !.taken = <<>>, !.cmd = wire.cmd, !.parts = n, !.part = 1])
  BY <1>3
<1>5. /\ card' = [next EXCEPT !.taken = <<>>, !.cmd = wire.cmd, !.parts = n, !.part = 1]
      /\ wire' = IBlock(card'.own, card'.cmd, card'.part, card'.part < card'.parts)
  BY <1>4 DEF Answer
<1>6. /\ Own \in Bit /\ 1 - card.expects \in Bit
      /\ 1 \in 0 .. MaxParts /\ n \in 0 .. MaxParts /\ 1 \in 1 .. MaxParts /\ 1 <= n
  BY <1>2, LinkAssumption DEF Own, CardState, Bit
<1>7. /\ card' \in CardState /\ card'.expects = 1 - sendNr /\ card'.taken = <<>> /\ card'.marks = card.marks
      /\ card'.cmd = cmd /\ card'.parts = n /\ card'.part = 1 /\ card'.own \in Bit
  <2>1. next \in CardState /\ next.expects = 1 - sendNr /\ next.own = Own /\ next.marks = card.marks
    BY <1>2, <1>3, <1>6 DEF CardState
  <2>2. <<>> \in Seq(Part)
    OBVIOUS
  <2> HIDE DEF next
  <2> QED BY <1>2, <1>5, <1>6, <2>1, <2>2 DEF CardState
<1>8. ran'.times = 1 /\ ran' \in [times : Nat, whole : BOOLEAN] /\ (~loose => ran'.whole)
  <2>1. ran.times = 0 /\ ran.whole = TRUE
    BY <1>2 DEF NotRun
  <2>2. Whole(Taken(block)) \in BOOLEAN
    BY DEF Whole
  <2>3. ~loose => Whole(Taken(block))
    <3>1. ~loose => Taken(block) = Parts(sent + 1)
      <4>1. sent < MaxBlocks
        BY <1>2, LinkAssumption
      <4>2. block = [cmd |-> cmd, part |-> sent + 1]
        BY <1>2
      <4>3. ~loose => card.taken = Parts(sent)
        BY <1>2 DEF InStep
      <4> HIDE DEF block
      <4> QED BY <1>2, <4>1, <4>2, <4>3, TakenBlocks
    <3> QED BY <1>2, <3>1 DEF Whole, Parts
  <2> HIDE DEF block
  <2> QED BY <1>3, <2>1, <2>2, <2>3
<1>9. LinkTypes'
  <2>1. wire' \in Block /\ wire' # Silence
    <3>1. (card'.part < card'.parts) \in BOOLEAN
      OBVIOUS
    <3> QED BY <1>2, <1>5, <1>6, <1>7, <3>1, BlocksAre
  <2> QED BY <1>1, <1>2, <1>7, <1>8, <2>1 DEF LinkTypes, LinkTypeOK, CardState, number, send
<1>10. Counts'
  BY <1>1, <1>2, CardReceives DEF Counts, number, send
<1>11. AnswerUnderWay'
  <2>1. Run'
    BY <1>1, <1>2, <1>6, <1>7, <1>8 DEF Run, NotRun, number, send
  <2>2. Append(got, [cmd |-> cmd, part |-> 1])' \in Answers(1)'
    BY <1>1, <1>2, AnswersStart DEF NotRun, send, Answers, Parts
  <2> QED BY <1>1, <1>2, <1>5, <1>7, <2>1, <2>2 DEF AnswerUnderWay, NotRun, send
<1>12. Underway' /\ AnswerIsRight' /\ FailsOnceOnly'
  BY <1>1, <1>2, <1>11 DEF Underway, AnswerIsRight, FailsOnceOnly
<1> QED BY <1>9, <1>10, <1>12 DEF LinkInv

\* A block out of turn only meets a card whose numbers were disturbed.
LEMMA OutOfTurnKeeps ==
  ASSUME LinkInv, CardAnswers, OutOfTurn
  PROVE  LinkInv'
<1>1. /\ pc = "card" /\ pc' = "receive" /\ wire.type = "I" /\ wire.nr # card.expects
      /\ wire' = RBlock(card.expects, card.marks)
      /\ UNCHANGED <<number, send, result, before, loose, disturbed, card, ran>>
  BY DEF CardAnswers, OutOfTurn
<1>2. /\ LinkTypes /\ Counts /\ Phase /\ card \in CardState /\ result = "none" /\ flag = "I" /\ NotRun /\ InStep
      /\ wire.nr = sendNr /\ sendNr \in {0, 1}
  BY <1>1, CardReceives
<1>3. /\ card.expects = 1 - sendNr /\ loose
      /\ ~card.marks /\ lastNr # sendNr => before
  BY <1>1, <1>2 DEF InStep, CardState, Bit
<1>4. LinkTypes'
  <2>1. wire' \in Block /\ wire' # Silence
    BY <1>1, <1>2 DEF RBlock, Block, Silence, CardState
  <2> QED BY <1>1, <1>2, <2>1 DEF LinkTypes, LinkTypeOK, number, send
<1>5. Counts'
  BY <1>1, <1>2, CardReceives DEF Counts, number, send
<1>6. Refused' \/ Receipt'
  <2>1. CASE card.marks
    <3>1. Phase'
      BY <1>1, <1>2 DEF Phase, NotRun, InStep, number, send
    <3>2. card.marks = TRUE
      BY <1>2, <2>1
    <3> QED BY <1>1, <1>2, <1>3, <3>1, <3>2 DEF Refused, RBlock, SBlock, send
  <2>2. CASE ~card.marks
    <3>1. card.marks = FALSE
      BY <1>2, <2>2
    <3> QED BY <1>1, <1>2, <1>3, <3>1 DEF Receipt, NotRun, number, send
  <2> QED BY <2>1, <2>2
<1>7. Underway' /\ AnswerIsRight' /\ FailsOnceOnly'
  BY <1>1, <1>2, <1>6 DEF Underway, AnswerIsRight, FailsOnceOnly
<1> QED BY <1>4, <1>5, <1>7 DEF LinkInv

\* The next block of the answer, or the first one again
LEMMA ContinueKeeps ==
  ASSUME LinkInv, CardAnswers, Continue
  PROVE  LinkInv'
<1>1. /\ pc = "card" /\ pc' = "receive" /\ wire.type = "R" /\ ran' = ran
      /\ UNCHANGED <<number, send, result, before, loose, disturbed>>
  BY DEF CardAnswers, Continue
<1>2. /\ LinkTypes /\ Counts /\ card \in CardState /\ result = "none" /\ flag = "R" /\ Asking /\ Run /\ wire.nr = sendNr
      /\ sendNr \in {0, 1} /\ cmd \in 0 .. 2 /\ card.own \in {0, 1} /\ card.part < card.parts
  BY <1>1, CardReceives DEF Asking, CardState, Bit
<1>3. card.part \in Nat /\ card.parts \in Nat /\ card.part \in 1 .. card.parts /\ card.parts <= MaxParts
  BY <1>2, LinkAssumption DEF CardState, Run
<1>4. \/ card.own # sendNr /\ Answer([card EXCEPT !.own = 1 - @, !.part = @ + 1])
      \/ card.own = sendNr /\ Answer(card)
  BY <1>2, <1>3 DEF Continue
<1>5. /\ card' \in CardState /\ card'.expects = card.expects /\ card'.taken = card.taken /\ card'.marks = card.marks
      /\ card'.cmd = cmd /\ card'.parts = card.parts /\ card'.part \in 1 .. card.parts /\ card'.own \in Bit
      /\ wire' = IBlock(card'.own, cmd, card'.part, card'.part < card'.parts)
  <2>1. card.part + 1 \in 0 .. MaxParts /\ card.part + 1 \in 1 .. card.parts /\ 1 - card.own \in Bit
    BY <1>2, <1>3, LinkAssumption DEF Bit
  <2>2. card.cmd = cmd
    BY <1>2 DEF Run
  <2> QED BY <1>2, <1>3, <1>4, <2>1, <2>2 DEF Answer, CardState
<1>6. LinkTypes'
  <2>1. wire' \in Block /\ wire' # Silence
    <3>1. (card'.part < card'.parts) \in BOOLEAN /\ card'.part \in 1 .. MaxParts
      BY <1>3, <1>5, LinkAssumption
    <3> QED BY <1>2, <1>5, <3>1, BlocksAre
  <2> QED BY <1>1, <1>2, <1>5, <2>1 DEF LinkTypes, LinkTypeOK, CardState, number, send
<1>7. Counts'
  BY <1>1, <1>2, CardReceives DEF Counts, number, send
<1>8. AnswerUnderWay'
  <2>1. Run'
    BY <1>1, <1>2, <1>5 DEF Run, number, send
  <2>2. /\ Append(got, [cmd |-> cmd, part |-> card'.part]) \in Answers(card'.part)
        /\ card'.own = sendNr
    <3>1. CASE card.own # sendNr /\ Answer([card EXCEPT !.own = 1 - @, !.part = @ + 1])
      <4>1. card'.part = card.part + 1 /\ card'.own = 1 - card.own
        BY <1>2, <3>1 DEF Answer
      <4>2. Append(got, [cmd |-> cmd, part |-> card.part + 1]) \in Answers(card.part + 1)
        BY <1>2, <1>3, AnswersGrow DEF Asking
      <4>3. card'.own = sendNr
        BY <1>2, <3>1, <4>1
      <4> QED BY <4>1, <4>2, <4>3
    <3>2. CASE card.own = sendNr /\ Answer(card)
      <4>1. card' = card
        BY <3>2 DEF Answer
      <4>2. card.part = 1 /\ got = Parts(1)
        BY <1>2, <3>2 DEF Asking
      <4> QED BY <3>2, <4>1, <4>2, AnswersStart
    <3> QED BY <1>4, <3>1, <3>2
  <2>3. Append(got, [cmd |-> cmd, part |-> card.part])' \in Answers(card.part)'
    BY <1>1, <2>2 DEF send, Answers, Parts
  <2> QED BY <1>1, <1>5, <2>1, <2>2, <2>3 DEF AnswerUnderWay, number, send
<1>9. Underway' /\ AnswerIsRight' /\ FailsOnceOnly'
  BY <1>1, <1>2, <1>8 DEF Underway, AnswerIsRight, FailsOnceOnly
<1> QED BY <1>6, <1>7, <1>9 DEF LinkInv

\* A block that is damaged on its way changes nothing but the answer.
LEMMA DamagedKeeps ==
  ASSUME LinkInv, Damaged
  PROVE  LinkInv'
<1>1. /\ pc = "card" /\ pc' = "receive" /\ disturbed' = TRUE /\ wire' \in {RBlock(card.expects, TRUE), SBlock}
      /\ UNCHANGED <<number, send, card, result, ran, before, loose>>
  BY DEF Damaged
<1>2. LinkTypes /\ Counts /\ Phase /\ result = "none" /\ card \in CardState
  BY <1>1, CardReceives
<1>3. LinkTypes'
  <2>1. wire' \in Block /\ wire' # Silence
    <3>1. card.expects \in Bit /\ TRUE \in BOOLEAN
      BY <1>2 DEF CardState
    <3>2. RBlock(card.expects, TRUE) \in Block /\ RBlock(card.expects, TRUE) # Silence
      BY <3>1 DEF RBlock, Block, Silence
    <3>3. SBlock \in Block /\ SBlock # Silence
      BY DEF SBlock, Block, Silence
    <3> QED BY <1>1, <3>2, <3>3
  <2> QED BY <1>1, <1>2, <2>1 DEF LinkTypes, LinkTypeOK, number, send
<1>4. Counts'
  BY <1>1, <1>2, CardReceives DEF Counts, number, send
<1>5. Refused'
  <2>1. Phase'
    BY <1>1, <1>2 DEF Phase, NotRun, InStep, Asking, Run, Answers, Parts, number, send
  <2> QED BY <1>1, <2>1 DEF Refused
<1>6. Underway' /\ AnswerIsRight' /\ FailsOnceOnly'
  BY <1>1, <1>2, <1>5 DEF Underway, AnswerIsRight, FailsOnceOnly
<1> QED BY <1>3, <1>4, <1>6 DEF LinkInv

LEMMA HostXfrKeeps ==
  ASSUME LinkInv, HostXfr
  PROVE  LinkInv'
<1>1. /\ pc = "idle" /\ pc' = "idle" /\ disturbed' = TRUE /\ LinkTypes
      /\ UNCHANGED <<number, pc, send, wire, result, ran, before, loose>>
  BY DEF HostXfr, LinkInv
<1>2. PICK e \in Bit, o \in Bit : card' = [card EXCEPT !.expects = e, !.own = o, !.taken = <<>>, !.part = 0]
  BY DEF HostXfr
<1>3. card' \in CardState /\ card'.parts = card.parts
  <2>1. card \in CardState /\ <<>> \in Seq(Part) /\ 0 \in 0 .. MaxParts
    BY <1>1, LinkAssumption DEF LinkTypes
  <2> QED BY <1>2, <2>1 DEF CardState
<1>4. LinkTypes'
  BY <1>1, <1>3 DEF LinkTypes, LinkTypeOK, CardState, number, send
<1>5. Counts' /\ Underway' /\ FailsOnceOnly'
  BY <1>1 DEF Counts, Underway, Rest, FailsOnceOnly
<1>6. AnswerIsRight'
  BY <1>1, <1>3 DEF LinkInv, AnswerIsRight, AnswerIsWhole, Parts, send
<1> QED BY <1>4, <1>5, <1>6 DEF LinkInv

LEMMA LinkStarts == LinkInit => LinkInv
<1> SUFFICES ASSUME LinkInit PROVE LinkInv
  OBVIOUS
<1>1. /\ sendNr = 0 /\ lastNr = 0 /\ pc = "idle" /\ cmd = 0 /\ total = 1 /\ sent = 1 /\ flag = "I" /\ more = FALSE
      /\ errors = 0 /\ chained = FALSE /\ got = <<>> /\ wire = Silence /\ result = "none"
      /\ ran = [times |-> 0, whole |-> TRUE] /\ before = FALSE /\ loose = FALSE /\ disturbed = FALSE
  BY DEF LinkInit
<1>2. PICK marks \in BOOLEAN : card = NewCard(marks)
  BY DEF LinkInit
<1>3. card \in CardState /\ card.expects = 0 /\ card.taken = <<>>
  BY <1>2, LinkAssumption DEF NewCard, CardState, Bit
<1>4. LinkTypes
  <2>1. total \in 1 .. MaxBlocks /\ sent \in 0 .. MaxBlocks /\ errors \in 0 .. MaxErrors + 1
    BY <1>1, LinkAssumption
  <2>2. got \in Seq(Part) /\ Len(got) <= 2 * MaxParts
    BY <1>1, LinkAssumption
  <2>3. sendNr \in Bit /\ lastNr \in Bit /\ cmd \in 0 .. 2 /\ ran \in [times : Nat, whole : BOOLEAN]
    BY <1>1 DEF Bit
  <2> QED BY <1>1, <1>3, <2>1, <2>2, <2>3, SilenceIs DEF LinkTypes, LinkTypeOK, CardState
<1> QED BY <1>1, <1>3, <1>4 DEF LinkInv, Counts, Underway, Rest, AnswerIsRight, FailsOnceOnly

LEMMA LinkSteps == LinkInv /\ [LinkNext]_linkVars => LinkInv'
<1> SUFFICES ASSUME LinkInv, [LinkNext]_linkVars PROVE LinkInv'
  OBVIOUS
<1>1. CASE PowerCard
  BY <1>1, PowerCardKeeps
<1>2. ASSUME NEW n \in 1 .. MaxBlocks, BeginCommand(n) PROVE LinkInv'
  BY <1>2, BeginCommandKeeps
<1>3. CASE Firmware
  BY <1>3, SendKeeps, ReceiveIKeeps, ReceiveChainedKeeps, ReceiveRKeeps, ReceiveErrorKeeps DEF Firmware
<1>4. CASE ReceiveFails
  BY <1>4, ReceiveFailsKeeps
<1>5. CASE CardAnswers
  BY <1>5, TakeKeeps, ExecuteKeeps, OutOfTurnKeeps, ContinueKeeps DEF CardAnswers
<1>6. CASE Damaged
  BY <1>6, DamagedKeeps
<1>7. CASE HostXfr
  BY <1>7, HostXfrKeeps
<1>8. CASE UNCHANGED linkVars
  <2>1. UNCHANGED <<sendNr, lastNr, pc, cmd, total, sent, flag, more, errors, chained, got, wire, card, result, ran,
                  before, loose, disturbed>>
    BY <1>8 DEF linkVars, number, send, history
  <2>2. LinkTypes' /\ Counts'
    BY <2>1 DEF LinkInv, LinkTypes, LinkTypeOK, Counts
  <2>3. Phase' <=> Phase
    BY <2>1 DEF Phase, NotRun, InStep, Asking, Run, Answers, Parts
  <2>4. AnswerUnderWay' <=> AnswerUnderWay
    BY <2>1 DEF AnswerUnderWay, Run, Answers, Parts
  <2>5. (Refused' <=> Refused) /\ (Receipt' <=> Receipt)
    BY <2>1, <2>3 DEF Refused, Receipt, NotRun, Parts
  <2>6. Underway'
    BY <2>1, <2>3, <2>4, <2>5 DEF LinkInv, Underway, Rest
  <2>7. AnswerIsRight' /\ FailsOnceOnly'
    BY <2>1 DEF LinkInv, AnswerIsRight, AnswerIsWhole, FailsOnceOnly, Parts
  <2> QED BY <2>2, <2>6, <2>7 DEF LinkInv
<1> QED BY <1>1, <1>2, <1>3, <1>4, <1>5, <1>6, <1>7, <1>8 DEF LinkNext

\* The inductive invariant of the link holds of every behaviour.
THEOREM LinkInvariant == LinkSpec => []LinkInv
<1>1. LinkInit => LinkInv
  BY LinkStarts
<1>2. LinkInv /\ [LinkNext]_linkVars => LinkInv'
  BY LinkSteps
<1> QED BY <1>1, <1>2, PTL DEF LinkSpec

\* The numbers, the buffers and the block under way keep their types: nErrorCount stays within
\* ISO7816_T1_MAX_SEND_ERROR_COUNT and an answer within its bound, however often blocks are lost.
THEOREM LinkTypeCorrect == LinkSpec => []LinkTypeOK
<1>1. LinkInv => LinkTypeOK
  BY DEF LinkInv, LinkTypes
<1> QED BY <1>1, LinkInvariant, PTL

\* What ISO7816_T1_SendString returns as done was executed by the card once, from all its blocks unless one
\* was disturbed; the answer is its own, complete and in order, but that its first block may come twice.
\* Commands and answers are of any length, and blocks are lost at any moment.
THEOREM AnswersAreRight == LinkSpec => []AnswerIsRight
<1>1. LinkInv => AnswerIsRight
  BY DEF LinkInv
<1> QED BY <1>1, LinkInvariant, PTL

\* A command that fails though nothing disturbed it comes after one that was: the failure has brought the
\* numbers together again, for any number of blocks; not so with a card that marks blocks out of turn as
\* errors, nor before the first answer since it was powered.
THEOREM FailsOnce == LinkSpec => []FailsOnceOnly
<1>1. LinkInv => FailsOnceOnly
  BY DEF LinkInv
<1> QED BY <1>1, LinkInvariant, PTL
=============================================================================
