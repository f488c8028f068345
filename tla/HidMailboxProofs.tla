------------------------- MODULE HidMailboxProofs -------------------------
(***************************************************************************)
(* What HidMailbox keeps, for any number of requests, transmissions and    *)
(* accesses to the card.  The argument counts: every transmission of a     *)
(* request is in one place at most, a report that waits, a report that is  *)
(* parsed, or a command in the mailbox, until it is executed (Counted).    *)
(* When none was lost the answer is there or on its way (Answered), so     *)
(* that the host sends a report anew only when one was.  Calm says what    *)
(* the answer buffer holds when the host never repeats a request without   *)
(* need.                                                                   *)
(***************************************************************************)
EXTENDS HidMailbox, TLAPS

Parsing == pc \in {"crc", "handle"}
Ending == pc \in {"sealClear", "clear"}
Runs(i) == kind[i] \in {"job", "status"}

Pending(i) == IF status = "received" /\ rx = i THEN 1 ELSE 0
Parsed(i) == IF Parsing /\ cmd = i THEN 1 ELSE 0
Posted(i) == IF mailbox = i /\ Runs(i) /\ ~Ending THEN 1 ELSE 0

\* A transmission is in one place at most.
Counted == \A i \in Requests : execs[i] + Pending(i) + Parsed(i) + Posted(i) <= sends[i]

\* Everything is about requests that were sent; what is run from the mailbox is a command that ends.
Sent ==
  /\ rx = req /\ cmd <= req /\ mailbox <= req /\ tx.for <= req /\ crc.for <= req
  /\ waiting => req > 0 /\ sends[req] > 0
  /\ \A i \in Requests : i > req => sends[i] = 0
  /\ status = "received" => req > 0
  /\ Parsing => cmd > 0
  /\ mailbox > 0 => kind[mailbox] \in Stick20
  /\ pc \in {"run", "sealRun", "sealClear"} => mailbox > 0 /\ Runs(mailbox)
  /\ \A i \in Requests : kind[i] \in {"check", "matrix"} => execs[i] = 0

\* A report that is parsed while the next request is out leaves that one alone.
Apart ==
  /\ Parsing /\ cmd # req => execs[req] = 0 /\ mailbox # req
  /\ pc = "handle" /\ cmd = req => tx.for = req

\* When no transmission was lost the answer is there, or on its way.
AllArrived == waiting /\ execs[req] + Posted(req) = sends[req]
Answered ==
  AllArrived =>
    /\ tx.for = req
    /\ kind[req] = "now" => Valid \/ pc \in {"seal", "sealReturn", "sealRun", "sealClear"}
    /\ kind[req] # "now" => tx.field = stick20
    /\ kind[req] # "now" /\ Posted(req) = 1 =>
         stick20.st = "busy" \/ (stick20.st = "progress" /\ pc \in {"run", "sealRun"})
    /\ kind[req] # "now" /\ Posted(req) = 0 =>
         /\ stick20.st \in {"ok", "error"} /\ (Valid \/ pc = "sealClear")
         /\ mailbox = 0 \/ Ending

\* What the answer buffer may hold while a request is out
Untouched == tx.for # req /\ crc.for # req /\ execs[req] = 0 /\ mailbox # req /\ pc # "handle"
Cleared == pc = "handle" /\ tx = [for |-> req, field |-> Zero] /\ crc.for # req /\ execs[req] = 0 /\ mailbox = 0
ResultThere == kind[req] = "now" /\ execs[req] = 1 /\ tx = [for |-> req, field |-> Own(req)] /\ ~Parsing
StatusThere ==
  /\ Runs(req) /\ tx = [for |-> req, field |-> stick20] /\ stick20.cmd = req /\ ~Parsing
  /\ \/ execs[req] = 0 /\ mailbox = req /\ ~Ending /\ stick20.st \in {"busy", "progress"}
     \/ execs[req] = 1 /\ stick20.st \in {"ok", "error"}

Accepted(i) ==
  /\ IF kind[i] = "now" THEN got.field = Own(i) /\ ~got.data
                        ELSE got.field.cmd = i /\ got.field.st \in {"ok", "error"}
  /\ execs[i] > 0

Calm ==
  ~Disturbed =>
    /\ got.for <= req /\ (got.for # 0 => Accepted(got.for))
    /\ ~waiting => got.for = req
    /\ Parsing => waiting /\ cmd = req
    /\ mailbox # 0 /\ ~Ending => waiting /\ mailbox = req /\ execs[req] = 0
    /\ sendData => waiting /\ kind[req] = "status" /\ StatusThere
    /\ waiting => Untouched \/ Cleared \/ ResultThere \/ StatusThere

IInv == TypeOK /\ Counted /\ Sent /\ Apart /\ Answered /\ Calm

-----------------------------------------------------------------------------
USE MailboxAssumption

LEMMA FieldTypes ==
  /\ Zero \in Fields /\ Zero.st = "zero"
  /\ \A i \in 0 .. MaxRequests : Own(i) \in Fields /\ StartStick20Command(i) \in Fields
  /\ \A f \in Fields : f.cmd \in 0 .. MaxRequests /\ f.st \in States \union {"zero", "own"}
  /\ \A f \in Fields, st \in States : [f EXCEPT !.st = st] \in Fields /\ [f EXCEPT !.st = st].cmd = f.cmd /\ [f EXCEPT !.st = st].st = st
BY DEF Zero, Fields, Own, StartStick20Command, States

LEMMA BufferTypes ==
  /\ \A i \in 0 .. MaxRequests, f \in Fields : [for |-> i, field |-> f] \in Buffers
  /\ \A b \in Buffers : b.for \in 0 .. MaxRequests /\ b.field \in Fields /\ b = [for |-> b.for, field |-> b.field]
  /\ \A b \in Buffers, f \in Fields : [b EXCEPT !.field = f] = [for |-> b.for, field |-> f]
BY DEF Buffers

\* The request that is out
LEMMA Current ==
  ASSUME TypeOK, req > 0
  PROVE req \in Requests /\ kind[req] \in Kinds /\ execs[req] \in Nat /\ sends[req] \in Nat
BY DEF TypeOK, Requests

LEMMA CurrentCounted ==
  ASSUME TypeOK, Counted, req > 0
  PROVE execs[req] + Pending(req) + Parsed(req) + Posted(req) <= sends[req]
BY Current DEF Counted

LEMMA CurrentCalm ==
  ASSUME TypeOK, Sent, Counted, ~Disturbed, req > 0, sends[req] > 0
  PROVE sends[req] = 1 /\ kind[req] \in {"now", "job", "status"}
BY Current DEF Disturbed, TypeOK, Kinds

LEMMA UpdateTypes ==
  ASSUME TypeOK, NEW st \in States, Update(st)
  PROVE /\ stick20' \in Fields /\ stick20'.cmd = stick20.cmd /\ stick20'.st = st
        /\ tx' \in Buffers /\ tx' = [for |-> tx.for, field |-> stick20']
<1>1. stick20 \in Fields /\ tx \in Buffers
  BY DEF TypeOK
<1>2. stick20' = [stick20 EXCEPT !.st = st] /\ tx' = [tx EXCEPT !.field = stick20']
  BY DEF Update
<1>3. stick20' \in Fields /\ stick20'.cmd = stick20.cmd /\ stick20'.st = st
  BY <1>1, <1>2, FieldTypes
<1>4. tx' = [for |-> tx.for, field |-> stick20'] /\ tx.for \in 0 .. MaxRequests
  BY <1>1, <1>2, <1>3, BufferTypes
<1> QED BY <1>3, <1>4, BufferTypes

\* A step that leaves requests and their executions alone does not disturb.
LEMMA DisturbedSame == UNCHANGED <<sends, kind>> => Disturbed' = Disturbed
BY DEF Disturbed

LEMMA NewRequestIs ==
  ASSUME IInv, NewRequest
  PROVE /\ req + 1 \in Requests /\ req' = req + 1 /\ ~waiting /\ waiting' /\ rx' = req + 1 /\ status' = "received"
        /\ kind' \in [Requests -> Kinds] /\ \A i \in Requests : i # req + 1 => kind'[i] = kind[i]
        /\ sends' \in [Requests -> 0 .. MaxSends] /\ sends'[req + 1] = 1
        /\ \A i \in Requests : i # req + 1 => sends'[i] = sends[i]
        /\ sends[req + 1] = 0 /\ execs[req + 1] = 0
        /\ UNCHANGED <<got, answer, box, card, task, execs>>
<1> USE DEF NewRequest, SetReport
<1>1. req + 1 \in Requests
  BY DEF IInv, TypeOK, Requests
<1>2. PICK k \in Kinds : kind' = [kind EXCEPT ![req + 1] = k]
  OBVIOUS
<1>3. kind' \in [Requests -> Kinds] /\ \A i \in Requests : i # req + 1 => kind'[i] = kind[i]
  BY <1>2 DEF IInv, TypeOK
<1>4. sends' \in [Requests -> 0 .. MaxSends] /\ sends'[req + 1] = 1
      /\ \A i \in Requests : i # req + 1 => sends'[i] = sends[i]
  BY <1>1 DEF IInv, TypeOK
<1>5. sends[req + 1] = 0
  BY <1>1 DEF IInv, TypeOK, Sent
<1>6. execs[req + 1] = 0
  BY <1>1, <1>5 DEF IInv, TypeOK, Counted, Pending, Parsed, Posted
<1> QED BY <1>1, <1>3, <1>4, <1>5, <1>6


LEMMA NewRequestStep == ASSUME IInv, NewRequest PROVE IInv'
<1> USE DEF host, usb, answer, box, card, task, At
<1>1. TypeOK'
  <2>1. req' \in 0 .. MaxRequests /\ rx' \in 0 .. MaxRequests
    BY NewRequestIs DEF Requests
  <2>2. waiting' \in BOOLEAN /\ status' \in {"ready", "received", "busy"}
    BY NewRequestIs
  <2> QED BY <2>1, <2>2, NewRequestIs DEF IInv, TypeOK
<1>2. Counted'
  <2> SUFFICES ASSUME NEW i \in Requests
               PROVE (execs[i] + Pending(i) + Parsed(i) + Posted(i))' <= sends'[i]
    BY DEF Counted
  <2>1. CASE i = req + 1
    <3>1. mailbox < i /\ cmd < i
      BY <2>1 DEF IInv, TypeOK, Sent
    <3>2. Parsed(i)' = 0 /\ Posted(i)' = 0 /\ Pending(i)' = 1 /\ execs'[i] = 0
      BY <2>1, <3>1, NewRequestIs DEF Parsed, Posted, Pending
    <3> QED BY <2>1, <3>2, NewRequestIs
  <2>2. CASE i # req + 1
    <3>1. Parsed(i)' = Parsed(i) /\ Posted(i)' = Posted(i) /\ Pending(i)' = 0 /\ execs'[i] = execs[i]
      BY <2>2, NewRequestIs DEF Parsed, Parsing, Posted, Runs, Ending, Pending
    <3>2. execs[i] + Pending(i) + Parsed(i) + Posted(i) <= sends[i] /\ Pending(i) \in {0, 1}
          /\ Parsed(i) \in {0, 1} /\ Posted(i) \in {0, 1} /\ execs[i] \in Nat
      BY DEF IInv, TypeOK, Counted, Pending, Parsed, Posted
    <3> QED BY <2>2, <3>1, <3>2, NewRequestIs DEF IInv, TypeOK
  <2> QED BY <2>1, <2>2
<1>3. Sent'
  <2>1. \A i \in Requests : i > req' => sends'[i] = 0
    <3>1. \A i \in Requests : i > req + 1 => i > req /\ i # req + 1
      BY DEF IInv, TypeOK, Requests
    <3> QED BY <3>1, NewRequestIs DEF IInv, Sent
  <2>2. \A i \in Requests : kind'[i] \in {"check", "matrix"} => execs[i] = 0
    BY NewRequestIs DEF IInv, Sent
  <2>3. mailbox > 0 => mailbox \in Requests /\ mailbox # req + 1 /\ kind'[mailbox] = kind[mailbox]
    <3>1. mailbox \in 0 .. MaxRequests /\ mailbox <= req /\ req \in Nat
      BY DEF IInv, TypeOK, Sent
    <3>2. mailbox > 0 => mailbox \in Requests /\ mailbox # req + 1
      BY <3>1 DEF Requests
    <3> QED BY <3>2, NewRequestIs
  <2>4. pc \in {"run", "sealRun", "sealClear"} => mailbox > 0 /\ Runs(mailbox)'
    BY <2>3, NewRequestIs DEF IInv, Sent, Runs, task, box
  <2>5. rx' = req' /\ req' > 0 /\ sends'[req'] > 0
    BY NewRequestIs DEF IInv, TypeOK
  <2>6. cmd <= req' /\ mailbox <= req' /\ tx.for <= req' /\ crc.for <= req'
    <3>1. cmd \in Nat /\ mailbox \in Nat /\ tx.for \in Nat /\ crc.for \in Nat /\ req \in Nat
      BY BufferTypes DEF IInv, TypeOK
    <3> QED BY <3>1, NewRequestIs DEF IInv, Sent
  <2> QED BY <2>1, <2>2, <2>3, <2>4, <2>5, <2>6, NewRequestIs DEF IInv, Sent, Parsing
<1>4. Apart'
  <2>1. execs[req'] = 0 /\ mailbox # req' /\ cmd # req'
    BY NewRequestIs DEF IInv, TypeOK, Sent
  <2> QED BY <2>1, NewRequestIs DEF Apart
<1>5. Answered'
  <2>1. execs[req'] = 0 /\ mailbox # req' /\ sends'[req'] = 1
    BY NewRequestIs DEF IInv, TypeOK, Sent
  <2> QED BY <2>1, NewRequestIs DEF Answered, AllArrived, Posted
<1>6. Calm'
  <2>1. SUFFICES ASSUME ~Disturbed' PROVE Calm'
    BY DEF Calm
  <2>2. ~Disturbed
    <3> SUFFICES ASSUME NEW i \in Requests, sends[i] > 1 \/ (sends[i] > 0 /\ kind[i] \in {"check", "matrix"})
                 PROVE Disturbed'
      BY <2>1 DEF Disturbed
    <3>1. i # req + 1
      BY NewRequestIs
    <3> QED BY <3>1, NewRequestIs DEF Disturbed
  <2>3. got.for = req /\ ~Parsing /\ (mailbox = 0 \/ Ending) /\ ~sendData
    BY <2>2, NewRequestIs DEF IInv, Calm
  <2>4. got.for # 0 => Accepted(got.for)'
    <3>1. got.for # 0 => got.for \in Requests /\ got.for # req + 1 /\ Accepted(got.for)
      BY <2>2, <2>3, Current DEF IInv, TypeOK, Calm
    <3> QED BY <3>1, NewRequestIs DEF Accepted
  <2>5. Untouched'
    <3>1. mailbox < req' /\ tx.for < req' /\ crc.for < req'
      <4>1. mailbox \in Nat /\ tx.for \in Nat /\ crc.for \in Nat /\ req \in Nat
        BY BufferTypes DEF IInv, TypeOK
      <4> QED BY <4>1, NewRequestIs DEF IInv, Sent
    <3> QED BY <2>3, <3>1, NewRequestIs, BufferTypes DEF IInv, TypeOK, Untouched, Parsing
  <2> QED BY <2>3, <2>4, <2>5, NewRequestIs DEF Calm, Parsing, Ending, IInv, TypeOK
<1> QED BY <1>1, <1>2, <1>3, <1>4, <1>5, <1>6 DEF IInv

LEMMA SendAgainStep == ASSUME IInv, SendAgain PROVE IInv'
<1> USE DEF SendAgain, host, usb, answer, box, card, task, At
<1>1. TypeOK'
  <2>1. sends' \in [Requests -> 0 .. MaxSends]
    BY Current DEF IInv, TypeOK, Sent
  <2>2. rx' \in 0 .. MaxRequests /\ status' \in {"ready", "received", "busy"}
    BY DEF IInv, TypeOK, SetReport
  <2> QED BY <2>1, <2>2 DEF IInv, TypeOK
<1>2. Counted'
  BY DEF IInv, TypeOK, Counted, Sent, Pending, Parsed, Posted, Parsing, Ending, Runs, SetReport
<1>3. Sent'
  BY DEF IInv, TypeOK, Sent, Parsing, Runs, SetReport
<1>4. Apart'
  BY DEF IInv, TypeOK, Sent, Apart, Parsing, SetReport
<1>5. Answered'
  <2>1. sends'[req] = sends[req] + 1 /\ execs[req] \in Nat /\ sends[req] \in Nat /\ req > 0
    BY Current DEF IInv, TypeOK, Sent
  <2>2. Posted(req)' = Posted(req) /\ execs[req] + Posted(req) <= sends[req]
    BY <2>1, CurrentCounted DEF IInv, Pending, Parsed, Posted, Runs, Ending
  <2> QED BY <2>1, <2>2 DEF Answered, AllArrived, Posted
<1>6. Calm'
  BY CurrentCounted, CurrentCalm DEF IInv, TypeOK, Sent, Calm, Disturbed, Untouched, Cleared,
     ResultThere, StatusThere, Accepted, Parsing, Ending, Runs, SetReport
<1> QED BY <1>1, <1>2, <1>3, <1>4, <1>5, <1>6 DEF IInv

LEMMA SendLostStep == ASSUME IInv, SendLost PROVE IInv'
<1> USE DEF SendLost, host, usb, answer, box, card, task, At
<1>1. TypeOK'
  BY FieldTypes, BufferTypes DEF IInv, TypeOK, SetReport
<1>2. Counted'
  <2>1. ~AllArrived
    <3> SUFFICES ASSUME AllArrived PROVE FALSE
      OBVIOUS
    <3>1. tx.for = req /\ ~Ending /\ pc = "otp"
      BY DEF IInv, Answered, Ending
    <3>2. CASE kind[req] = "now"
      <4>1. Valid
        BY <3>1, <3>2 DEF IInv, Answered
      <4> QED BY <3>1, <3>2, <4>1 DEF Acceptable, Delivered, Stick20
    <3>3. CASE kind[req] # "now" /\ Posted(req) = 1
      <4>1. stick20.st = "busy" /\ mailbox = req /\ req # 0
        <5>1. mailbox = req /\ req > 0
          BY <3>3 DEF IInv, Sent, Posted
        <5> QED BY <3>1, <3>3, <5>1 DEF IInv, TypeOK, Answered
      <4> QED BY <4>1
    <3>4. CASE kind[req] # "now" /\ Posted(req) = 0
      <4>1. stick20.st \in {"ok", "error"} /\ Valid /\ tx.field = stick20
        BY <3>1, <3>4 DEF IInv, Answered
      <4> QED BY <3>1, <4>1 DEF Acceptable, Delivered
    <3> QED BY <3>2, <3>3, <3>4 DEF Posted
  <2>2. execs[req] + Posted(req) < sends[req]
    BY <2>1, Current, CurrentCounted DEF IInv, Sent, AllArrived, Pending, Parsed, Parsing, Posted
  <2>3. \A i \in Requests : Parsed(i)' = 0 /\ Posted(i)' = Posted(i) /\ Pending(i)' = IF i = req THEN 1 ELSE 0
    BY DEF Parsed, Parsing, Posted, Runs, Ending, Pending, SetReport, IInv, Sent
  <2> QED BY <2>2, <2>3 DEF IInv, TypeOK, Counted, Pending, Parsed, Posted
<1>3. Sent'
  BY DEF IInv, TypeOK, Sent, Parsing, Runs, SetReport
<1>4. Apart'
  BY DEF IInv, TypeOK, Sent, Apart, Parsing, SetReport
<1>5. Answered'
  BY CurrentCounted DEF IInv, TypeOK, Sent, Answered, AllArrived, Valid, Posted, Parsing, Ending,
     Runs, SetReport
<1>6. Calm'
  BY CurrentCounted, CurrentCalm DEF IInv, TypeOK, Sent, Calm, Disturbed, Untouched, Cleared,
     ResultThere, StatusThere, Accepted, Parsing, Ending, Runs, SetReport
<1> QED BY <1>1, <1>2, <1>3, <1>4, <1>5, <1>6 DEF IInv

LEMMA AcceptStep == ASSUME IInv, Accept PROVE IInv'
<1> USE DEF Accept, host, usb, answer, box, card, task, At
<1>1. TypeOK'
  <2>1. Delivered \in [for : 0 .. MaxRequests, field : Fields, data : BOOLEAN, valid : BOOLEAN]
    BY BufferTypes DEF IInv, TypeOK, Delivered, Valid
  <2> QED BY <2>1 DEF IInv, TypeOK
<1>2. Counted'
  BY DEF IInv, TypeOK, Counted, Sent, Pending, Parsed, Posted, Parsing, Ending, Runs
<1>3. Sent'
  BY DEF IInv, TypeOK, Sent, Parsing, Runs
<1>4. Apart'
  BY DEF IInv, TypeOK, Sent, Apart, Parsing
<1>5. Answered'
  BY CurrentCounted DEF IInv, TypeOK, Sent, Answered, AllArrived, Valid, Posted, Parsing, Ending, Runs
<1>6. Calm'
  <2>1. SUFFICES ASSUME ~Disturbed PROVE Calm'
    BY DisturbedSame DEF Calm
  <2>2. waiting /\ req > 0 /\ tx.for = req /\ (Valid \/ sendData)
        /\ (kind[req] \in Stick20 => tx.field.st \notin {"busy", "progress"})
    BY DEF IInv, Sent, Acceptable, Delivered
  <2>3. (ResultThere \/ StatusThere) /\ execs[req] = 1
    <3>1. ~Untouched
      BY <2>2 DEF Untouched
    <3>2. ~Cleared
      BY <2>1, <2>2 DEF Cleared, Valid, IInv, Calm, StatusThere, Parsing
    <3>3. StatusThere => execs[req] = 1
      <4>1. StatusThere => kind[req] \in Stick20 /\ tx.field = stick20
        BY DEF StatusThere, Runs, Stick20, Kinds
      <4>2. StatusThere => stick20.st \notin {"busy", "progress"}
        BY <2>2, <4>1
      <4> QED BY <4>2 DEF StatusThere
    <3> QED BY <2>1, <2>2, <3>1, <3>2, <3>3 DEF IInv, Calm, ResultThere
  <2>4. Accepted(req)'
    <3>1. ResultThere => ~sendData /\ tx.field = Own(req)
      BY <2>1 DEF ResultThere, IInv, TypeOK, Calm
    <3>2. StatusThere /\ execs[req] = 1 => tx.field.cmd = req /\ tx.field.st \in {"ok", "error"} /\ kind[req] # "now"
      BY DEF StatusThere, Runs
    <3> QED BY <2>3, <3>1, <3>2 DEF Accepted, Delivered, ResultThere
  <2>5. execs[req] = 1 /\ ~Parsing
    BY <2>3 DEF ResultThere, StatusThere
  <2>6. mailbox = 0 \/ Ending
    BY <2>1, <2>5 DEF IInv, Calm
  <2>7. got'.for = req
    BY <2>2 DEF Delivered
  <2> QED BY <2>4, <2>5, <2>6, <2>7 DEF Calm, Parsing, Ending, IInv, TypeOK
<1> QED BY <1>1, <1>2, <1>3, <1>4, <1>5, <1>6 DEF IInv

LEMMA PollInVainStep == ASSUME IInv, PollInVain PROVE IInv'
<1> USE DEF PollInVain, host, usb, answer, box, card, task, At
<1>1. TypeOK'
  BY FieldTypes, BufferTypes DEF IInv, TypeOK
<1>2. Counted'
  BY DEF IInv, TypeOK, Counted, Sent, Pending, Parsed, Posted, Parsing, Ending, Runs
<1>3. Sent'
  BY DEF IInv, TypeOK, Sent, Parsing, Runs
<1>4. Apart'
  BY DEF IInv, TypeOK, Sent, Apart, Parsing
<1>5. Answered'
  BY CurrentCounted DEF IInv, TypeOK, Sent, Answered, AllArrived, Valid, Posted, Parsing, Ending, Runs
<1>6. Calm'
  BY CurrentCounted, CurrentCalm DEF IInv, TypeOK, Sent, Calm, Disturbed, Untouched, Cleared,
     ResultThere, StatusThere, Accepted, Parsing, Ending, Runs
<1> QED BY <1>1, <1>2, <1>3, <1>4, <1>5, <1>6 DEF IInv

LEMMA CcidBeginsStep == ASSUME IInv, CcidBegins PROVE IInv'
<1> USE DEF CcidBegins, host, usb, answer, box, card, task, At
<1>1. TypeOK'
  BY FieldTypes, BufferTypes DEF IInv, TypeOK
<1>2. Counted'
  BY DEF IInv, TypeOK, Counted, Sent, Pending, Parsed, Posted, Parsing, Ending, Runs
<1>3. Sent'
  BY DEF IInv, TypeOK, Sent, Parsing, Runs
<1>4. Apart'
  BY DEF IInv, TypeOK, Sent, Apart, Parsing
<1>5. Answered'
  BY CurrentCounted DEF IInv, TypeOK, Sent, Answered, AllArrived, Valid, Posted, Parsing, Ending, Runs
<1>6. Calm'
  BY CurrentCounted, CurrentCalm DEF IInv, TypeOK, Sent, Calm, Disturbed, Untouched, Cleared,
     ResultThere, StatusThere, Accepted, Parsing, Ending, Runs
<1> QED BY <1>1, <1>2, <1>3, <1>4, <1>5, <1>6 DEF IInv

LEMMA CcidEndsStep == ASSUME IInv, CcidEnds PROVE IInv'
<1> USE DEF CcidEnds, host, usb, answer, box, card, task, At
<1>1. TypeOK'
  BY FieldTypes, BufferTypes DEF IInv, TypeOK
<1>2. Counted'
  BY DEF IInv, TypeOK, Counted, Sent, Pending, Parsed, Posted, Parsing, Ending, Runs
<1>3. Sent'
  BY DEF IInv, TypeOK, Sent, Parsing, Runs
<1>4. Apart'
  BY DEF IInv, TypeOK, Sent, Apart, Parsing
<1>5. Answered'
  BY CurrentCounted DEF IInv, TypeOK, Sent, Answered, AllArrived, Valid, Posted, Parsing, Ending, Runs
<1>6. Calm'
  BY CurrentCounted, CurrentCalm DEF IInv, TypeOK, Sent, Calm, Disturbed, Untouched, Cleared,
     ResultThere, StatusThere, Accepted, Parsing, Ending, Runs
<1> QED BY <1>1, <1>2, <1>3, <1>4, <1>5, <1>6 DEF IInv

LEMMA TakeReportStep == ASSUME IInv, TakeReport PROVE IInv'
<1> USE DEF TakeReport, host, usb, answer, box, card, task, At
<1>1. TypeOK'
  BY FieldTypes, BufferTypes DEF IInv, TypeOK
<1>2. Counted'
  BY DEF IInv, TypeOK, Counted, Sent, Pending, Parsed, Posted, Parsing, Ending, Runs
<1>3. Sent'
  BY DEF IInv, TypeOK, Sent, Parsing, Runs
<1>4. Apart'
  BY DEF IInv, TypeOK, Sent, Apart, Parsing
<1>5. Answered'
  BY CurrentCounted DEF IInv, TypeOK, Sent, Answered, AllArrived, Valid, Posted, Parsing, Ending, Runs
<1>6. Calm'
  <2>1. SUFFICES ASSUME ~Disturbed PROVE Calm'
    BY DisturbedSame DEF Calm
  <2>2. req > 0 /\ rx = req /\ req \in Requests
    BY Current DEF IInv, Sent, TypeOK
  <2>3. sends[req] <= 1 /\ execs[req] + 1 + Posted(req) <= sends[req] /\ execs[req] \in Nat
    BY <2>1, <2>2, Current, CurrentCounted DEF IInv, TypeOK, Disturbed, Pending, Parsed, Parsing, Posted
  <2>4. execs[req] = 0 /\ Posted(req) = 0
    <3>1. Posted(req) \in {0, 1} /\ sends[req] \in Nat
      BY <2>2 DEF Posted, IInv, TypeOK
    <3> QED BY <2>3, <3>1
  <2>5. waiting
    BY <2>1, <2>2, <2>4 DEF IInv, TypeOK, Calm, Accepted
  <2>6. ~StatusThere /\ ~ResultThere /\ ~Cleared
    BY <2>4 DEF StatusThere, ResultThere, Cleared, Posted
  <2> QED BY <2>1, <2>2, <2>5, <2>6 DEF IInv, Calm, Untouched, Accepted, Parsing, Ending
<1> QED BY <1>1, <1>2, <1>3, <1>4, <1>5, <1>6 DEF IInv

LEMMA CheckCrcStep == ASSUME IInv, CheckCrc PROVE IInv'
<1> USE DEF CheckCrc, host, usb, answer, box, card, task, At
<1>1. TypeOK'
  BY FieldTypes, BufferTypes DEF IInv, TypeOK
<1>2. Counted'
  BY DEF IInv, TypeOK, Counted, Sent, Pending, Parsed, Posted, Parsing, Ending, Runs
<1>3. Sent'
  BY DEF IInv, TypeOK, Sent, Parsing, Runs
<1>4. Apart'
  BY DEF IInv, TypeOK, Sent, Apart, Parsing
<1>5. Answered'
  <2>1. waiting => req > 0 /\ sends[req] \in Nat /\ execs[req] \in Nat /\ sends[req] > 0
    BY Current DEF IInv, Sent
  <2>2. CASE cmd = req
    <3>1. waiting => execs[req] + Posted(req) < sends[req]
      BY <2>1, <2>2, CurrentCounted DEF IInv, Parsed, Parsing, Pending, Posted
    <3> QED BY <2>1, <3>1 DEF Answered, AllArrived, Posted, Runs, Ending
  <2>3. CASE cmd # req
    BY <2>1, <2>3 DEF IInv, Apart, Parsing, Answered, AllArrived, Posted
  <2> QED BY <2>2, <2>3
<1>6. Calm'
  BY CurrentCounted, CurrentCalm DEF IInv, TypeOK, Sent, Calm, Disturbed, Untouched, Cleared,
     ResultThere, StatusThere, Accepted, Parsing, Ending, Runs
<1> QED BY <1>1, <1>2, <1>3, <1>4, <1>5, <1>6 DEF IInv

LEMMA ExecuteNowStep == ASSUME IInv, ExecuteNow PROVE IInv'
<1> USE DEF ExecuteNow, host, usb, answer, box, card, task, At
<1>1. TypeOK'
  <2>1. cmd \in Requests /\ execs' \in [Requests -> Nat]
    <3>1. cmd \in Requests
      BY DEF IInv, TypeOK, Sent, Parsing, Requests
    <3> QED BY <3>1 DEF IInv, TypeOK
  <2>2. tx' \in Buffers
    BY FieldTypes, BufferTypes DEF IInv, TypeOK
  <2> QED BY <2>1, <2>2 DEF IInv, TypeOK
<1>2. Counted'
  BY DEF IInv, TypeOK, Counted, Sent, Pending, Parsed, Posted, Parsing, Ending, Runs
<1>3. Sent'
  BY DEF IInv, TypeOK, Sent, Parsing, Runs
<1>4. Apart'
  BY DEF IInv, TypeOK, Sent, Apart, Parsing
<1>5. Answered'
  <2>1. waiting => req > 0 /\ sends[req] \in Nat /\ execs[req] \in Nat /\ sends[req] > 0
    BY Current DEF IInv, Sent
  <2>2. CASE cmd = req
    <3>1. tx'.for = req /\ kind[req] = "now"
      BY <2>2, BufferTypes, FieldTypes DEF IInv, TypeOK, Apart
    <3> QED BY <3>1 DEF Answered
  <2>3. CASE cmd # req
    <3>1. waiting => execs'[req] = 0 /\ mailbox # req
      BY <2>1, <2>3, Current DEF IInv, TypeOK, Apart, Parsing
    <3> QED BY <2>1, <3>1 DEF Answered, AllArrived, Posted
  <2> QED BY <2>2, <2>3
<1>6. Calm'
  <2>1. SUFFICES ASSUME ~Disturbed PROVE Calm'
    BY DisturbedSame DEF Calm
  <2>2. waiting /\ cmd = req /\ req \in Requests
    BY <2>1, Current DEF IInv, Calm, Sent, Parsing
  <2>3. Cleared
    BY <2>1, <2>2 DEF IInv, Calm, Untouched, ResultThere, StatusThere, Parsing
  <2>4. execs'[req] = 1 /\ \A i \in Requests : execs'[i] >= execs[i]
    BY <2>2, <2>3 DEF IInv, TypeOK, Cleared
  <2>5. ResultThere'
    BY <2>2, <2>3, <2>4 DEF ResultThere, Cleared, Parsing
  <2>6. ~sendData /\ mailbox = 0
    BY <2>1, <2>3 DEF IInv, TypeOK, Calm, StatusThere, Cleared, Parsing
  <2>7. got.for # 0 => Accepted(got.for)'
    <3>1. got.for \in 0 .. MaxRequests
      BY DEF IInv, TypeOK
    <3>2. got.for # 0 => got.for \in Requests /\ Accepted(got.for)
      BY <2>1, <3>1 DEF IInv, Calm, Requests
    <3> QED BY <2>4, <3>2 DEF IInv, TypeOK, Accepted
  <2> QED BY <2>1, <2>2, <2>5, <2>6, <2>7 DEF IInv, TypeOK, Calm, Parsing
<1> QED BY <1>1, <1>2, <1>3, <1>4, <1>5, <1>6 DEF IInv

LEMMA PostCommandStep == ASSUME IInv, PostCommand PROVE IInv'
<1> USE DEF PostCommand, host, usb, answer, box, card, task, At
<1>1. TypeOK'
  BY FieldTypes, BufferTypes DEF IInv, TypeOK, StartStick20Command
<1>2. Counted'
  BY DEF IInv, TypeOK, Counted, Sent, Pending, Parsed, Posted, Parsing, Ending, Runs, StartStick20Command
<1>3. Sent'
  BY DEF IInv, TypeOK, Sent, Parsing, Runs, StartStick20Command
<1>4. Apart'
  BY DEF IInv, TypeOK, Sent, Apart, Parsing, StartStick20Command
<1>5. Answered'
  <2>1. waiting => req > 0 /\ sends[req] \in Nat /\ execs[req] \in Nat /\ sends[req] > 0
    BY Current DEF IInv, Sent
  <2>2. CASE cmd = req
    <3>1. tx'.for = req /\ tx'.field = stick20' /\ stick20'.st = "busy" /\ kind[req] # "now"
      BY <2>2, BufferTypes, FieldTypes DEF IInv, TypeOK, Apart, StartStick20Command, Stick20
    <3>2. waiting /\ Posted(req)' = 0 => execs[req] < sends[req]
      <4>1. waiting /\ Posted(req)' = 0 => ~Runs(req)
        BY <2>2 DEF Posted, Runs, Ending
      <4>2. waiting /\ ~Runs(req) => execs[req] = 0
        BY <2>1, <3>1, Current DEF IInv, TypeOK, Sent, Runs, Kinds
      <4> QED BY <2>1, <4>1, <4>2
    <3> QED BY <2>1, <3>1, <3>2 DEF Answered, AllArrived
  <2>3. CASE cmd # req
    <3>1. waiting => execs[req] = 0 /\ Posted(req)' = 0
      BY <2>1, <2>3 DEF IInv, Apart, Parsing, Posted
    <3> QED BY <2>1, <3>1 DEF Answered, AllArrived
  <2> QED BY <2>2, <2>3
<1>6. Calm'
  <2>1. SUFFICES ASSUME ~Disturbed PROVE Calm'
    BY DisturbedSame DEF Calm
  <2>2. waiting /\ cmd = req /\ req \in Requests /\ Runs(req)
    BY <2>1, Current, CurrentCalm DEF IInv, Calm, Sent, Parsing, Runs, Stick20
  <2>3. Cleared
    BY <2>1, <2>2 DEF IInv, Calm, Untouched, ResultThere, StatusThere, Parsing
  <2>4. tx' = [for |-> req, field |-> stick20'] /\ stick20'.cmd = req /\ stick20'.st = "busy"
    BY <2>2, <2>3, BufferTypes, FieldTypes DEF IInv, TypeOK, StartStick20Command, Cleared
  <2>5. StatusThere'
    BY <2>2, <2>3, <2>4 DEF StatusThere, Cleared, Parsing, Ending, Runs
  <2>6. ~sendData
    BY <2>1, <2>3 DEF IInv, TypeOK, Calm, StatusThere, Cleared, Parsing
  <2> QED BY <2>1, <2>2, <2>3, <2>5, <2>6 DEF IInv, TypeOK, Calm, Accepted, Cleared, Parsing, Ending
<1> QED BY <1>1, <1>2, <1>3, <1>4, <1>5, <1>6 DEF IInv

LEMMA SealAnswerStep == ASSUME IInv, SealAnswer PROVE IInv'
<1> USE DEF SealAnswer, host, usb, answer, box, card, task, At
<1>1. TypeOK'
  BY FieldTypes, BufferTypes DEF IInv, TypeOK
<1>2. Counted'
  BY DEF IInv, TypeOK, Counted, Sent, Pending, Parsed, Posted, Parsing, Ending, Runs
<1>3. Sent'
  BY DEF IInv, TypeOK, Sent, Parsing, Runs
<1>4. Apart'
  BY DEF IInv, TypeOK, Sent, Apart, Parsing
<1>5. Answered'
  BY CurrentCounted DEF IInv, TypeOK, Sent, Answered, AllArrived, Valid, Posted, Parsing, Ending, Runs
<1>6. Calm'
  BY CurrentCounted, CurrentCalm DEF IInv, TypeOK, Sent, Calm, Disturbed, Untouched, Cleared,
     ResultThere, StatusThere, Accepted, Parsing, Ending, Runs
<1> QED BY <1>1, <1>2, <1>3, <1>4, <1>5, <1>6 DEF IInv

LEMMA ReportDoneStep == ASSUME IInv, ReportDone PROVE IInv'
<1> USE DEF ReportDone, host, usb, answer, box, card, task, At
<1>1. TypeOK'
  BY FieldTypes, BufferTypes DEF IInv, TypeOK
<1>2. Counted'
  BY DEF IInv, TypeOK, Counted, Sent, Pending, Parsed, Posted, Parsing, Ending, Runs
<1>3. Sent'
  BY DEF IInv, TypeOK, Sent, Parsing, Runs
<1>4. Apart'
  BY DEF IInv, TypeOK, Sent, Apart, Parsing
<1>5. Answered'
  BY CurrentCounted DEF IInv, TypeOK, Sent, Answered, AllArrived, Valid, Posted, Parsing, Ending, Runs
<1>6. Calm'
  BY CurrentCounted, CurrentCalm DEF IInv, TypeOK, Sent, Calm, Disturbed, Untouched, Cleared,
     ResultThere, StatusThere, Accepted, Parsing, Ending, Runs
<1> QED BY <1>1, <1>2, <1>3, <1>4, <1>5, <1>6 DEF IInv

LEMMA NoReportStep == ASSUME IInv, NoReport PROVE IInv'
<1> USE DEF NoReport, host, usb, answer, box, card, task, At
<1>1. TypeOK'
  BY FieldTypes, BufferTypes DEF IInv, TypeOK
<1>2. Counted'
  BY DEF IInv, TypeOK, Counted, Sent, Pending, Parsed, Posted, Parsing, Ending, Runs
<1>3. Sent'
  BY DEF IInv, TypeOK, Sent, Parsing, Runs
<1>4. Apart'
  BY DEF IInv, TypeOK, Sent, Apart, Parsing
<1>5. Answered'
  BY CurrentCounted DEF IInv, TypeOK, Sent, Answered, AllArrived, Valid, Posted, Parsing, Ending, Runs
<1>6. Calm'
  BY CurrentCounted, CurrentCalm DEF IInv, TypeOK, Sent, Calm, Disturbed, Untouched, Cleared,
     ResultThere, StatusThere, Accepted, Parsing, Ending, Runs
<1> QED BY <1>1, <1>2, <1>3, <1>4, <1>5, <1>6 DEF IInv

LEMMA TurnStep == ASSUME IInv, Turn PROVE IInv'
<1> USE DEF Turn, host, usb, answer, box, card, task, At
<1>1. TypeOK'
  BY FieldTypes, BufferTypes DEF IInv, TypeOK
<1>2. Counted'
  BY DEF IInv, TypeOK, Counted, Sent, Pending, Parsed, Posted, Parsing, Ending, Runs
<1>3. Sent'
  BY DEF IInv, TypeOK, Sent, Parsing, Runs
<1>4. Apart'
  BY DEF IInv, TypeOK, Sent, Apart, Parsing
<1>5. Answered'
  BY CurrentCounted DEF IInv, TypeOK, Sent, Answered, AllArrived, Valid, Posted, Parsing, Ending, Runs
<1>6. Calm'
  BY CurrentCounted, CurrentCalm DEF IInv, TypeOK, Sent, Calm, Disturbed, Untouched, Cleared,
     ResultThere, StatusThere, Accepted, Parsing, Ending, Runs
<1> QED BY <1>1, <1>2, <1>3, <1>4, <1>5, <1>6 DEF IInv

LEMMA CheckUsageStep == ASSUME IInv, CheckUsage PROVE IInv'
<1> USE DEF CheckUsage, host, usb, answer, box, card, task, At
<1>1. TypeOK'
  <2>1. stick20' \in Fields /\ tx' \in Buffers
    BY UpdateTypes DEF IInv, States
  <2> QED BY <2>1 DEF IInv, TypeOK
<1>2. Counted'
  BY DEF IInv, TypeOK, Counted, Sent, Pending, Parsed, Posted, Parsing, Ending, Runs, In, Update
<1>3. Sent'
  BY DEF IInv, TypeOK, Sent, Parsing, Runs, In, Update
<1>4. Apart'
  BY DEF IInv, TypeOK, Sent, Apart, Parsing, In, Update
<1>5. Answered'
  BY CurrentCounted DEF IInv, TypeOK, Sent, Answered, AllArrived, Valid, Posted, Parsing, Ending,
     Runs, In, Update
<1>6. Calm'
  BY CurrentCounted, CurrentCalm DEF IInv, TypeOK, Sent, Calm, Disturbed, Untouched, Cleared,
     ResultThere, StatusThere, Accepted, Parsing, Ending, Runs, In, Update
<1> QED BY <1>1, <1>2, <1>3, <1>4, <1>5, <1>6 DEF IInv

LEMMA CardInUseStep == ASSUME IInv, CardInUse PROVE IInv'
<1> USE DEF CardInUse, host, usb, answer, box, card, task, At
<1>1. TypeOK'
  BY FieldTypes, BufferTypes DEF IInv, TypeOK, In
<1>2. Counted'
  BY DEF IInv, TypeOK, Counted, Sent, Pending, Parsed, Posted, Parsing, Ending, Runs, In
<1>3. Sent'
  BY DEF IInv, TypeOK, Sent, Parsing, Runs, In
<1>4. Apart'
  BY DEF IInv, TypeOK, Sent, Apart, Parsing, In
<1>5. Answered'
  BY CurrentCounted DEF IInv, TypeOK, Sent, Answered, AllArrived, Valid, Posted, Parsing, Ending, Runs, In
<1>6. Calm'
  BY CurrentCounted, CurrentCalm DEF IInv, TypeOK, Sent, Calm, Disturbed, Untouched, Cleared,
     ResultThere, StatusThere, Accepted, Parsing, Ending, Runs, In
<1> QED BY <1>1, <1>2, <1>3, <1>4, <1>5, <1>6 DEF IInv

LEMMA RefuseMatrixStep == ASSUME IInv, RefuseMatrix PROVE IInv'
<1> USE DEF RefuseMatrix, host, usb, answer, box, card, task, At
<1>1. TypeOK'
  <2>1. stick20' \in Fields /\ tx' \in Buffers
    BY UpdateTypes DEF IInv, States
  <2> QED BY <2>1 DEF IInv, TypeOK, Free
<1>2. Counted'
  BY DEF IInv, TypeOK, Counted, Sent, Pending, Parsed, Posted, Parsing, Ending, Runs, Free, In, Update
<1>3. Sent'
  BY DEF IInv, TypeOK, Sent, Parsing, Runs, Free, In, Update
<1>4. Apart'
  BY DEF IInv, TypeOK, Sent, Apart, Parsing, Free, In, Update
<1>5. Answered'
  BY CurrentCounted DEF IInv, TypeOK, Sent, Answered, AllArrived, Valid, Posted, Parsing, Ending,
     Runs, Free, In, Update
<1>6. Calm'
  BY CurrentCounted, CurrentCalm DEF IInv, TypeOK, Sent, Calm, Disturbed, Untouched, Cleared,
     ResultThere, StatusThere, Accepted, Parsing, Ending, Runs, Free, In, Update
<1> QED BY <1>1, <1>2, <1>3, <1>4, <1>5, <1>6 DEF IInv

LEMMA NothingToDoStep == ASSUME IInv, NothingToDo PROVE IInv'
<1> USE DEF NothingToDo, host, usb, answer, box, card, task, At
<1>1. TypeOK'
  BY FieldTypes, BufferTypes DEF IInv, TypeOK, Free
<1>2. Counted'
  BY DEF IInv, TypeOK, Counted, Sent, Pending, Parsed, Posted, Parsing, Ending, Runs, Free
<1>3. Sent'
  BY DEF IInv, TypeOK, Sent, Parsing, Runs, Free
<1>4. Apart'
  BY DEF IInv, TypeOK, Sent, Apart, Parsing, Free
<1>5. Answered'
  BY CurrentCounted DEF IInv, TypeOK, Sent, Answered, AllArrived, Valid, Posted, Parsing, Ending, Runs, Free
<1>6. Calm'
  BY CurrentCounted, CurrentCalm DEF IInv, TypeOK, Sent, Calm, Disturbed, Untouched, Cleared,
     ResultThere, StatusThere, Accepted, Parsing, Ending, Runs, Free
<1> QED BY <1>1, <1>2, <1>3, <1>4, <1>5, <1>6 DEF IInv

LEMMA PrepareStatusStep == ASSUME IInv, PrepareStatus PROVE IInv'
<1> USE DEF PrepareStatus, host, usb, answer, box, card, task, At
<1>1. TypeOK'
  BY FieldTypes, BufferTypes DEF IInv, TypeOK, Free, In
<1>2. Counted'
  BY DEF IInv, TypeOK, Counted, Sent, Pending, Parsed, Posted, Parsing, Ending, Runs, Free, In
<1>3. Sent'
  BY DEF IInv, TypeOK, Sent, Parsing, Runs, Free, In
<1>4. Apart'
  BY DEF IInv, TypeOK, Sent, Apart, Parsing, Free, In
<1>5. Answered'
  BY CurrentCounted DEF IInv, TypeOK, Sent, Answered, AllArrived, Valid, Posted, Parsing, Ending,
     Runs, Free, In
<1>6. Calm'
  BY CurrentCounted, CurrentCalm DEF IInv, TypeOK, Sent, Calm, Disturbed, Untouched, Cleared,
     ResultThere, StatusThere, Accepted, Parsing, Ending, Runs, Free, In
<1> QED BY <1>1, <1>2, <1>3, <1>4, <1>5, <1>6 DEF IInv

LEMMA BeginJobStep == ASSUME IInv, BeginJob PROVE IInv'
<1> USE DEF BeginJob, host, usb, answer, box, card, task, At
<1>1. TypeOK'
  BY FieldTypes, BufferTypes DEF IInv, TypeOK, Free, In
<1>2. Counted'
  BY DEF IInv, TypeOK, Counted, Sent, Pending, Parsed, Posted, Parsing, Ending, Runs, Free, In
<1>3. Sent'
  BY DEF IInv, TypeOK, Sent, Parsing, Runs, Free, In
<1>4. Apart'
  BY DEF IInv, TypeOK, Sent, Apart, Parsing, Free, In
<1>5. Answered'
  BY CurrentCounted DEF IInv, TypeOK, Sent, Answered, AllArrived, Valid, Posted, Parsing, Ending,
     Runs, Free, In
<1>6. Calm'
  BY CurrentCounted, CurrentCalm DEF IInv, TypeOK, Sent, Calm, Disturbed, Untouched, Cleared,
     ResultThere, StatusThere, Accepted, Parsing, Ending, Runs, Free, In
<1> QED BY <1>1, <1>2, <1>3, <1>4, <1>5, <1>6 DEF IInv

LEMMA ProgressStep == ASSUME IInv, Progress PROVE IInv'
<1> USE DEF Progress, host, usb, answer, box, card, task, At
<1>1. TypeOK'
  <2>1. stick20' \in Fields /\ tx' \in Buffers
    BY UpdateTypes DEF IInv, States
  <2> QED BY <2>1 DEF IInv, TypeOK
<1>2. Counted'
  BY DEF IInv, TypeOK, Counted, Sent, Pending, Parsed, Posted, Parsing, Ending, Runs, In, Update
<1>3. Sent'
  BY DEF IInv, TypeOK, Sent, Parsing, Runs, In, Update
<1>4. Apart'
  BY DEF IInv, TypeOK, Sent, Apart, Parsing, In, Update
<1>5. Answered'
  BY CurrentCounted DEF IInv, TypeOK, Sent, Answered, AllArrived, Valid, Posted, Parsing, Ending,
     Runs, In, Update
<1>6. Calm'
  BY CurrentCounted, CurrentCalm DEF IInv, TypeOK, Sent, Calm, Disturbed, Untouched, Cleared,
     ResultThere, StatusThere, Accepted, Parsing, Ending, Runs, In, Update
<1> QED BY <1>1, <1>2, <1>3, <1>4, <1>5, <1>6 DEF IInv

LEMMA EndCommandStep == ASSUME IInv, EndCommand PROVE IInv'
<1> USE DEF EndCommand, host, usb, answer, box, card, task, At
<1>1. TypeOK'
  <2>1. stick20' \in Fields /\ tx' \in Buffers
    BY UpdateTypes DEF IInv, States
  <2>2. execs' \in [Requests -> Nat]
    <3>1. mailbox \in Requests
      BY DEF IInv, TypeOK, Sent, Requests
    <3> QED BY <3>1 DEF IInv, TypeOK
  <2> QED BY <2>1, <2>2 DEF IInv, TypeOK
<1>2. Counted'
  BY DEF IInv, TypeOK, Counted, Sent, Pending, Parsed, Posted, Parsing, Ending, Runs, Update
<1>3. Sent'
  BY DEF IInv, TypeOK, Sent, Parsing, Runs, Update
<1>4. Apart'
  BY DEF IInv, TypeOK, Sent, Apart, Parsing, Update
<1>5. Answered'
  <2>1. stick20'.st \in {"ok", "error"} /\ tx'.for = tx.for /\ tx'.field = stick20'
    BY UpdateTypes DEF IInv, States
  <2>2. mailbox \in Requests /\ Runs(mailbox)
    BY DEF IInv, TypeOK, Sent, Requests
  <2>3. SUFFICES ASSUME AllArrived' PROVE Answered'
    BY DEF Answered
  <2>4. Posted(req)' = 0 /\ waiting /\ req > 0 /\ execs'[req] = sends[req]
    BY <2>3, Current DEF AllArrived, Posted, Ending, IInv, TypeOK, Sent
  <2>5. CASE mailbox = req
    <3>1. AllArrived
      BY <2>2, <2>4, <2>5, Current DEF IInv, TypeOK, AllArrived, Posted, Ending
    <3> QED BY <2>1, <2>2, <2>5, <3>1 DEF IInv, Answered, Runs, Ending, Posted
  <2>6. CASE mailbox # req
    <3>1. Posted(req) = 0 /\ AllArrived
      BY <2>2, <2>4, <2>6, Current DEF IInv, TypeOK, AllArrived, Posted
    <3>2. tx.for = req /\ kind[req] = "now"
      BY <2>2, <3>1 DEF IInv, Answered, Ending, Requests
    <3> QED BY <2>1, <3>2 DEF Answered
  <2> QED BY <2>5, <2>6
<1>6. Calm'
  <2>1. SUFFICES ASSUME ~Disturbed PROVE Calm'
    BY DisturbedSame DEF Calm
  <2>2. mailbox \in Requests /\ Runs(mailbox)
    BY DEF IInv, TypeOK, Sent, Requests
  <2>3. waiting /\ mailbox = req /\ execs[req] = 0
    BY <2>1, <2>2 DEF IInv, Calm, Ending, Requests
  <2>4. StatusThere
    BY <2>1, <2>2, <2>3 DEF IInv, Calm, Untouched, Cleared, ResultThere, Runs
  <2>5. stick20'.st \in {"ok", "error"} /\ stick20'.cmd = stick20.cmd /\ tx' = [for |-> tx.for, field |-> stick20']
    BY UpdateTypes DEF IInv, States
  <2>6. execs'[req] = 1 /\ \A i \in Requests : execs'[i] >= execs[i]
    BY <2>2, <2>3 DEF IInv, TypeOK
  <2>7. StatusThere'
    BY <2>2, <2>3, <2>4, <2>5, <2>6 DEF StatusThere, Runs, Parsing
  <2>8. got.for # 0 => Accepted(got.for)'
    <3>1. got.for \in 0 .. MaxRequests
      BY DEF IInv, TypeOK
    <3> QED BY <2>1, <2>6, <3>1 DEF IInv, TypeOK, Calm, Accepted, Requests
  <2> QED BY <2>1, <2>3, <2>7, <2>8 DEF IInv, TypeOK, Calm, Parsing, Ending
<1> QED BY <1>1, <1>2, <1>3, <1>4, <1>5, <1>6 DEF IInv

LEMMA SealUpdateStep == ASSUME IInv, SealUpdate PROVE IInv'
<1> USE DEF SealUpdate, host, usb, answer, box, card, task, At
<1>1. TypeOK'
  BY FieldTypes, BufferTypes DEF IInv, TypeOK
<1>2. Counted'
  BY DEF IInv, TypeOK, Counted, Sent, Pending, Parsed, Posted, Parsing, Ending, Runs
<1>3. Sent'
  BY DEF IInv, TypeOK, Sent, Parsing, Runs
<1>4. Apart'
  BY DEF IInv, TypeOK, Sent, Apart, Parsing
<1>5. Answered'
  BY CurrentCounted DEF IInv, TypeOK, Sent, Answered, AllArrived, Valid, Posted, Parsing, Ending, Runs
<1>6. Calm'
  BY CurrentCounted, CurrentCalm DEF IInv, TypeOK, Sent, Calm, Disturbed, Untouched, Cleared,
     ResultThere, StatusThere, Accepted, Parsing, Ending, Runs
<1> QED BY <1>1, <1>2, <1>3, <1>4, <1>5, <1>6 DEF IInv

LEMMA ClearStep == ASSUME IInv, Clear PROVE IInv'
<1> USE DEF Clear, host, usb, answer, box, card, task, At
<1>1. TypeOK'
  BY FieldTypes, BufferTypes DEF IInv, TypeOK
<1>2. Counted'
  <2>1. \A i \in Requests : Posted(i)' = 0 /\ Parsed(i)' = 0 /\ Pending(i)' = Pending(i)
    BY DEF Posted, Parsed, Parsing, Pending, Requests
  <2>2. \A i \in Requests : Parsed(i) = 0 /\ Posted(i) = 0
    BY DEF Posted, Parsed, Parsing, Ending
  <2> QED BY <2>1, <2>2 DEF IInv, TypeOK, Counted, Pending
<1>3. Sent'
  BY DEF IInv, TypeOK, Sent, Parsing, Runs
<1>4. Apart'
  BY DEF IInv, TypeOK, Sent, Apart, Parsing
<1>5. Answered'
  BY CurrentCounted DEF IInv, TypeOK, Sent, Answered, AllArrived, Valid, Posted, Parsing, Ending, Runs
<1>6. Calm'
  BY CurrentCounted, CurrentCalm DEF IInv, TypeOK, Sent, Calm, Disturbed, Untouched, Cleared,
     ResultThere, StatusThere, Accepted, Parsing, Ending, Runs
<1> QED BY <1>1, <1>2, <1>3, <1>4, <1>5, <1>6 DEF IInv

LEMMA StutterStep == ASSUME IInv, UNCHANGED vars PROVE IInv'
<1> USE DEF vars, host, usb, answer, box, card, task
<1>1. TypeOK' /\ Counted' /\ Sent'
  BY DEF IInv, TypeOK, Counted, Sent, Pending, Parsed, Posted, Parsing, Ending, Runs
<1>2. Apart' /\ Answered'
  BY DEF IInv, Apart, Answered, AllArrived, Valid, Posted, Parsing, Ending, Runs
<1>3. Calm'
  BY DEF IInv, Calm, Disturbed, Untouched, Cleared, ResultThere, StatusThere, Accepted, Parsing, Ending, Runs
<1> QED BY <1>1, <1>2, <1>3 DEF IInv

LEMMA Initially == ASSUME Init PROVE IInv
<1>1. TypeOK
  <2>1. Zero \in Fields /\ [cmd |-> 0, st |-> "idle"] \in Fields
    BY DEF Zero, Fields, States
  <2>2. tx \in Buffers /\ crc \in Buffers /\ stick20 \in Fields
    BY <2>1 DEF Init, Buffers
  <2>3. got \in [for : 0 .. MaxRequests, field : Fields, data : BOOLEAN, valid : BOOLEAN]
    BY <2>1 DEF Init
  <2>4. kind \in [Requests -> Kinds] /\ sends \in [Requests -> 0 .. MaxSends] /\ execs \in [Requests -> Nat]
    <3>1. "now" \in Kinds /\ 0 \in 0 .. MaxSends /\ 0 \in Nat
      BY DEF Kinds
    <3>2. kind \in [Requests -> Kinds]
      BY <3>1 DEF Init
    <3>3. sends \in [Requests -> 0 .. MaxSends]
      BY <3>1 DEF Init
    <3>4. execs \in [Requests -> Nat]
      BY <3>1 DEF Init
    <3> QED BY <3>2, <3>3, <3>4
  <2>5. /\ req = 0 /\ waiting = FALSE /\ rx = 0 /\ status = "ready" /\ pc = "otp" /\ loop = 0 /\ cmd = 0
        /\ mailbox = 0 /\ string = 0 /\ sendData = FALSE /\ ccid = FALSE /\ accesses = 0
    BY DEF Init
  <2>6. /\ req \in 0 .. MaxRequests /\ rx \in 0 .. MaxRequests /\ cmd \in 0 .. MaxRequests
        /\ mailbox \in 0 .. MaxRequests /\ string \in 0 .. MaxRequests /\ accesses \in 0 .. MaxAccesses
    BY <2>5
  <2>7. loop \in 0 .. Period - 1
    BY <2>5
  <2> QED BY <2>2, <2>3, <2>4, <2>5, <2>6, <2>7 DEF TypeOK
<1>2. Counted
  BY DEF Init, Counted, Pending, Parsed, Parsing, Posted, Requests
<1>3. Sent
  BY DEF Init, Sent, Parsing
<1>4. Apart /\ Answered
  BY DEF Init, Apart, Parsing, Answered, AllArrived
<1>5. Calm
  BY DEF Init, Calm, Parsing
<1> QED BY <1>1, <1>2, <1>3, <1>4, <1>5 DEF IInv

\* The inductive invariant holds, whatever the bounds.
THEOREM Invariance == Spec => []IInv
<1>1. Init => IInv
  BY Initially
<1>2. IInv /\ [Next]_vars => IInv'
  <2> SUFFICES ASSUME IInv, [Next]_vars PROVE IInv'
    OBVIOUS
  <2>1. CASE NewRequest \/ SendAgain \/ SendLost \/ Accept \/ PollInVain
    BY <2>1, NewRequestStep, SendAgainStep, SendLostStep, AcceptStep, PollInVainStep
  <2>2. CASE CcidBegins \/ CcidEnds
    BY <2>2, CcidBeginsStep, CcidEndsStep
  <2>3. CASE TakeReport \/ CheckCrc \/ ExecuteNow \/ PostCommand \/ SealAnswer \/ ReportDone \/ NoReport \/ Turn
    BY <2>3, TakeReportStep, CheckCrcStep, ExecuteNowStep, PostCommandStep, SealAnswerStep, ReportDoneStep,
       NoReportStep, TurnStep
  <2>4. CASE CheckUsage \/ CardInUse \/ RefuseMatrix \/ NothingToDo \/ PrepareStatus \/ BeginJob
    BY <2>4, CheckUsageStep, CardInUseStep, RefuseMatrixStep, NothingToDoStep, PrepareStatusStep, BeginJobStep
  <2>5. CASE Progress \/ EndCommand \/ SealUpdate \/ Clear
    BY <2>5, ProgressStep, EndCommandStep, SealUpdateStep, ClearStep
  <2>6. CASE UNCHANGED vars
    BY <2>6, StutterStep
  <2> QED BY <2>1, <2>2, <2>3, <2>4, <2>5, <2>6 DEF Next, IW
<1> QED BY <1>1, <1>2, PTL DEF Spec

-----------------------------------------------------------------------------
(* What a reader should know of *)

\* The variables of the two tasks, the mailbox and the answer keep their types.
THEOREM TypeCorrect == Spec => []TypeOK
<1>1. IInv => TypeOK
  BY DEF IInv
<1> QED BY <1>1, Invariance, PTL

\* parse_report and HID_ExcuteCmd write one answer buffer, yet a host that never repeats a
\* request without need accepts for each the answer of that request and of no other.
THEOREM AnswersOwn == Spec => []AnswersAreOwn
<1>1. IInv => AnswersAreOwn
  BY DEF IInv, Calm, Accepted, AnswersAreOwn
<1> QED BY <1>1, Invariance, PTL

\* A report that is overwritten, parsed or waiting in the mailbox is executed once at most for
\* each time it was sent, and was executed when the host accepts its answer.
THEOREM Executed == Spec => []ExecutedAsSent
<1>1. IInv => AcceptedWasExecuted
  BY DEF IInv, Calm, Accepted, AcceptedWasExecuted
<1>2. IInv => ExecutedAtMostAsSent
  <2> SUFFICES ASSUME IInv, NEW i \in Requests PROVE execs[i] <= sends[i]
    BY DEF ExecutedAtMostAsSent
  <2>1. execs[i] \in Nat /\ sends[i] \in Nat /\ Pending(i) \in Nat /\ Parsed(i) \in Nat /\ Posted(i) \in Nat
    BY DEF IInv, TypeOK, Pending, Parsed, Posted
  <2> QED BY <2>1 DEF IInv, Counted
<1> QED BY <1>1, <1>2, Invariance, PTL DEF ExecutedAsSent
=============================================================================
