-------------------------- MODULE HotpCounterProofs --------------------------
(***************************************************************************)
(* Proofs about HotpCounter, for any number of slots, any page size, any   *)
(* look-ahead window no longer than a page, and any number of power        *)
(* losses.                                                                 *)
(***************************************************************************)
EXTENDS HotpCounter, TLAPS

USE CounterAssumption

-----------------------------------------------------------------------------
(* The inductive invariant *)

\* How far the command under way has got.
OpShape ==
  /\ op.kind = "none" => op = Idle
  /\ op.step = "rewrite" => op.left > 0
  /\ op.kind = "get" => op.slot # VerifySlot /\ op.left <= 1
  /\ op.kind = "verify" => op.slot = VerifySlot
  /\ op.kind = "program" =>
       /\ op.code \in Seeds
       /\ op.left <= 1 /\ (op.step = "increment" => op.left = 0)
       /\ Image(op.slot) = [base |-> op.code, used |-> 0]

\* The increments still to come once a page image in RAM is written.
ToCome == op.left - (IF op.step = "rewrite" THEN 1 ELSE 0)

\* What the page of a slot that is not torn says of the slot's last code.
SlotSound(s) ==
  LET p == Image(s) IN
  /\ p.base + p.used + (IF op.slot = s THEN ToCome ELSE 0) <= MaxCounter
  /\ times[s] <= 2
  /\ \/ last[s] < p.base + p.used
     \/ last[s] = p.base + p.used /\ times[s] = 1 /\ p.used < LookAhead

\* What is left to do for a code that is not returned yet: it ends one past the code, or,
\* when the page was found full on the way, at the code with a page that is far from full.
CodeSound ==
  LET p == Image(op.slot) IN
  op.kind \in {"get", "verify"} /\ ~torn[op.slot] =>
    /\ last[op.slot] <= op.code
    /\ op.code = last[op.slot] =>
         /\ times[op.slot] = 1
         /\ p.base + p.used + ToCome = op.code + 1
         /\ ToCome > 0 => ToCome = 1 /\ p.used < LookAhead
    /\ \/ p.base + p.used + ToCome = op.code + 1
       \/ p.base + p.used + ToCome = op.code /\ p.used + ToCome < LookAhead

\* How far a slot that only hands out codes is ahead of its last code.
GapSound(s) ==
  LET p == Image(s) IN
  p.base + p.used <= last[s] + 1 + cut[s]
       + IF op.slot = s /\ op.kind = "get" /\ ToCome = 0 THEN 1 ELSE 0

IInv ==
  /\ TypeOK
  /\ OpShape
  /\ \A s \in Slots : ~Undefined(s) => SlotSound(s)
  /\ CodeSound
  /\ \A s \in Slots \ {VerifySlot} : ~Undefined(s) => GapSound(s)

-----------------------------------------------------------------------------
(* Facts about pages *)

LEMMA IdleFacts ==
  /\ Idle \in Ops /\ Erased \in Pages
  /\ Idle.kind = "none" /\ Idle.left = 0 /\ Idle.step = "increment"
BY DEF Idle, Command, Ops, Kinds, Erased, Pages

\* The counter of a page in the range a counter is used in is base plus tokens.
LEMMA ValueInRange ==
  ASSUME NEW p \in Pages, p.base + p.used <= MaxCounter
  PROVE  Value(p) = p.base + p.used /\ Value(p) \in 0 .. Modulus - 1
BY DEF Value, Wrap, Pages

LEMMA ValueType == \A p \in Pages : Value(p) \in 0 .. Modulus - 1
BY DEF Value, Wrap, Pages

LEMMA ImageType ==
  ASSUME TypeOK, NEW s \in Slots
  PROVE  Image(s) \in Pages /\ op.saved \in Pages /\ page[s] \in Pages /\ op.slot \in Slots
BY DEF TypeOK, Image, Ops

-----------------------------------------------------------------------------
(* Type correctness *)

\* Every variable keeps its type: no counter leaves its u64 range and no page holds more
\* tokens than it has bytes.
LEMMA TypeInit == Init => TypeOK
BY IdleFacts DEF Init, TypeOK

LEMMA TypeStep == TypeOK /\ OpShape /\ [Next]_vars => TypeOK'
<1> SUFFICES ASSUME TypeOK, OpShape, [Next]_vars PROVE TypeOK'
  OBVIOUS
<1> USE IdleFacts DEF TypeOK
<1>1. ASSUME NEW s \in Slots, GetCode(s) PROVE TypeOK'
  <2>1. Value(page[s]) \in 0 .. Modulus - 1
    BY ValueType
  <2>2. op' \in Ops
    BY <1>1, <2>1 DEF GetCode, Ops, Command, Kinds
  <2>3. QED
    BY <1>1, <2>2 DEF GetCode
<1>2. ASSUME NEW s \in Slots, EraseSlot(s) PROVE TypeOK'
  BY <1>2 DEF EraseSlot
<1>3. ASSUME NEW s \in Slots, NEW c \in Seeds, Program(s, c) PROVE TypeOK'
  <2>1. [base |-> c, used |-> 0] \in Pages
    BY DEF Pages
  <2>2. op' \in Ops
    BY <1>3, <2>1 DEF Program, Ops, Kinds
  <2>3. QED
    BY <1>3, <2>2 DEF Program, Forget
<1>4. ASSUME NEW k \in 0 .. LookAhead - 1, VerifyCode(k) PROVE TypeOK'
  <2>1. Value(page[VerifySlot]) \in 0 .. Modulus - 1
    BY ValueType
  <2>2. Wrap(Value(page[VerifySlot]) + k) \in 0 .. Modulus - 1
    BY <2>1 DEF Wrap
  <2>3. op' \in Ops
    BY <1>4, <2>2 DEF VerifyCode, Ops, Command, Kinds
  <2>4. QED
    BY <1>4, <2>3 DEF VerifyCode
<1>5. CASE MarkToken
  <2>1. page[op.slot].used + 1 \in 0 .. Tokens
    <3>1. page[op.slot].used # Tokens
      BY <1>5 DEF MarkToken, Full
    <3>2. page[op.slot] \in Pages
      BY DEF Ops
    <3>3. page[op.slot].used \in 0 .. Tokens
      BY <3>2 DEF Pages
    <3>4. QED
      BY <3>1, <3>3
  <2>2. page' \in [Slots -> Pages]
    BY <1>5, <2>1 DEF MarkToken, Pages, Ops
  <2>3. op' \in Ops
    BY <1>5 DEF MarkToken, Incrementing, Ops
  <2>4. QED
    BY <1>5, <2>2, <2>3 DEF MarkToken
<1>6. CASE MarkTokenFails
  <2>1. page[op.slot].used + 1 \in 0 .. Tokens
    <3>1. page[op.slot].used # Tokens
      BY <1>6 DEF MarkTokenFails, Full
    <3>2. page[op.slot] \in Pages
      BY DEF Ops
    <3>3. page[op.slot].used \in 0 .. Tokens
      BY <3>2 DEF Pages
    <3>4. QED
      BY <3>1, <3>3
  <2>2. [page[op.slot] EXCEPT !.used = @ + 1] \in Pages
    BY <2>1 DEF Pages, Ops
  <2>3. op' \in Ops
    BY <1>6, <2>2 DEF MarkTokenFails, Ops
  <2>4. QED
    BY <1>6, <2>3 DEF MarkTokenFails, Ops
<1>7. CASE EraseFullPage
  <2>1. Value(page[op.slot]) \in 0 .. Modulus - 1
    BY ValueType DEF Ops
  <2>2. [base |-> Value(page[op.slot]), used |-> 0] \in Pages
    BY <2>1 DEF Pages
  <2>3. op' \in Ops
    BY <1>7, <2>2 DEF EraseFullPage, Ops
  <2>4. QED
    BY <1>7, <2>3 DEF EraseFullPage, Ops
<1>8. CASE WriteBack
  <2>1. op.left > 0
    BY <1>8 DEF WriteBack, OpShape
  <2>2. op' \in Ops
    <3>1. op.left - 1 \in 0 .. LookAhead
      BY <2>1 DEF Ops
    <3>2. QED
      BY <1>8, <3>1 DEF WriteBack, Ops
  <2>3. QED
    BY <1>8, <2>2 DEF WriteBack, Ops
<1>9. CASE ReturnCode
  BY <1>9 DEF ReturnCode, Ops
<1>10. CASE WriteSlot
  BY <1>10 DEF WriteSlot, Ops
<1>11. CASE PowerLoss
  <2>1. op.slot \in Slots
    BY DEF Ops
  <2>2. cut' \in [Slots -> 0 .. MaxCut]
    BY <1>11, <2>1 DEF PowerLoss
  <2>3. last' \in [Slots -> -1 .. Modulus - 1] /\ times' \in [Slots -> Nat]
    BY <1>11, <2>1 DEF PowerLoss, Forget
  <2>4. torn' \in [Slots -> BOOLEAN]
    BY <1>11, <2>1 DEF PowerLoss
  <2>5. QED
    BY <1>11, <2>2, <2>3, <2>4 DEF PowerLoss
<1>12. CASE UNCHANGED vars
  BY <1>12 DEF vars
<1>13. QED
  BY <1>1, <1>2, <1>3, <1>4, <1>5, <1>6, <1>7, <1>8, <1>9, <1>10, <1>11, <1>12 DEF Next

-----------------------------------------------------------------------------
(* The inductive invariant is kept by every action *)

\* A command that starts touches no page: its code is k values ahead, k + 1 increments away.
LEMMA StartCode ==
  ASSUME IInv, TypeOK', NEW s \in Slots, NEW k \in 0 .. LookAhead - 1,
         NEW kind \in {"get", "verify"}, kind = "get" => s # VerifySlot /\ k = 0,
         kind = "verify" => s = VerifySlot,
         op = Idle, InRange(s), op' = Command(kind, s, Wrap(Value(page[s]) + k), k + 1),
         UNCHANGED <<page, torn, last, times, cut>>
  PROVE  IInv'
<1> USE IdleFacts
<1> DEFINE p == page[s]
<1>1. op.step = "increment" /\ op.kind = "none" /\ op.left = 0
  OBVIOUS
<1>2. /\ op'.kind = kind /\ op'.slot = s /\ op'.code = Wrap(Value(p) + k)
      /\ op'.left = k + 1 /\ op'.step = "increment"
  BY DEF Command
<1>3. \A x \in Slots : Image(x) = page[x] /\ Image(x)' = page[x]
  BY <1>1, <1>2 DEF Image, Rewriting
<1>4. \A x \in Slots : (Undefined(x)' <=> torn[x]) /\ (Undefined(x) <=> torn[x])
  BY <1>1, <1>2 DEF Undefined
<1>5. \A x \in Slots : page[x] \in Pages /\ page[x].base \in Int /\ page[x].used \in Int
  BY DEF IInv, TypeOK, Pages
<1>6. ToCome' = k + 1 /\ ToCome = 0
  BY <1>1, <1>2 DEF ToCome
<1>7. ~torn[s] => /\ SlotSound(s)
                  /\ op'.code = p.base + p.used + k
                  /\ p.base + p.used + k + 1 <= MaxCounter
  <2>1. SUFFICES ASSUME ~torn[s]
                 PROVE  /\ SlotSound(s)
                        /\ op'.code = p.base + p.used + k
                        /\ p.base + p.used + k + 1 <= MaxCounter
    OBVIOUS
  <2>2. SlotSound(s)
    BY <2>1, <1>4 DEF IInv
  <2>3. p.base + p.used <= MaxCounter
    BY <2>2, <1>3, <1>5, <1>6 DEF SlotSound
  <2>4. Value(p) = p.base + p.used
    BY <2>3, <1>5, ValueInRange
  <2>5. p.base + p.used + LookAhead <= MaxCounter
    BY <2>3, <2>4, <1>5 DEF InRange
  <2>6. Wrap(Value(p) + k) = p.base + p.used + k
    BY <2>4, <2>5, <1>5 DEF Wrap
  <2>7. QED
    BY <2>2, <2>5, <2>6, <1>2, <1>5
<1>8. OpShape'
  BY <1>2 DEF OpShape
<1>9. ASSUME NEW x \in Slots, ~Undefined(x)' PROVE SlotSound(x)'
  <2>1. SlotSound(x)
    BY <1>9, <1>4 DEF IInv
  <2>2. CASE x = s
    BY <2>1, <2>2, <1>2, <1>3, <1>4, <1>5, <1>6, <1>7, <1>9 DEF SlotSound
  <2>3. CASE x # s
    BY <2>1, <2>3, <1>1, <1>2, <1>3, <1>5, <1>6 DEF SlotSound
  <2>4. QED
    BY <2>2, <2>3
<1>10. CodeSound'
  <2>1. SUFFICES ASSUME ~torn[s] PROVE CodeSound'
    BY <1>2 DEF CodeSound
  <2>2. last[s] \in Int
    BY DEF IInv, TypeOK
  <2>3. \/ last[s] < p.base + p.used
        \/ last[s] = p.base + p.used /\ times[s] = 1 /\ p.used < LookAhead
    BY <2>1, <1>7, <1>3 DEF SlotSound
  <2>4. Image(op.slot)' = p
    BY <1>2 DEF Image, Rewriting
  <2>5. QED
    BY <2>1, <2>2, <2>3, <2>4, <1>2, <1>5, <1>6, <1>7 DEF CodeSound
<1>11. ASSUME NEW x \in Slots \ {VerifySlot}, ~Undefined(x)' PROVE GapSound(x)'
  BY <1>11, <1>1, <1>2, <1>3, <1>4, <1>6 DEF IInv, GapSound
<1>12. QED
  BY <1>8, <1>9, <1>10, <1>11 DEF IInv

\* A step of increment_counter_page, as the invariant sees it: the page image of the slot,
\* in flash or about to be written there, goes from p to q.
ImageChange(p, q) ==
  /\ p = Image(op.slot) /\ q = Image(op.slot)'
  \* a token is marked, or all tokens go into the base, or nothing changes
  /\ \/ /\ ToCome' = ToCome - 1 /\ p.used # Tokens
        /\ q.base = p.base /\ q.used = p.used + 1
     \/ /\ ToCome' = ToCome - 1 /\ p.used = Tokens
        /\ q.base = Value(p) /\ q.used = 0
     \/ ToCome' = ToCome /\ q = p

PageStep ==
  /\ OpShape' /\ op.kind # "none"
  /\ op'.kind = op.kind /\ op'.slot = op.slot /\ op'.code = op.code
  /\ ToCome \in Nat /\ ToCome' \in Nat
  /\ \A x \in Slots \ {op.slot} : Image(x)' = Image(x)
  /\ UNCHANGED <<torn, last, times, cut>>
  /\ \E p, q \in Pages : ImageChange(p, q)

LEMMA ChangeOfImage ==
  ASSUME IInv, TypeOK', PageStep, NEW p \in Pages, NEW q \in Pages, ImageChange(p, q)
  PROVE  IInv'
<1> USE DEF PageStep, ImageChange
<1> DEFINE s == op.slot
           V == p.base + p.used
           W == q.base + q.used
<1>1. /\ s \in Slots /\ op.code \in Int
      /\ \A x \in Slots : last[x] \in Int /\ times[x] \in Int /\ cut[x] \in Int
  BY DEF IInv, TypeOK, Ops
<1>2. /\ p.base \in Nat /\ p.used \in Nat /\ p.used <= Tokens
      /\ q.base \in Nat /\ q.used \in Nat /\ q.used <= Tokens
  BY DEF Pages
<1>3. \A x \in Slots : Undefined(x)' <=> Undefined(x)
  BY DEF Undefined
<1>4. ~Undefined(s) => SlotSound(s)
  BY <1>1 DEF IInv
<1>5. ~Undefined(s) =>
        /\ V + ToCome <= MaxCounter
        /\ times[s] <= 2
        /\ \/ last[s] < V
           \/ last[s] = V /\ times[s] = 1 /\ p.used < LookAhead
  BY <1>4 DEF SlotSound
<1>6. ~Undefined(s) => \/ ToCome' = ToCome - 1 /\ p.used # Tokens
                            /\ W = V + 1 /\ q.used = p.used + 1
                       \/ ToCome' = ToCome - 1 /\ p.used = Tokens /\ W = V /\ q.used = 0
                       \/ ToCome' = ToCome /\ W = V /\ q.used = p.used
  <2>1. SUFFICES ASSUME ~Undefined(s), p.used = Tokens, q.base = Value(p)
                 PROVE  q.base = V
    BY <1>2
  <2>2. V <= MaxCounter
    BY <2>1, <1>2, <1>5
  <2>3. QED
    BY <2>1, <2>2, ValueInRange
<1>7. ASSUME NEW x \in Slots, ~Undefined(x)' PROVE SlotSound(x)'
  <2>1. CASE x = s
    <3>1. /\ W + ToCome' <= MaxCounter
          /\ \/ last[s] < W
             \/ last[s] = W /\ times[s] = 1 /\ q.used < LookAhead
      BY <2>1, <1>1, <1>2, <1>3, <1>5, <1>6, <1>7
    <3>2. QED
      BY <2>1, <3>1, <1>3, <1>5, <1>7 DEF SlotSound
  <2>2. CASE x # s
    BY <2>2, <1>1, <1>3, <1>7 DEF IInv, SlotSound
  <2>3. QED
    BY <2>1, <2>2
<1>8. CodeSound'
  <2>1. SUFFICES ASSUME op.kind \in {"get", "verify"}, ~torn[s] PROVE CodeSound'
    BY DEF CodeSound
  <2>2. ~Undefined(s)
    BY <2>1 DEF Undefined
  <2>3. /\ last[s] <= op.code
        /\ op.code = last[s] =>
             /\ times[s] = 1
             /\ V + ToCome = op.code + 1
             /\ ToCome > 0 => ToCome = 1 /\ p.used < LookAhead
        /\ \/ V + ToCome = op.code + 1
           \/ V + ToCome = op.code /\ p.used + ToCome < LookAhead
    BY <2>1 DEF IInv, CodeSound
  <2>4. op.code = last[s] =>
             /\ W + ToCome' = op.code + 1
             /\ ToCome' > 0 => ToCome' = 1 /\ q.used < LookAhead
    BY <2>2, <2>3, <1>1, <1>2, <1>6
  <2>5. ToCome' < LookAhead \/ ToCome' = ToCome
    BY <1>1, <1>2, <2>2, <1>6 DEF IInv, TypeOK, Ops, ToCome
  <2>6. \/ W + ToCome' = op.code + 1
        \/ W + ToCome' = op.code /\ q.used + ToCome' < LookAhead
    BY <2>2, <2>3, <2>5, <1>1, <1>2, <1>6
  <2>7. QED
    BY <2>1, <2>3, <2>4, <2>6 DEF CodeSound
<1>9. ASSUME NEW x \in Slots \ {VerifySlot}, ~Undefined(x)' PROVE GapSound(x)'
  <2>1. GapSound(x)
    BY <1>9, <1>3 DEF IInv
  <2>2. CASE x = s /\ op.kind = "get"
    <3>0. V <= last[s] + 1 + cut[s] + IF ToCome = 0 THEN 1 ELSE 0
      BY <2>1, <2>2 DEF GapSound
    <3>1. ToCome = 1 => V <= last[s] + 1 + cut[s]
      BY <3>0, <1>1
    <3>2. ToCome <= 1
      BY <2>2, <1>1 DEF IInv, OpShape, ToCome, TypeOK, Ops
    <3>3. W <= last[s] + 1 + cut[s] + IF ToCome' = 0 THEN 1 ELSE 0
      BY <2>2, <3>0, <3>1, <3>2, <1>1, <1>2, <1>3, <1>6, <1>9
    <3>4. QED
      BY <2>2, <3>3 DEF GapSound
  <2>3. CASE x = s /\ op.kind # "get"
    <3>1. op.kind = "program" \/ op.slot = VerifySlot
      BY <2>3 DEF IInv, OpShape, TypeOK, Ops, Kinds
    <3>2. QED
      BY <2>3, <3>1, <1>3, <1>9 DEF Undefined
  <2>4. CASE x # s
    BY <2>1, <2>4, <1>1 DEF GapSound
  <2>5. QED
    BY <2>2, <2>3, <2>4
<1>10. QED
  BY <1>7, <1>8, <1>9 DEF IInv

LEMMA PageStepKeeps == IInv /\ TypeOK' /\ PageStep => IInv'
BY ChangeOfImage DEF PageStep

LEMMA MarkTokenStep == IInv /\ TypeOK' /\ MarkToken => PageStep
<1> SUFFICES ASSUME IInv, TypeOK', MarkToken PROVE PageStep
  OBVIOUS
<1> DEFINE p == page[op.slot]
           q == [p EXCEPT !.used = @ + 1]
<1>1. op \in Ops /\ op.slot \in Slots /\ op.left \in Nat /\ op.left > 0
  BY DEF MarkToken, Incrementing, IInv, TypeOK, Ops
<1>2. op.step = "increment" /\ op.kind # "none" /\ op.kind # "program"
  BY <1>1, IdleFacts DEF MarkToken, Incrementing, IInv, OpShape
<1>3. /\ op'.kind = op.kind /\ op'.slot = op.slot /\ op'.code = op.code
      /\ op'.left = op.left - 1 /\ op'.step = "increment"
  BY <1>1, <1>2 DEF MarkToken, Ops
<1>4. p \in Pages /\ page'[op.slot] = q /\ page'[op.slot] \in Pages /\ p.used # Tokens
  BY <1>1 DEF MarkToken, Full, IInv, TypeOK
<1>5. q.base = p.base /\ q.used = p.used + 1
  BY <1>4 DEF Pages
<1>6. Image(op.slot) = p /\ Image(op.slot)' = q
  BY <1>2, <1>3, <1>4 DEF Image, Rewriting
<1>7. \A x \in Slots \ {op.slot} : Image(x)' = Image(x)
  BY <1>1, <1>2, <1>3 DEF MarkToken, Image, Rewriting, IInv, TypeOK
<1>8. ToCome = op.left /\ ToCome' = op.left - 1
  BY <1>1, <1>2, <1>3 DEF ToCome
<1>9. OpShape'
  BY <1>1, <1>2, <1>3 DEF IInv, OpShape
<1> HIDE DEF q
<1>10. QED
  BY <1>1, <1>2, <1>3, <1>4, <1>5, <1>6, <1>7, <1>8, <1>9 DEF MarkToken, ImageChange, PageStep

LEMMA MarkTokenFailsStep == IInv /\ TypeOK' /\ MarkTokenFails => PageStep
<1> SUFFICES ASSUME IInv, TypeOK', MarkTokenFails PROVE PageStep
  OBVIOUS
<1> DEFINE p == page[op.slot]
           q == [p EXCEPT !.used = @ + 1]
<1>1. op \in Ops /\ op.slot \in Slots /\ op.left \in Nat /\ op.left > 0
  BY DEF MarkTokenFails, Incrementing, IInv, TypeOK, Ops
<1>2. op.step = "increment" /\ op.kind # "none" /\ op.kind # "program"
  BY <1>1, IdleFacts DEF MarkTokenFails, Incrementing, IInv, OpShape
<1>3. /\ op'.kind = op.kind /\ op'.slot = op.slot /\ op'.code = op.code
      /\ op'.left = op.left /\ op'.step = "rewrite" /\ op'.saved = q
  BY <1>1, <1>2 DEF MarkTokenFails, Ops
<1>4. p \in Pages /\ p.used # Tokens
  BY <1>1 DEF MarkTokenFails, Full, IInv, TypeOK
<1>5. q \in Pages /\ q.base = p.base /\ q.used = p.used + 1
  BY <1>4 DEF Pages
<1>6. Image(op.slot) = p /\ Image(op.slot)' = q
  BY <1>2, <1>3, <1>4 DEF Image, Rewriting
<1>7. \A x \in Slots \ {op.slot} : Image(x)' = Image(x)
  BY <1>1, <1>2, <1>3 DEF MarkTokenFails, Image, Rewriting, IInv, TypeOK
<1>8. ToCome = op.left /\ ToCome' = op.left - 1
  BY <1>1, <1>2, <1>3 DEF ToCome
<1>9. OpShape'
  BY <1>1, <1>2, <1>3 DEF IInv, OpShape
<1> HIDE DEF q
<1>10. QED
  BY <1>1, <1>2, <1>3, <1>4, <1>5, <1>6, <1>7, <1>8, <1>9 DEF MarkTokenFails, ImageChange, PageStep

LEMMA EraseFullPageStep == IInv /\ TypeOK' /\ EraseFullPage => PageStep
<1> SUFFICES ASSUME IInv, TypeOK', EraseFullPage PROVE PageStep
  OBVIOUS
<1> DEFINE p == page[op.slot]
           q == [base |-> Value(p), used |-> 0]
<1>1. op \in Ops /\ op.slot \in Slots /\ op.left \in Nat /\ op.left > 0
  BY DEF EraseFullPage, Incrementing, IInv, TypeOK, Ops
<1>2. op.step = "increment" /\ op.kind # "none" /\ op.kind # "program"
  BY <1>1, IdleFacts DEF EraseFullPage, Incrementing, IInv, OpShape
<1>3. /\ op'.kind = op.kind /\ op'.slot = op.slot /\ op'.code = op.code
      /\ op'.left = op.left /\ op'.step = "rewrite" /\ op'.saved = q
  BY <1>1, <1>2 DEF EraseFullPage, Ops
<1>4. p \in Pages /\ p.used = Tokens
  BY <1>1 DEF EraseFullPage, Full, IInv, TypeOK
<1>5. q \in Pages /\ q.base = Value(p) /\ q.used = 0
  BY <1>4, ValueType DEF Pages
<1>6. Image(op.slot) = p /\ Image(op.slot)' = q
  BY <1>2, <1>3, <1>4 DEF Image, Rewriting
<1>7. \A x \in Slots \ {op.slot} : Image(x)' = Image(x)
  BY <1>1, <1>2, <1>3 DEF EraseFullPage, Image, Rewriting, IInv, TypeOK
<1>8. ToCome = op.left /\ ToCome' = op.left - 1
  BY <1>1, <1>2, <1>3 DEF ToCome
<1>9. OpShape'
  BY <1>1, <1>2, <1>3 DEF IInv, OpShape
<1>10. QED
  BY <1>1, <1>2, <1>3, <1>4, <1>5, <1>6, <1>7, <1>8, <1>9 DEF EraseFullPage, ImageChange, PageStep

LEMMA WriteBackStep == IInv /\ TypeOK' /\ WriteBack => PageStep
<1> SUFFICES ASSUME IInv, TypeOK', WriteBack PROVE PageStep
  OBVIOUS
<1> DEFINE p == op.saved
<1>1. op \in Ops /\ op.slot \in Slots /\ op.left \in Nat /\ op.left > 0 /\ p \in Pages
  BY DEF WriteBack, IInv, TypeOK, OpShape, Ops
<1>2. op.step = "rewrite" /\ op.kind # "none"
  BY <1>1, IdleFacts DEF WriteBack, IInv, OpShape
<1>3. /\ op'.kind = op.kind /\ op'.slot = op.slot /\ op'.code = op.code
      /\ op'.left = op.left - 1 /\ op'.step = "increment"
  BY <1>1, <1>2 DEF WriteBack, Ops
<1>4. page'[op.slot] = p
  BY <1>1 DEF WriteBack, IInv, TypeOK
<1>5. Image(op.slot) = p /\ Image(op.slot)' = p
  BY <1>2, <1>3, <1>4 DEF Image, Rewriting
<1>6. \A x \in Slots \ {op.slot} : Image(x)' = Image(x)
  BY <1>1, <1>2, <1>3 DEF WriteBack, Image, Rewriting, IInv, TypeOK
<1>7. ToCome = op.left - 1 /\ ToCome' = op.left - 1
  BY <1>1, <1>2, <1>3 DEF ToCome
<1>8. OpShape'
  <2>1. op.kind = "program" => op.left <= 1 /\ op.code \in Seeds
                                 /\ Image(op.slot)' = [base |-> op.code, used |-> 0]
    BY <1>5 DEF IInv, OpShape
  <2>2. op.kind = "get" => op.slot # VerifySlot /\ op.left <= 1
    BY DEF IInv, OpShape
  <2>3. op.kind = "verify" => op.slot = VerifySlot
    BY DEF IInv, OpShape
  <2>4. QED
    BY <2>1, <2>2, <2>3, <1>1, <1>2, <1>3, <1>5 DEF OpShape
<1>9. QED
  BY <1>1, <1>2, <1>3, <1>5, <1>6, <1>7, <1>8 DEF WriteBack, ImageChange, PageStep

\* The page of a slot that is programmed says nothing until its record is written.
LEMMA ProgramStep ==
  ASSUME IInv, TypeOK', NEW s \in Slots, NEW c \in Seeds, Program(s, c) PROVE IInv'
<1>1. op = Idle /\ op.step = "increment" /\ op.kind = "none" /\ op.left = 0
  BY IdleFacts DEF Program
<1>2. /\ op'.kind = "program" /\ op'.slot = s /\ op'.code = c /\ op'.left = 1
      /\ op'.step = "rewrite" /\ op'.saved = [base |-> c, used |-> 0]
  BY DEF Program
<1>3. \A x \in Slots \ {s} : Image(x)' = page[x] /\ Image(x) = page[x]
  BY <1>1, <1>2 DEF Image, Rewriting, Program, IInv, TypeOK
<1>4. Image(op.slot)' = [base |-> c, used |-> 0]
  BY <1>2 DEF Image, Rewriting
<1>5. ToCome = 0 /\ ToCome' = 0
  BY <1>1, <1>2 DEF ToCome
<1>6. /\ Undefined(s)'
      /\ \A x \in Slots \ {s} : Undefined(x)' <=> Undefined(x)
  BY <1>1, <1>2 DEF Undefined, Program
<1>7. \A x \in Slots \ {s} : /\ last'[x] = last[x] /\ times'[x] = times[x]
                              /\ cut'[x] = cut[x]
  BY DEF Program, Forget, IInv, TypeOK
<1>8. OpShape'
  BY <1>2, <1>4 DEF OpShape
<1>9. ASSUME NEW x \in Slots, ~Undefined(x)' PROVE SlotSound(x)'
  BY <1>9, <1>1, <1>2, <1>3, <1>5, <1>6, <1>7 DEF IInv, SlotSound
<1>10. CodeSound'
  BY <1>2 DEF CodeSound
<1>11. ASSUME NEW x \in Slots \ {VerifySlot}, ~Undefined(x)' PROVE GapSound(x)'
  BY <1>11, <1>1, <1>2, <1>3, <1>6, <1>7 DEF IInv, GapSound
<1>12. QED
  BY <1>8, <1>9, <1>10, <1>11 DEF IInv

\* A command that ends, or is cut off, leaves the pages of all slots as they are.
LEMMA EndOfCommand ==
  ASSUME IInv, TypeOK', NEW s \in Slots, s = op.slot, op' = Idle, page' = page,
         \A x \in Slots \ {s} : /\ torn'[x] = torn[x] /\ last'[x] = last[x]
                                /\ times'[x] = times[x] /\ cut'[x] = cut[x],
         ~Undefined(s)' => SlotSound(s)' /\ (s # VerifySlot => GapSound(s)')
  PROVE  IInv'
<1>1. op'.kind = "none" /\ op'.left = 0 /\ op'.step = "increment"
  BY IdleFacts
<1>2. \A x \in Slots \ {s} : Image(x)' = page[x] /\ Image(x) = page[x]
  BY <1>1 DEF Image, Rewriting
<1>3. ToCome' = 0
  BY <1>1 DEF ToCome
<1>4. \A x \in Slots \ {s} : Undefined(x)' <=> Undefined(x)
  BY <1>1 DEF Undefined
<1>5. \A x \in Slots : page[x].base \in Int /\ page[x].used \in Int
  BY DEF IInv, TypeOK, Pages
<1>6. OpShape'
  BY <1>1 DEF OpShape
<1>7. ASSUME NEW x \in Slots, ~Undefined(x)' PROVE SlotSound(x)'
  <2>1. CASE x = s
    BY <2>1, <1>7
  <2>2. CASE x # s
    BY <2>2, <1>2, <1>3, <1>4, <1>5, <1>7 DEF IInv, SlotSound
  <2>3. QED
    BY <2>1, <2>2
<1>8. CodeSound'
  BY <1>1 DEF CodeSound
<1>9. ASSUME NEW x \in Slots \ {VerifySlot}, ~Undefined(x)' PROVE GapSound(x)'
  <2>1. CASE x = s
    BY <2>1, <1>9
  <2>2. CASE x # s
    BY <2>2, <1>1, <1>2, <1>4, <1>5, <1>9 DEF IInv, GapSound
  <2>3. QED
    BY <2>1, <2>2
<1>10. QED
  BY <1>6, <1>7, <1>8, <1>9 DEF IInv

LEMMA ReturnCodeStep ==
  ASSUME IInv, TypeOK', ReturnCode, NEW s \in Slots, s = op.slot PROVE IInv'
<1> DEFINE p == page[s]
<1>1. op \in Ops /\ s \in Slots /\ op.code \in Int /\ op.left = 0
  BY DEF ReturnCode, IInv, TypeOK, Ops
<1>2. op.kind \in {"get", "verify"} /\ op.step = "increment"
  BY <1>1 DEF ReturnCode, IInv, OpShape, Ops
<1>3. op' = Idle /\ op'.kind = "none" /\ op'.left = 0 /\ op'.step = "increment"
  BY IdleFacts DEF ReturnCode
<1>4. page' = page /\ torn' = torn
  BY DEF ReturnCode
<1>5. \A x \in Slots \ {s} : /\ torn'[x] = torn[x] /\ last'[x] = last[x]
                              /\ times'[x] = times[x] /\ cut'[x] = cut[x]
  BY <1>1 DEF ReturnCode, IInv, TypeOK
<1>6. Image(s) = p /\ Image(s)' = p /\ ToCome = 0 /\ ToCome' = 0
  BY <1>1, <1>2, <1>3, <1>4 DEF Image, Rewriting, ToCome
<1>7. (Undefined(s)' <=> torn[s]) /\ (Undefined(s) <=> torn[s])
  BY <1>2, <1>3, <1>4 DEF Undefined
<1>8. /\ p.base \in Int /\ p.used \in Int /\ last[s] \in Int /\ times[s] \in Int
      /\ cut'[s] = 0
  BY <1>1 DEF ReturnCode, IInv, TypeOK, Pages
<1>9. ASSUME ~Undefined(s)'
      PROVE  SlotSound(s)' /\ (s # VerifySlot => GapSound(s)')
  <2>1. /\ last[s] <= op.code
        /\ op.code = last[s] => times[s] = 1 /\ p.base + p.used = op.code + 1
        /\ \/ p.base + p.used = op.code + 1
           \/ p.base + p.used = op.code /\ p.used < LookAhead
    BY <1>2, <1>6, <1>7, <1>8, <1>9 DEF IInv, CodeSound
  <2>2. /\ p.base + p.used <= MaxCounter
        /\ times[s] <= 2
    BY <1>1, <1>6, <1>7, <1>8, <1>9 DEF IInv, SlotSound
  <2>3. /\ last'[s] = op.code
        /\ times'[s] = IF op.code = last[s] THEN times[s] + 1 ELSE 1
    BY <1>1, <1>7, <1>9 DEF ReturnCode, IInv, TypeOK
  <2>4. /\ times'[s] <= 2
        /\ \/ last'[s] < p.base + p.used
           \/ last'[s] = p.base + p.used /\ times'[s] = 1 /\ p.used < LookAhead
    BY <2>1, <2>3, <1>1, <1>8
  <2>5. SlotSound(s)'
    BY <2>2, <2>4, <1>6, <1>8 DEF SlotSound
  <2>6. p.base + p.used <= last'[s] + 1 + cut'[s] + 0
    BY <2>1, <2>3, <1>1, <1>8
  <2>7. GapSound(s)'
    BY <2>6, <1>3, <1>6 DEF GapSound
  <2>8. QED
    BY <2>5, <2>7
<1>10. QED
  BY <1>1, <1>3, <1>4, <1>5, <1>9, EndOfCommand

LEMMA WriteSlotStep ==
  ASSUME IInv, TypeOK', WriteSlot, NEW s \in Slots, s = op.slot PROVE IInv'
<1>1. op \in Ops /\ s \in Slots /\ op.left = 0 /\ op.kind = "program"
  BY DEF WriteSlot, IInv, TypeOK, Ops
<1>2. /\ op.step = "increment" /\ op.code \in Seeds
      /\ Image(s) = [base |-> op.code, used |-> 0]
  BY <1>1 DEF IInv, OpShape, Ops
<1>3. op' = Idle /\ op'.kind = "none" /\ op'.left = 0 /\ op'.step = "increment"
  BY IdleFacts DEF WriteSlot
<1>4. page' = page
  BY DEF WriteSlot
<1>5. \A x \in Slots \ {s} : /\ torn'[x] = torn[x] /\ last'[x] = last[x]
                              /\ times'[x] = times[x] /\ cut'[x] = cut[x]
  BY <1>1 DEF WriteSlot, IInv, TypeOK
<1>6. Image(s)' = [base |-> op.code, used |-> 0] /\ ToCome' = 0
  BY <1>2, <1>3, <1>4 DEF Image, Rewriting, ToCome
<1>7. last'[s] = op.code - 1 /\ times'[s] = 0 /\ cut'[s] = 0
  BY <1>1 DEF WriteSlot, IInv, TypeOK
<1>8. op.code \in 0 .. MaxCounter
  BY <1>2
<1>9. SlotSound(s)'
  BY <1>6, <1>7, <1>8 DEF SlotSound
<1>10. GapSound(s)'
  BY <1>3, <1>6, <1>7, <1>8 DEF GapSound
<1>11. QED
  BY <1>1, <1>3, <1>4, <1>5, <1>9, <1>10, EndOfCommand

LEMMA PowerLossStep ==
  ASSUME IInv, TypeOK', PowerLoss, NEW s \in Slots, s = op.slot PROVE IInv'
<1> DEFINE p == page[s]
<1>1. op \in Ops /\ s \in Slots /\ op.left \in Nat
  BY DEF IInv, TypeOK, Ops
<1>2. op.kind # "none"
  BY DEF PowerLoss, IInv, OpShape
<1>3. op' = Idle /\ op'.kind = "none" /\ op'.left = 0 /\ op'.step = "increment"
  BY IdleFacts DEF PowerLoss
<1>4. page' = page
  BY DEF PowerLoss
<1>5. \A x \in Slots \ {s} : /\ torn'[x] = torn[x] /\ last'[x] = last[x]
                              /\ times'[x] = times[x] /\ cut'[x] = cut[x]
  BY <1>1 DEF PowerLoss, Forget, IInv, TypeOK
<1>6. ASSUME ~Undefined(s)' PROVE SlotSound(s)' /\ (s # VerifySlot => GapSound(s)')
  <2>1. /\ op.step = "increment" /\ op.kind \in {"get", "verify"}
        /\ torn' = torn /\ last' = last /\ times' = times
    <3>1. ~torn'[s]
      BY <1>6 DEF Undefined
    <3>2. op.step # "rewrite" /\ op.kind # "program" /\ UNCHANGED <<torn, last, times>>
      BY <3>1, <1>1 DEF PowerLoss, IInv, TypeOK
    <3>3. QED
      BY <3>2, <1>1, <1>2 DEF Ops, Kinds
  <2>2. ~Undefined(s)
    BY <2>1, <1>6 DEF Undefined
  <2>3. Image(s) = p /\ Image(s)' = p /\ ToCome = op.left /\ ToCome' = 0
    BY <2>1, <1>1, <1>3, <1>4 DEF Image, Rewriting, ToCome
  <2>4. /\ p.base \in Int /\ p.used \in Int /\ last[s] \in Int /\ cut[s] \in Int
        /\ cut'[s] = cut[s] + 1
    BY <1>1 DEF PowerLoss, IInv, TypeOK, Pages
  <2>5. SlotSound(s)'
    BY <1>1, <2>1, <2>2, <2>3, <2>4 DEF IInv, SlotSound
  <2>6. s # VerifySlot => p.base + p.used <= last[s] + 1 + cut'[s]
    BY <1>1, <2>2, <2>3, <2>4 DEF IInv, GapSound
  <2>7. s # VerifySlot => GapSound(s)'
    BY <2>1, <2>3, <2>4, <2>6, <1>3 DEF GapSound
  <2>8. QED
    BY <2>5, <2>7
<1>7. QED
  BY <1>1, <1>3, <1>4, <1>5, <1>6, EndOfCommand

\* cmd_erase_slot clears the record, and no counter.
LEMMA PagesUntouched ==
  ASSUME IInv, TypeOK', UNCHANGED <<page, op, last, times, torn, cut>> PROVE IInv'
<1>1. OpShape'
  BY DEF IInv, OpShape, Image, Rewriting
<1>2. CodeSound'
  BY DEF IInv, CodeSound, Image, Rewriting, ToCome
<1>3. \A x \in Slots : Undefined(x)' <=> Undefined(x)
  BY DEF Undefined
<1>4. \A x \in Slots : ~Undefined(x)' => SlotSound(x)'
  BY <1>3 DEF IInv, SlotSound, Image, Rewriting, ToCome
<1>5. \A x \in Slots \ {VerifySlot} : ~Undefined(x)' => GapSound(x)'
  BY <1>3 DEF IInv, GapSound, Image, Rewriting, ToCome
<1>6. QED
  BY <1>1, <1>2, <1>4, <1>5 DEF IInv

LEMMA GetCodeStep ==
  ASSUME IInv, TypeOK', NEW s \in Slots, GetCode(s) PROVE IInv'
<1>1. Value(page[s]) \in 0 .. Modulus - 1
  BY ValueType DEF IInv, TypeOK
<1>2. Wrap(Value(page[s]) + 0) = Value(page[s])
  BY <1>1 DEF Wrap
<1>3. op' = Command("get", s, Wrap(Value(page[s]) + 0), 0 + 1)
  BY <1>2 DEF GetCode
<1>4. QED
  BY <1>3, StartCode DEF GetCode

LEMMA VerifyCodeStep ==
  ASSUME IInv, TypeOK', NEW k \in 0 .. LookAhead - 1, VerifyCode(k) PROVE IInv'
BY StartCode DEF VerifyCode

LEMMA IInvInit == Init => IInv
<1> SUFFICES ASSUME Init PROVE IInv
  OBVIOUS
<1>1. TypeOK
  BY TypeInit
<1>2. op = Idle /\ op.kind = "none" /\ op.step = "increment"
  BY IdleFacts DEF Init
<1>3. \A s \in Slots : Undefined(s)
  BY DEF Init, Undefined
<1>4. OpShape
  BY <1>2 DEF OpShape
<1>5. CodeSound
  BY <1>2 DEF CodeSound
<1>6. QED
  BY <1>1, <1>3, <1>4, <1>5 DEF IInv

LEMMA IInvStep == IInv /\ [Next]_vars => IInv'
<1> SUFFICES ASSUME IInv, [Next]_vars PROVE IInv'
  OBVIOUS
<1>1. TypeOK'
  BY TypeStep DEF IInv
<1>2. op.slot \in Slots
  BY DEF IInv, TypeOK, Ops
<1>3. ASSUME NEW s \in Slots, GetCode(s) PROVE IInv'
  BY <1>1, <1>3, GetCodeStep
<1>4. ASSUME NEW s \in Slots, EraseSlot(s) PROVE IInv'
  BY <1>1, <1>4, PagesUntouched DEF EraseSlot
<1>5. ASSUME NEW s \in Slots, NEW c \in Seeds, Program(s, c) PROVE IInv'
  BY <1>1, <1>5, ProgramStep
<1>6. ASSUME NEW k \in 0 .. LookAhead - 1, VerifyCode(k) PROVE IInv'
  BY <1>1, <1>6, VerifyCodeStep
<1>7. MarkToken => IInv'
  BY <1>1, MarkTokenStep, PageStepKeeps
<1>8. MarkTokenFails => IInv'
  BY <1>1, MarkTokenFailsStep, PageStepKeeps
<1>9. EraseFullPage => IInv'
  BY <1>1, EraseFullPageStep, PageStepKeeps
<1>10. WriteBack => IInv'
  BY <1>1, WriteBackStep, PageStepKeeps
<1>11. ReturnCode => IInv'
  BY <1>1, <1>2, ReturnCodeStep
<1>12. WriteSlot => IInv'
  BY <1>1, <1>2, WriteSlotStep
<1>13. PowerLoss => IInv'
  BY <1>1, <1>2, PowerLossStep
<1>14. UNCHANGED vars => IInv'
  BY <1>1, PagesUntouched DEF vars
<1>15. QED
  BY <1>3, <1>4, <1>5, <1>6, <1>7, <1>8, <1>9, <1>10, <1>11, <1>12, <1>13, <1>14 DEF Next

\* IInv holds of every reachable state.
THEOREM Invariance == Spec => []IInv
<1>1. Init => IInv
  BY IInvInit
<1>2. IInv /\ [Next]_vars => IInv'
  BY IInvStep
<1>3. QED
  BY <1>1, <1>2, PTL DEF Spec

-----------------------------------------------------------------------------
(* What follows from it *)

\* No counter leaves its u64 range and no page is charged with more tokens than it holds,
\* in increment_counter_page or anywhere else.
THEOREM TypeCorrect == Spec => []TypeOK
<1>1. IInv => TypeOK
  BY DEF IInv
<1>2. QED
  BY <1>1, Invariance, PTL

\* Where a slot's counter is defined it is the number on the page, without a wrap.
LEMMA DefinedCounter ==
  ASSUME IInv, NEW s \in Slots, ~Undefined(s)
  PROVE  /\ Counter(s) = Image(s).base + Image(s).used
         /\ Counter(s) \in 0 .. Modulus - 1
         /\ SlotSound(s)
<1>1. SlotSound(s) /\ Image(s) \in Pages
  BY ImageType DEF IInv
<1>2. Image(s).base \in Nat /\ Image(s).used \in Nat
  BY <1>1 DEF Pages
<1>3. ToCome \in Nat
  BY DEF ToCome, IInv, OpShape, TypeOK, Ops
<1>4. Image(s).base + Image(s).used <= MaxCounter
  BY <1>1, <1>2, <1>3 DEF SlotSound
<1>5. QED
  BY <1>1, <1>4, ValueInRange DEF Counter

\* However many slots, tokens and power losses there are: a code is handed out at most
\* twice, and none lies beyond the counter (get_code_from_hotp_slot and
\* validate_code_from_hotp_slot with increment_counter_page).
THEOREM AtMostTwice == Spec => []NoCodeMoreThanTwice
<1>1. IInv => NoCodeMoreThanTwice
  <2> SUFFICES ASSUME IInv, NEW s \in Slots, ~Undefined(s)
               PROVE  times[s] <= 2 /\ last[s] <= Counter(s)
    BY DEF NoCodeMoreThanTwice
  <2>1. last[s] \in Int /\ Counter(s) \in Int
    BY DefinedCounter DEF IInv, TypeOK
  <2>2. QED
    BY <2>1, DefinedCounter DEF SlotSound
<1>2. QED
  BY <1>1, Invariance, PTL

\* A slot that only hands out codes is ahead of its last code by no more than the power
\* losses since then, the command under way included.
THEOREM GapOnlyByPowerLoss == Spec => []NoGapWithoutPowerLoss
<1>1. IInv => NoGapWithoutPowerLoss
  <2> SUFFICES ASSUME IInv, NEW s \in Slots \ {VerifySlot}, ~Undefined(s)
               PROVE  Counter(s) <= last[s] + 1 + cut[s]
                                      + IF op.slot = s /\ op.kind = "get" THEN 1 ELSE 0
    BY DEF NoGapWithoutPowerLoss
  <2>1. last[s] \in Int /\ Counter(s) \in Int /\ cut[s] \in Int
    BY DefinedCounter DEF IInv, TypeOK
  <2>2. Counter(s) <= last[s] + 1 + cut[s]
                        + IF op.slot = s /\ op.kind = "get" /\ ToCome = 0 THEN 1 ELSE 0
    BY DefinedCounter DEF IInv, GapSound
  <2>3. QED
    BY <2>1, <2>2
<1>2. QED
  BY <1>1, Invariance, PTL

\* No step takes a slot back to an older code than the one it handed out last, unless the
\* slot is programmed anew or its page torn (write_to_slot, increment_counter_page).
THEOREM NeverBack == Spec => CodesNeverGoBack
<1> DEFINE Ordered == \A s \in Slots : ~Undefined(s) /\ ~Undefined(s)' => last'[s] >= last[s]
<1>1. IInv /\ [Next]_vars => Ordered
  <2> SUFFICES ASSUME IInv, [Next]_vars, NEW s \in Slots, ~Undefined(s), ~Undefined(s)'
               PROVE  last'[s] >= last[s]
    OBVIOUS
  <2>1. last[s] \in Int /\ op.slot \in Slots
    BY DEF IInv, TypeOK, Ops
  <2>2. ASSUME last' = last PROVE last'[s] >= last[s]
    BY <2>1, <2>2
  <2>3. ASSUME NEW x \in Slots, NEW c \in Seeds, Program(x, c) PROVE last'[s] >= last[s]
    <3>1. s # x
      BY <2>3 DEF Program, Undefined
    <3>2. QED
      BY <2>1, <2>3, <3>1 DEF Program, Forget, IInv, TypeOK
  <2>4. CASE ReturnCode
    <3>1. CASE s = op.slot
      <4>1. ~torn[s] /\ last[s] <= op.code
        BY <2>4, <3>1 DEF ReturnCode, Undefined, IInv, CodeSound
      <4>2. last'[s] = op.code
        BY <2>4, <3>1, <4>1 DEF ReturnCode, IInv, TypeOK
      <4>3. op.code \in Int
        BY DEF IInv, TypeOK, Ops
      <4>4. QED
        BY <2>1, <4>1, <4>2, <4>3
    <3>2. CASE s # op.slot
      BY <2>1, <2>4, <3>2 DEF ReturnCode, IInv, TypeOK
    <3>3. QED
      BY <3>1, <3>2
  <2>5. CASE WriteSlot
    <3>1. s # op.slot
      BY <2>5 DEF WriteSlot, Undefined
    <3>2. QED
      BY <2>1, <2>5, <3>1 DEF WriteSlot, IInv, TypeOK
  <2>6. CASE PowerLoss
    <3>1. CASE s = op.slot
      <4>1. ~torn'[s]
        BY DEF Undefined
      <4>2. last' = last
        BY <2>1, <2>6, <3>1, <4>1 DEF PowerLoss, IInv, TypeOK
      <4>3. QED
        BY <4>2, <2>2
    <3>2. CASE s # op.slot
      BY <2>1, <2>6, <3>2 DEF PowerLoss, Forget, IInv, TypeOK
    <3>3. QED
      BY <3>1, <3>2
  <2>7. QED
    BY <2>2, <2>3, <2>4, <2>5, <2>6
       DEF Next, vars, GetCode, EraseSlot, VerifyCode, MarkToken, MarkTokenFails,
           EraseFullPage, WriteBack
<1>2. Spec => [][Ordered]_vars
  BY <1>1, Invariance, PTL DEF Spec
<1>3. QED
  BY <1>2 DEF CodesNeverGoBack

-----------------------------------------------------------------------------
(* The flash protocol implements the atomic service *)

\* What HotpService's value is in a state of the flash protocol.
value == [s \in Slots |-> IF Undefined(s) THEN Unknown ELSE Counter(s)]

LEMMA ValueStep ==
  /\ \A x \in Slots : value[x] = IF Undefined(x) THEN Unknown ELSE Counter(x)
  /\ \A x \in Slots : value'[x] = IF Undefined(x)' THEN Unknown ELSE Counter(x)'
  /\ DOMAIN value = Slots /\ DOMAIN value' = Slots
BY DEF value

\* Where neither the page image nor the standing of any slot changes, no value does.
LEMMA SameValue ==
  ASSUME NEW S \in SUBSET Slots,
         \A x \in S : (Undefined(x)' <=> Undefined(x)) /\ Image(x)' = Image(x)
  PROVE  \A x \in S : value'[x] = value[x]
BY ValueStep DEF Counter

LEMMA Stutter ==
  ASSUME UNCHANGED <<last, times>>, \A x \in Slots : value'[x] = value[x]
  PROVE  UNCHANGED Service!vars
<1>1. value' = value
  BY DEF value
<1>2. QED
  BY <1>1 DEF value, Service!vars

\* Marking a token advances the counter, every other flash command leaves it alone.
LEMMA PageStepRefines ==
  ASSUME IInv, IInv', PageStep PROVE Service!Next \/ UNCHANGED Service!vars
<1> DEFINE s == op.slot
<1>1. s \in Slots /\ op'.slot = s /\ UNCHANGED <<last, times, torn>>
  BY DEF PageStep, IInv, TypeOK, Ops
<1>2. \A x \in Slots : Undefined(x)' <=> Undefined(x)
  BY DEF PageStep, Undefined
<1>3. \A x \in Slots \ {s} : value'[x] = value[x]
  BY <1>2, SameValue DEF PageStep
<1>4. CASE Undefined(s)
  BY <1>1, <1>2, <1>3, <1>4, ValueStep, Stutter
<1>5. CASE ~Undefined(s)
  <2>1. PICK p \in Pages, q \in Pages : ImageChange(p, q)
    BY DEF PageStep
  <2>2. value[s] = p.base + p.used /\ value[s] \in Int
    BY <1>1, <1>5, <2>1, ValueStep, DefinedCounter DEF ImageChange
  <2>3. value'[s] = q.base + q.used
    <3>1. Counter(s)' = Value(q)
      BY <1>1, <2>1 DEF Counter, ImageChange
    <3>2. SlotSound(s)'
      BY <1>1, <1>2, <1>5 DEF IInv
    <3>3. q.base \in Int /\ q.used \in Int
      BY DEF Pages
    <3>4. ToCome' \in Nat
      BY DEF PageStep
    <3>5. q.base + q.used <= MaxCounter
      BY <1>1, <2>1, <3>2, <3>3, <3>4 DEF SlotSound, ImageChange
    <3>6. QED
      BY <1>1, <1>2, <1>5, <3>1, <3>5, ValueInRange, ValueStep
  <2>4. value'[s] = value[s] \/ value'[s] = value[s] + 1
    <3>1. p.base \in Int /\ p.used \in Int /\ q.base \in Int /\ q.used \in Int
      BY DEF Pages
    <3>2. p.used = Tokens /\ q.base = Value(p) => q.base = p.base + p.used
      BY <1>1, <1>5, <2>1, DefinedCounter DEF ImageChange, Counter
    <3>3. QED
      BY <2>1, <2>2, <2>3, <3>1, <3>2 DEF ImageChange
  <2>5. CASE value'[s] = value[s]
    BY <1>1, <1>3, <2>5, Stutter
  <2>6. CASE value'[s] = value[s] + 1
    <3>1. value' = [value EXCEPT ![s] = @ + 1]
      BY <1>1, <1>3, <2>6, ValueStep DEF value
    <3>2. value[s] # Unknown
      BY <2>2, UnknownAssumption
    <3>3. Service!Advance(s)
      BY <1>1, <3>1, <3>2 DEF value, Service!Advance
    <3>4. QED
      BY <1>1, <3>3 DEF Service!Next
  <2>7. QED
    BY <2>4, <2>5, <2>6
<1>6. QED
  BY <1>4, <1>5

\* A command that starts, and one that clears a record only, changes nothing in the service.
LEMMA StartRefines ==
  ASSUME op = Idle, op'.step = "increment", op'.kind # "program",
         UNCHANGED <<page, last, times, torn>>
  PROVE  UNCHANGED Service!vars
<1>1. op.step = "increment" /\ op.kind = "none"
  BY IdleFacts
<1>2. \A x \in Slots : (Undefined(x)' <=> Undefined(x)) /\ Image(x)' = Image(x)
  BY <1>1 DEF Undefined, Image, Rewriting
<1>3. QED
  BY <1>2, SameValue, Stutter

LEMMA ProgramRefines ==
  ASSUME IInv, NEW s \in Slots, NEW c \in Seeds, Program(s, c) PROVE Service!Next
<1>1. op.step = "increment" /\ op.kind = "none"
  BY IdleFacts DEF Program
<1>2. op'.step = "rewrite" /\ op'.kind = "program" /\ op'.slot = s
  BY DEF Program
<1>3. \A x \in Slots \ {s} : (Undefined(x)' <=> Undefined(x)) /\ Image(x)' = Image(x)
  BY <1>1, <1>2 DEF Undefined, Image, Rewriting, Program, IInv, TypeOK
<1>4. Undefined(s)'
  BY <1>2 DEF Undefined
<1>5. \A x \in Slots \ {s} : value'[x] = value[x]
  BY <1>3, SameValue
<1>6. value' = [value EXCEPT ![s] = Unknown]
  BY <1>4, <1>5, ValueStep DEF value
<1>7. Service!Forget(s)
  BY <1>6 DEF Program, Forget, value, Service!Forget
<1>8. QED
  BY <1>7 DEF Service!Next

\* The other slots' values do not change when a command ends.
LEMMA EndLeavesOthers ==
  ASSUME NEW s \in Slots, s = op.slot, op' = Idle, page' = page,
         \A x \in Slots \ {s} : torn'[x] = torn[x]
  PROVE  \A x \in Slots \ {s} : value'[x] = value[x]
<1>1. op'.step = "increment" /\ op'.kind = "none"
  BY IdleFacts
<1>2. \A x \in Slots \ {s} : (Undefined(x)' <=> Undefined(x)) /\ Image(x)' = Image(x)
  BY <1>1 DEF Undefined, Image, Rewriting
<1>3. QED
  BY <1>2, SameValue

LEMMA ReturnCodeRefines ==
  ASSUME IInv, ReturnCode, NEW s \in Slots, s = op.slot
  PROVE  Service!Next \/ UNCHANGED Service!vars
<1> DEFINE p == page[s]
<1>1. op.step = "increment" /\ op.kind \in {"get", "verify"} /\ op.left = 0 /\ op \in Ops
  BY DEF ReturnCode, IInv, OpShape, TypeOK, Ops
<1>2. op' = Idle /\ op'.step = "increment" /\ op'.kind = "none"
  BY IdleFacts DEF ReturnCode
<1>3. page' = page /\ torn' = torn
  BY DEF ReturnCode
<1>4. Image(s) = p /\ Image(s)' = p /\ ToCome = 0
  BY <1>1, <1>2, <1>3 DEF Image, Rewriting, ToCome
<1>5. (Undefined(s)' <=> torn[s]) /\ (Undefined(s) <=> torn[s])
  BY <1>1, <1>2, <1>3 DEF Undefined
<1>6. value'[s] = value[s]
  BY <1>4, <1>5, ValueStep DEF Counter
<1>7. value' = value
  BY <1>2, <1>3, <1>6, EndLeavesOthers DEF value
<1>8. CASE torn[s]
  BY <1>7, <1>8 DEF ReturnCode, value, Service!vars
<1>9. CASE ~torn[s]
  <2>1. p.base \in Int /\ p.used \in Int /\ last[s] \in Int /\ op.code \in 0 .. Modulus - 1
    BY <1>1 DEF IInv, TypeOK, Pages, Ops
  <2>2. /\ last[s] <= op.code
        /\ op.code = last[s] => times[s] = 1
        /\ p.base + p.used \in {op.code, op.code + 1}
    BY <1>1, <1>4, <1>9, <2>1 DEF IInv, CodeSound
  <2>3. value[s] = p.base + p.used
    BY <1>4, <1>5, <1>9, ValueStep, DefinedCounter
  <2>4. /\ value[s] # Unknown
        /\ value[s] \in {op.code, op.code + 1}
        /\ op.code > last[s] \/ (op.code = last[s] /\ times[s] = 1)
    BY <2>1, <2>2, <2>3, UnknownAssumption
  <2>5. /\ last'  = [last EXCEPT ![s] = op.code]
        /\ times' = [times EXCEPT ![s] = IF op.code = last[s] THEN @ + 1 ELSE 1]
    BY <1>9 DEF ReturnCode
  <2>6. Service!Issue(s, op.code)
    BY <1>7, <2>4, <2>5 DEF value, Service!Issue
  <2>7. QED
    BY <2>1, <2>6 DEF Service!Next
<1>10. QED
  BY <1>8, <1>9

LEMMA WriteSlotRefines ==
  ASSUME IInv, WriteSlot, NEW s \in Slots, s = op.slot PROVE Service!Next
<1>1. op.kind = "program" /\ op.left = 0 /\ op.step = "increment" /\ op.code \in Seeds
  BY DEF WriteSlot, IInv, OpShape, TypeOK, Ops
<1>2. op' = Idle /\ op'.step = "increment" /\ op'.kind = "none"
  BY IdleFacts DEF WriteSlot
<1>3. page' = page /\ ~torn'[s] /\ \A x \in Slots \ {s} : torn'[x] = torn[x]
  BY DEF WriteSlot, IInv, TypeOK
<1>4. Image(s) = [base |-> op.code, used |-> 0]
  BY <1>1 DEF IInv, OpShape
<1>5. Image(s)' = [base |-> op.code, used |-> 0]
  BY <1>1, <1>2, <1>3, <1>4 DEF Image, Rewriting
<1>6. op.code \in 0 .. MaxCounter
  BY <1>1
<1>7. value'[s] = op.code
  BY <1>2, <1>3, <1>5, <1>6, ValueStep DEF Undefined, Counter, Value, Wrap
<1>8. value' = [value EXCEPT ![s] = op.code]
  BY <1>2, <1>3, <1>7, EndLeavesOthers, ValueStep DEF value
<1>9. Service!Program(s, op.code)
  BY <1>8 DEF WriteSlot, value, Service!Program
<1>10. QED
  BY <1>6, <1>9 DEF Service!Next

LEMMA PowerLossRefines ==
  ASSUME IInv, PowerLoss, NEW s \in Slots, s = op.slot
  PROVE  Service!Next \/ UNCHANGED Service!vars
<1>1. op' = Idle /\ op'.step = "increment" /\ op'.kind = "none" /\ page' = page
  BY IdleFacts DEF PowerLoss
<1>2. CASE op.step = "rewrite" \/ op.kind = "program"
  <2>1. /\ torn' = [torn EXCEPT ![s] = TRUE]
        /\ last' = [last EXCEPT ![s] = -1] /\ times' = [times EXCEPT ![s] = 0]
    BY <1>2 DEF PowerLoss, Forget
  <2>2. Undefined(s)' /\ \A x \in Slots \ {s} : torn'[x] = torn[x]
    BY <2>1 DEF Undefined, IInv, TypeOK
  <2>3. value' = [value EXCEPT ![s] = Unknown]
    BY <1>1, <2>2, EndLeavesOthers, ValueStep DEF value
  <2>4. Service!Forget(s)
    BY <2>1, <2>3 DEF value, Service!Forget
  <2>5. QED
    BY <2>4 DEF Service!Next
<1>3. CASE op.step # "rewrite" /\ op.kind # "program"
  <2>1. UNCHANGED <<torn, last, times>>
    BY <1>3 DEF PowerLoss
  <2>2. \A x \in Slots : (Undefined(x)' <=> Undefined(x)) /\ Image(x)' = Image(x)
    BY <1>1, <1>3, <2>1 DEF Undefined, Image, Rewriting
  <2>3. QED
    BY <2>1, <2>2, SameValue, Stutter
<1>4. QED
  BY <1>2, <1>3

LEMMA ServiceStep == IInv /\ IInv' /\ [Next]_vars => [Service!Next]_Service!vars
<1> SUFFICES ASSUME IInv, IInv', [Next]_vars PROVE Service!Next \/ UNCHANGED Service!vars
  OBVIOUS
<1>1. op.slot \in Slots
  BY DEF IInv, TypeOK, Ops
<1>2. ASSUME NEW s \in Slots, GetCode(s) PROVE UNCHANGED Service!vars
  BY <1>2, StartRefines DEF GetCode, Command
<1>3. ASSUME NEW s \in Slots, EraseSlot(s) PROVE UNCHANGED Service!vars
  <2>1. op' = Idle
    BY <1>3 DEF EraseSlot
  <2>2. QED
    BY <1>3, <2>1, IdleFacts, StartRefines DEF EraseSlot
<1>4. ASSUME NEW s \in Slots, NEW c \in Seeds, Program(s, c) PROVE Service!Next
  BY <1>4, ProgramRefines
<1>5. ASSUME NEW k \in 0 .. LookAhead - 1, VerifyCode(k) PROVE UNCHANGED Service!vars
  BY <1>5, StartRefines DEF VerifyCode, Command
<1>6. MarkToken \/ MarkTokenFails \/ EraseFullPage \/ WriteBack => PageStep
  BY MarkTokenStep, MarkTokenFailsStep, EraseFullPageStep, WriteBackStep DEF IInv
<1>7. CASE UNCHANGED vars
  <2>1. \A x \in Slots : (Undefined(x)' <=> Undefined(x)) /\ Image(x)' = Image(x)
    BY <1>7 DEF vars, Undefined, Image, Rewriting
  <2>2. QED
    BY <1>7, <2>1, SameValue, Stutter DEF vars
<1>8. QED
  BY <1>1, <1>2, <1>3, <1>4, <1>5, <1>6, <1>7, PageStepRefines, ReturnCodeRefines,
     WriteSlotRefines, PowerLossRefines DEF Next

\* The token pages, the retry of a token that did not take, the rewriting of a full page and
\* the loss of power at any flash command implement the atomic counter of HotpService.
THEOREM Refinement == Spec => RefinesService
<1>1. Init => Service!Init
  BY DEF Init, Undefined, Service!Init
<1>2. Spec => [][Service!Next]_Service!vars
  BY ServiceStep, Invariance, PTL DEF Spec
<1>3. QED
  BY <1>1, <1>2, PTL DEF Spec, RefinesService, Service!Spec
=============================================================================
