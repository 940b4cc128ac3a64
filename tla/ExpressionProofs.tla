-------------------------- MODULE ExpressionProofs --------------------------
(***************************************************************************)
(* Proofs about ExprGen, for every number of scratch registers, nesting    *)
(* depth and number of arguments; and about Sema, for all types of         *)
(* literals, variables and functions, and expressions of any length.       *)
(***************************************************************************)
EXTENDS ExprGen, Sema, SequenceTheorems, FiniteSetTheorems, FunctionTheorems,
        WellFoundedInduction, TLAPS

-----------------------------------------------------------------------------
(* The inductive invariant of the registers *)

\* How the nodes being generated share out the operands: each node's own
\* start where the enclosing node's end.
FramesInv ==
    /\ frames # <<>> => frames[1].base = 0
    /\ \A f \in 1..Len(frames) :
         /\ frames[f].kind \in {"inplace", "fresh"} => frames[f].arity = 2
         /\ frames[f].kind = "through" => frames[f].arity = 1
    /\ \A f \in 1..(Len(frames) - 1) :
         /\ frames[f].base <= frames[f + 1].base
         /\ frames[f + 1].base < frames[f].base + frames[f].arity
    /\ pc \in {"idle", "function"} => frames = <<>> /\ ops = <<>>
    /\ pc = "apply" => frames # <<>> /\ Len(ops) = Top.base + Top.arity
    /\ pc = "eval" /\ frames = <<>> => ops = <<>>
    /\ pc = "eval" /\ frames # <<>> =>
         Top.base <= Len(ops) /\ Len(ops) < Top.base + Top.arity
    /\ pc = "value" /\ frames = <<>> => Len(ops) <= 1
    /\ pc = "value" /\ frames # <<>> =>
         Top.base < Len(ops) /\ Len(ops) <= Top.base + Top.arity

IInv == TypeOK /\ OperandsApart /\ OperandsSurvive /\ OnlyFirstLeaks
          /\ AbortOnlyWhenFull /\ FramesInv

-----------------------------------------------------------------------------
(* Sequences of operands *)

\* Overwriting registers changes which operands are intact, nothing else.
LEMMA OverwriteProperties ==
    ASSUME NEW s \in Seq(Operand), NEW S
    PROVE  /\ Overwrite(s, S) \in Seq(Operand)
           /\ Len(Overwrite(s, S)) = Len(s)
           /\ \A a \in 1..Len(s) :
                /\ Overwrite(s, S)[a].reg = s[a].reg
                /\ Overwrite(s, S)[a].intact <=> s[a].intact /\ s[a].reg \notin S
  <1> DEFINE o == Overwrite(s, S)
  <1>1. Len(s) \in Nat /\ \A a \in 1..Len(s) : s[a] \in Operand
    BY LenProperties, ElementOfSeq
  <1>2. \A a \in 1..Len(s) : o[a] = [s[a] EXCEPT !.intact = s[a].intact /\ s[a].reg \notin S]
    BY DEF Overwrite
  <1>3. \A a \in 1..Len(s) : /\ o[a] \in Operand
                             /\ o[a].reg = s[a].reg
                             /\ o[a].intact <=> s[a].intact /\ s[a].reg \notin S
    BY <1>1, <1>2 DEF Operand
  <1>4. o \in [1..Len(s) -> Operand]
    BY <1>3 DEF Overwrite
  <1>5. o \in Seq(Operand)
    BY <1>1, <1>4, SeqDef
  <1>6. Len(o) = Len(s)
    BY <1>1, <1>4, <1>5, LenProperties
  <1> QED BY <1>3, <1>5, <1>6

\* A node's value comes after the operands that were there before it, and
\* writing it loses those that were held in its register.
LEMMA PushValueProperties ==
    ASSUME NEW s \in Seq(Operand), NEW r \in Regs
    PROVE  /\ PushValue(s, r) \in Seq(Operand)
           /\ Len(PushValue(s, r)) = Len(s) + 1
           /\ \A a \in 1..Len(s) :
                /\ PushValue(s, r)[a].reg = s[a].reg
                /\ PushValue(s, r)[a].intact <=> s[a].intact /\ s[a].reg # r
           /\ PushValue(s, r)[Len(s) + 1].reg = r
           /\ PushValue(s, r)[Len(s) + 1].intact
  <1> DEFINE v == [reg |-> r, intact |-> TRUE]
             o == Overwrite(s, {r})
  <1>1. v \in Operand
    BY DEF Operand
  <1>2. /\ o \in Seq(Operand) /\ Len(o) = Len(s)
        /\ \A a \in 1..Len(s) : /\ o[a].reg = s[a].reg
                                /\ o[a].intact <=> s[a].intact /\ s[a].reg # r
    BY OverwriteProperties
  <1>3. PushValue(s, r) = Append(o, v)
    BY DEF PushValue
  <1> HIDE DEF o
  <1>4. /\ Append(o, v) \in Seq(Operand)
        /\ Len(Append(o, v)) = Len(o) + 1
        /\ \A a \in 1..Len(o) : Append(o, v)[a] = o[a]
        /\ Append(o, v)[Len(o) + 1] = v
    BY <1>1, <1>2, AppendProperties
  <1> QED BY <1>2, <1>3, <1>4

\* What is left when the operands past the n-th are dropped
LEMMA PrefixProperties ==
    ASSUME NEW S, NEW s \in Seq(S), NEW n \in 0..Len(s)
    PROVE  /\ SubSeq(s, 1, n) \in Seq(S)
           /\ Len(SubSeq(s, 1, n)) = n
           /\ \A a \in 1..n : SubSeq(s, 1, n)[a] = s[a]
  <1>1. Len(s) \in Nat /\ \A a \in 1..Len(s) : s[a] \in S
    BY LenProperties, ElementOfSeq
  <1>2. \A a \in 1..n : s[a] \in S
    BY <1>1
  <1>3. n \in Int /\ 1 \in Int
    BY <1>1
  <1>4. /\ SubSeq(s, 1, n) \in Seq(S)
        /\ Len(SubSeq(s, 1, n)) = IF 1 <= n THEN n - 1 + 1 ELSE 0
        /\ \A a \in 1..(n - 1 + 1) : SubSeq(s, 1, n)[a] = s[1 + a - 1]
    BY <1>2, <1>3, SubSeqProperties
  <1> QED BY <1>1, <1>4

\* scratch_alloc finds a register that is not marked, if there is one.
LEMMA FirstFreeProperties ==
    ASSUME NEW t, \E r \in Regs : ~t[r]
    PROVE  FirstFree(t) \in Regs /\ ~t[FirstFree(t)]
  <1> DEFINE T == {r \in Regs : ~t[r]}
             Less == OpToRel(<, Nat)
  <1>1. T \subseteq Nat /\ T # {}
    BY NREGAssumption DEF Regs
  <1>2. IsWellFoundedOn(Less, Nat)
    BY NatLessThanWellFounded
  <1>3. \A x, y \in Nat : x < y => <<x, y>> \in Less
    BY DEF OpToRel
  <1> HIDE DEF T, Less
  <1>4. \E x \in T : \A y \in T : ~(<<y, x>> \in Less)
    BY <1>1, <1>2, WFMin
  <1>5. PICK x \in T : \A y \in T : ~(y < x)
    BY <1>1, <1>3, <1>4
  <1>6. \E r \in Regs : ~t[r] /\ \A q \in Regs : q < r => t[q]
    BY <1>5 DEF T
  <1> QED BY <1>6 DEF FirstFree

\* An interval of n numbers has n elements.
LEMMA IntervalCardinality ==
    ASSUME NEW n \in Nat
    PROVE  /\ IsFiniteSet(1..n) /\ Cardinality(1..n) = n
           /\ IsFiniteSet(0..(n - 1)) /\ Cardinality(0..(n - 1)) = n
  <1>1. 0 \in Int /\ 1 \in Int /\ n \in Int /\ n - 1 \in Int
    OBVIOUS
  <1>2. IsFiniteSet(1..n) /\ Cardinality(1..n) = IF 1 > n THEN 0 ELSE n - 1 + 1
    BY <1>1, FS_Interval
  <1>3. IsFiniteSet(0..(n - 1))
        /\ Cardinality(0..(n - 1)) = IF 0 > n - 1 THEN 0 ELSE (n - 1) - 0 + 1
    BY <1>1, FS_Interval
  <1> QED BY <1>2, <1>3

\* What the type invariant says of each operand
LEMMA OperandTypes ==
    ASSUME NEW s \in Seq(Operand)
    PROVE  Len(s) \in Nat /\ \A a \in 1..Len(s) : s[a].reg \in Regs /\ s[a].intact \in BOOLEAN
  <1>1. Len(s) \in Nat /\ \A a \in 1..Len(s) : s[a] \in Operand
    BY LenProperties, ElementOfSeq
  <1> QED BY <1>1 DEF Operand

\* Distinct registers are at most NREG.
LEMMA OperandsAtMostRegisters ==
    ASSUME TypeOK, OperandsApart
    PROVE  Len(ops) <= NREG
  <1> DEFINE f == [a \in 1..Len(ops) |-> ops[a].reg]
  <1>1. Len(ops) \in Nat /\ \A a \in 1..Len(ops) : ops[a].reg \in Regs
    BY OperandTypes DEF TypeOK
  <1>2. f \in Injection(1..Len(ops), Regs)
    <2>1. f \in [1..Len(ops) -> Regs]
      BY <1>1
    <2>2. \A a, b \in 1..Len(ops) : f[a] = f[b] => a = b
      BY DEF OperandsApart
    <2> HIDE DEF f
    <2> QED BY <2>1, <2>2, Fun_IsInj
  <1>3. IsFiniteSet(Regs) /\ Cardinality(Regs) = NREG
    BY NREGAssumption, IntervalCardinality DEF Regs
  <1>4. Cardinality(1..Len(ops)) = Len(ops)
    BY <1>1, IntervalCardinality
  <1> HIDE DEF f
  <1>5. Cardinality(1..Len(ops)) <= Cardinality(Regs)
    BY <1>2, <1>3, FS_Injection
  <1> QED BY <1>3, <1>4, <1>5

\* When every register is marked, all but one hold an operand.
LEMMA FullMeansOperands ==
    ASSUME TypeOK, OnlyFirstLeaks, \A r \in Regs : tbl[r]
    PROVE  Len(ops) >= NREG - 1
  <1> DEFINE R == 1..(NREG - 1)
             f == [r \in R |-> CHOOSE a \in 1..Len(ops) : ops[a].reg = r]
  <1>1. Len(ops) \in Nat /\ NREG \in Nat
    BY LenProperties, NREGAssumption DEF TypeOK
  <1>2. \A r \in R : \E a \in 1..Len(ops) : ops[a].reg = r
    BY <1>1 DEF OnlyFirstLeaks, Regs
  <1>3. \A r \in R : f[r] \in 1..Len(ops) /\ ops[f[r]].reg = r
    BY <1>2
  <1>4. f \in Injection(R, 1..Len(ops))
    <2>1. f \in [R -> 1..Len(ops)]
      BY <1>3
    <2>2. \A p, q \in R : f[p] = f[q] => p = q
      BY <1>3
    <2> HIDE DEF f
    <2> QED BY <2>1, <2>2, Fun_IsInj
  <1>5. IsFiniteSet(1..Len(ops)) /\ Cardinality(1..Len(ops)) = Len(ops)
        /\ Cardinality(R) = NREG - 1
    BY <1>1, IntervalCardinality, NREGAssumption
  <1> HIDE DEF f, R
  <1>6. Cardinality(R) <= Cardinality(1..Len(ops))
    BY <1>4, <1>5, FS_Injection
  <1> QED BY <1>1, <1>5, <1>6

-----------------------------------------------------------------------------
(* The inductive invariant *)

\* The registers of the operands past the b-th
RegsPast(b) == {ops[a].reg : a \in (b + 1)..Len(ops)}

\* The numbers of operands and frames, and what is known of the top frame
LEMMA Counts ==
    ASSUME IInv
    PROVE  /\ TypeOK /\ FramesInv
           /\ ops \in Seq(Operand) /\ frames \in Seq(Frame)
           /\ Len(ops) \in Nat /\ Len(frames) \in Nat
           /\ \A a \in 1..Len(ops) : ops[a].reg \in Regs
           /\ \A f \in 1..Len(frames) : frames[f].base \in Nat /\ frames[f].arity \in Nat
           /\ frames # <<>> => Len(frames) \in 1..Len(frames)
           /\ frames = <<>> <=> Len(frames) = 0
  <1>1. ops \in Seq(Operand) /\ frames \in Seq(Frame) /\ TypeOK /\ FramesInv
    BY DEF IInv, TypeOK
  <1>2. Len(ops) \in Nat /\ \A a \in 1..Len(ops) : ops[a].reg \in Regs
    BY <1>1, OperandTypes
  <1>3. Len(frames) \in Nat /\ \A f \in 1..Len(frames) : frames[f] \in Frame
    BY <1>1, LenProperties, ElementOfSeq
  <1>4. frames = <<>> <=> Len(frames) = 0
    BY <1>1, EmptySeq
  <1> QED BY <1>1, <1>2, <1>3, <1>4 DEF Frame

\* A node's value, in register r, takes the place of the operands past the
\* b-th: r is one of their registers or one that was not marked, and their
\* other registers are freed.
LEMMA PushKeepsOperands ==
    ASSUME IInv, NEW b \in 0..Len(ops), NEW r \in Regs,
           r \in RegsPast(b) \/ ~tbl[r],
           NEW s \in Seq(Operand), Len(s) = b,
           \A a \in 1..b :
             /\ s[a].reg = ops[a].reg
             /\ ops[a].intact /\ ~s[a].intact => s[a].reg \in Volatile,
           ops' = PushValue(s, r),
           \A q \in Regs : tbl'[q] <=> q = r \/ (tbl[q] /\ q \notin RegsPast(b))
    PROVE  /\ ops' \in Seq(Operand) /\ Len(ops') = b + 1
           /\ OperandsApart' /\ OperandsSurvive' /\ OnlyFirstLeaks'
  <1>1. Len(ops) \in Nat /\ b \in Nat /\ b <= Len(ops)
    BY Counts
  <1>2. /\ ops' \in Seq(Operand) /\ Len(ops') = b + 1
        /\ \A a \in 1..b : /\ ops'[a].reg = ops[a].reg
                           /\ ops'[a].intact <=> s[a].intact /\ s[a].reg # r
        /\ ops'[b + 1].reg = r /\ ops'[b + 1].intact
    <2>1. /\ PushValue(s, r) \in Seq(Operand) /\ Len(PushValue(s, r)) = Len(s) + 1
          /\ \A a \in 1..Len(s) : /\ PushValue(s, r)[a].reg = s[a].reg
                                  /\ PushValue(s, r)[a].intact <=> s[a].intact /\ s[a].reg # r
          /\ PushValue(s, r)[Len(s) + 1].reg = r /\ PushValue(s, r)[Len(s) + 1].intact
      <3>1. s \in Seq(Operand) /\ r \in Regs
        OBVIOUS
      <3> QED BY ONLY <3>1, PushValueProperties
    <2> QED BY <2>1
  <1>4. \A a \in 1..b : /\ ops[a].reg \in Regs
                        /\ ops[a].reg \notin RegsPast(b)
                        /\ tbl[ops[a].reg]
                        /\ ops[a].reg # r
    <2> TAKE a \in 1..b
    <2>1. a \in 1..Len(ops) /\ \A c \in (b + 1)..Len(ops) : c \in 1..Len(ops) /\ c # a
      BY <1>1
    <2>2. ops[a].reg \notin RegsPast(b)
      BY <2>1 DEF IInv, OperandsApart, RegsPast
    <2>3. tbl[ops[a].reg] /\ ops[a].reg \in Regs
      BY <2>1, Counts DEF IInv, OperandsApart
    <2> QED BY <2>2, <2>3
  <1>5. OperandsApart'
    <2>1. \A a, c \in 1..b : a # c => ops[a].reg # ops[c].reg
      BY <1>1 DEF IInv, OperandsApart
    <2>2. \A a \in 1..(b + 1) : a \in 1..b \/ a = b + 1
      BY <1>1
    <2>3. \A a \in 1..b : ops'[a].reg # ops'[b + 1].reg /\ tbl'[ops'[a].reg]
      BY <1>2, <1>4
    <2>4. tbl'[ops'[b + 1].reg]
      BY <1>2
    <2>5. \A a, c \in 1..b : a # c => ops'[a].reg # ops'[c].reg
      BY <1>2, <2>1
    <2>6. \A a, c \in 1..(b + 1) : a # c => ops'[a].reg # ops'[c].reg
      BY <2>2, <2>3, <2>5
    <2>7. \A a \in 1..(b + 1) : tbl'[ops'[a].reg]
      BY <2>2, <2>3, <2>4
    <2> QED BY <1>2, <2>6, <2>7 DEF OperandsApart
  <1>6. OperandsSurvive'
    <2>1. \A a \in 1..b : ops[a].intact \/ ops[a].reg \in Volatile
      BY <1>1 DEF IInv, OperandsSurvive
    <2>2. \A a \in 1..b : ops'[a].intact \/ ops'[a].reg \in Volatile
      BY <1>2, <1>4, <2>1
    <2>3. \A a \in 1..(b + 1) : a \in 1..b \/ a = b + 1
      BY <1>1
    <2> QED BY <1>2, <2>2, <2>3 DEF OperandsSurvive
  <1>7. OnlyFirstLeaks'
    <2> SUFFICES ASSUME NEW q \in Regs, tbl'[q], q # 0
                 PROVE  \E a \in 1..(b + 1) : ops'[a].reg = q
      <3> QED BY <1>2 DEF OnlyFirstLeaks
    <2>1. CASE q = r
      BY <2>1, <1>1, <1>2
    <2>2. CASE q # r
      <3>1. tbl[q] /\ q \notin RegsPast(b)
        BY <2>2
      <3>2. PICK a \in 1..Len(ops) : ops[a].reg = q
        BY <3>1 DEF IInv, OnlyFirstLeaks
      <3>3. a \in 1..b
        BY <1>1, <3>1, <3>2 DEF RegsPast
      <3>4. ops'[a].reg = q /\ a \in 1..(b + 1)
        BY <1>1, <1>2, <3>2, <3>3
      <3> QED BY <3>4
    <2> QED BY <2>1, <2>2
  <1> QED BY <1>2, <1>5, <1>6, <1>7

\* A node that has its operands replaces them by its value.
LEMMA NodeApplied ==
    ASSUME IInv, pc = "apply",
           NEW r \in Regs, r \in ArgRegs \/ ~tbl[r],
           NEW s \in Seq(Operand), Len(s) = Top.base,
           \A a \in 1..Top.base :
             /\ s[a].reg = ops[a].reg
             /\ ops[a].intact /\ ~s[a].intact => s[a].reg \in Volatile,
           ops' = PushValue(s, r),
           tbl' \in [Regs -> BOOLEAN],
           \A q \in Regs : tbl'[q] <=> q = r \/ (tbl[q] /\ q \notin ArgRegs),
           frames' = PopFrame, pc' = "value", stmt' = stmt
    PROVE  IInv'
  <1> DEFINE n == Len(frames)
             b == Top.base
  <1>1. /\ Len(ops) = b + Top.arity /\ n \in Nat \ {0} /\ b \in Nat /\ Top.arity \in Nat
        /\ frames \in Seq(Frame) /\ b \in 0..Len(ops)
        /\ \A f \in 1..n : frames[f].base \in Nat /\ frames[f].arity \in Nat
    BY Counts DEF FramesInv, Top
  <1>2. /\ ops' \in Seq(Operand) /\ Len(ops') = b + 1
        /\ OperandsApart' /\ OperandsSurvive' /\ OnlyFirstLeaks'
    <2>1. ArgRegs = RegsPast(b)
      BY DEF ArgRegs, Args, RegsPast
    <2> QED BY <1>1, <2>1, PushKeepsOperands
  <1>3. /\ frames' \in Seq(Frame) /\ Len(frames') = n - 1
        /\ \A f \in 1..(n - 1) : frames'[f] = frames[f]
    <2>1. n - 1 \in 0..Len(frames)
      BY <1>1
    <2>2. /\ SubSeq(frames, 1, n - 1) \in Seq(Frame) /\ Len(SubSeq(frames, 1, n - 1)) = n - 1
          /\ \A f \in 1..(n - 1) : SubSeq(frames, 1, n - 1)[f] = frames[f]
      <3>1. frames \in Seq(Frame)
        BY <1>1
      <3> HIDE DEF n, b
      <3> QED BY ONLY <2>1, <3>1, PrefixProperties
    <2> QED BY <2>2 DEF PopFrame
  <1>4. FramesInv'
    <2>1. /\ \A f \in 1..n : /\ frames[f].kind \in {"inplace", "fresh"} => frames[f].arity = 2
                             /\ frames[f].kind = "through" => frames[f].arity = 1
          /\ \A f \in 1..(n - 1) : /\ frames[f].base <= frames[f + 1].base
                                   /\ frames[f + 1].base < frames[f].base + frames[f].arity
          /\ frames[1].base = 0
      BY <1>1, Counts DEF FramesInv
    <2> HIDE DEF n, b
    <2>2. CASE n = 1
      <3>1. frames' = <<>> /\ b = 0
        BY <1>1, <1>3, <2>1, <2>2, EmptySeq DEF Top, n, b
      <3> QED BY <1>2, <1>3, <2>2, <3>1 DEF FramesInv
    <2>3. CASE n > 1
      <3>1. frames' # <<>> /\ frames'[n - 1] = frames[n - 1] /\ frames'[1] = frames[1]
        BY <1>1, <1>3, <2>3, EmptySeq
      <3>2. frames[n - 1].base <= b /\ b < frames[n - 1].base + frames[n - 1].arity
        BY <1>1, <2>1, <2>3 DEF Top, n, b
      <3>3. Top' = frames[n - 1]
        BY <1>3, <3>1 DEF Top
      <3>4. Top'.base < Len(ops') /\ Len(ops') <= Top'.base + Top'.arity
        <4>1. Len(ops') = b + 1 /\ b \in Nat /\ n - 1 \in 1..n
          BY <1>1, <1>2, <2>3
        <4> QED BY <1>1, <4>1, <3>2, <3>3
      <3>5. \A f \in 1..Len(frames') : f \in 1..n /\ frames'[f] = frames[f]
        BY <1>1, <1>3
      <3>6. \A f \in 1..(Len(frames') - 1) :
              f \in 1..(n - 1) /\ frames'[f] = frames[f] /\ frames'[f + 1] = frames[f + 1]
        BY <1>1, <1>3
      <3>7. \A f \in 1..Len(frames') :
              /\ frames'[f].kind \in {"inplace", "fresh"} => frames'[f].arity = 2
              /\ frames'[f].kind = "through" => frames'[f].arity = 1
        BY <2>1, <3>5
      <3>8. \A f \in 1..(Len(frames') - 1) :
              /\ frames'[f].base <= frames'[f + 1].base
              /\ frames'[f + 1].base < frames'[f].base + frames'[f].arity
        BY <2>1, <3>6
      <3> QED BY <2>1, <3>1, <3>4, <3>7, <3>8 DEF FramesInv
    <2> QED BY <1>1, <2>2, <2>3
  <1>5. TypeOK' /\ AbortOnlyWhenFull'
    BY <1>2, <1>3, Counts DEF TypeOK, AbortOnlyWhenFull
  <1> QED BY <1>2, <1>4, <1>5 DEF IInv

\* The first state has no operand and no mark.
LEMMA InitIInv == Init => IInv
  <1> SUFFICES ASSUME Init PROVE IInv
    OBVIOUS
  <1>1. /\ ops \in Seq(Operand) /\ Len(ops) = 0 /\ frames \in Seq(Frame) /\ Len(frames) = 0
    BY EmptySeq DEF Init
  <1>2. TypeOK
    BY <1>1 DEF Init, TypeOK
  <1> QED
    BY <1>1, <1>2 DEF Init, IInv, OperandsApart, OperandsSurvive, OnlyFirstLeaks,
       AbortOnlyWhenFull, FramesInv

\* stmt_gen keeps the invariant: between statements no operand is live.
LEMMA StatementKeepsIInv ==
    ASSUME IInv, Statements
    PROVE  IInv'
  <1>0. FramesInv /\ TypeOK
    BY DEF IInv
  <1>1. CASE NextFunction \/ \E k \in StmtKinds : StartStmt(k)
    <2> USE <1>1 DEF NextFunction, StartStmt
    <2>1. ops' = ops /\ frames' = frames /\ frames = <<>> /\ ops = <<>> /\ Len(ops) = 0
      BY <1>0, EmptySeq DEF FramesInv
    <2>2. Len(frames) = 0
      BY <2>1, EmptySeq
    <2>3. \A r \in Regs : tbl'[r] => tbl[r]
      BY DEF Unmark
    <2>4. TypeOK'
      BY <1>0 DEF TypeOK, Unmark, StmtKinds
    <2>5. FramesInv' /\ AbortOnlyWhenFull'
      BY <2>1, <2>2 DEF FramesInv, AbortOnlyWhenFull
    <2>6. OperandsApart' /\ OperandsSurvive' /\ OnlyFirstLeaks'
      BY <2>1, <2>3 DEF IInv, OperandsApart, OperandsSurvive, OnlyFirstLeaks
    <2> QED BY <2>4, <2>5, <2>6 DEF IInv
  <1>2. CASE FinishStmt
    <2> USE <1>2 DEF FinishStmt
    <2>1. ops' = <<>> /\ frames' = <<>> /\ frames = <<>> /\ Len(<<>>) = 0
          /\ ops' \in Seq(Operand) /\ frames' \in Seq(Frame)
      BY EmptySeq
    <2>2. Len(ops) \in Nat /\ Len(ops) <= 1 /\ (ops = <<>> <=> Len(ops) = 0)
      BY <1>0, Counts, EmptySeq DEF FramesInv
    <2>3. \A r \in Regs : tbl'[r] => r = 0
      <3> SUFFICES ASSUME NEW r \in Regs, tbl'[r], r # 0 PROVE FALSE
        OBVIOUS
      <3>1. r \in Nat
        BY NREGAssumption DEF Regs
      <3>2. tbl[r]
        BY DEF Unmark
      <3>3. PICK a \in 1..Len(ops) : ops[a].reg = r
        BY <3>2 DEF IInv, OnlyFirstLeaks
      <3>4. a = 1 /\ ops # <<>>
        BY <2>2, <3>3
      <3>5. tbl' = Unmark(tbl, {q \in {ops[1].reg} : q > 0}) \/ tbl' = Unmark(tbl, {ops[1].reg})
        BY <3>4
      <3>6. \A S : r \in S => ~Unmark(tbl, S)[r]
        BY DEF Unmark
      <3>7. r \in {ops[1].reg} /\ r \in {q \in {ops[1].reg} : q > 0}
        BY <3>1, <3>3, <3>4
      <3> QED BY <3>5, <3>6, <3>7
    <2>4. tbl' \in [Regs -> BOOLEAN]
      <3>1. tbl \in [Regs -> BOOLEAN] /\ \A S : Unmark(tbl, S) \in [Regs -> BOOLEAN]
        BY <1>0 DEF TypeOK, Unmark
      <3> QED BY <3>1
    <2>5. TypeOK'
      BY <2>1, <2>4 DEF TypeOK
    <2>6. FramesInv' /\ AbortOnlyWhenFull'
      BY <2>1 DEF FramesInv, AbortOnlyWhenFull
    <2>7. OperandsApart' /\ OperandsSurvive' /\ OnlyFirstLeaks'
      <3>1. Len(ops') = 0
        BY <2>1
      <3>2. 1..Len(ops') = {}
        BY <3>1
      <3> QED BY <2>3, <3>2 DEF OperandsApart, OperandsSurvive, OnlyFirstLeaks
    <2> QED BY <2>5, <2>6, <2>7 DEF IInv
  <1>3. CASE VoidUsed
    <2> USE <1>3 DEF VoidUsed
    <2>1. FramesInv' /\ AbortOnlyWhenFull'
      BY <1>0 DEF FramesInv, AbortOnlyWhenFull
    <2>2. TypeOK' /\ OperandsApart' /\ OperandsSurvive' /\ OnlyFirstLeaks'
      BY DEF IInv, TypeOK, OperandsApart, OperandsSurvive, OnlyFirstLeaks
    <2> QED BY <2>1, <2>2 DEF IInv
  <1> QED BY <1>1, <1>2, <1>3 DEF Statements

\* Going down the tree keeps the invariant.
LEMMA VisitKeepsIInv ==
    ASSUME IInv, Visit
    PROVE  IInv'
  <1>0. FramesInv /\ TypeOK
    BY DEF IInv
  <1>1. CASE Leaf
    <2> USE <1>1 DEF Leaf
    <2> DEFINE r == FirstFree(tbl)
               n == Len(ops)
    <2>1. r \in Regs /\ ~tbl[r]
      BY FirstFreeProperties DEF Free
    <2>2. n \in Nat /\ n \in 0..Len(ops) /\ RegsPast(n) = {} /\ ops \in Seq(Operand)
      BY Counts DEF RegsPast
    <2>3. tbl' \in [Regs -> BOOLEAN] /\ \A q \in Regs : tbl'[q] <=> q = r \/ tbl[q]
      BY <1>0, <2>1 DEF TypeOK, Mark
    <2>4. /\ ops' \in Seq(Operand) /\ Len(ops') = n + 1
          /\ OperandsApart' /\ OperandsSurvive' /\ OnlyFirstLeaks'
      <3> HIDE DEF r
      <3>1. ops' = PushValue(ops, r)
        BY DEF r
      <3> QED BY <2>1, <2>2, <2>3, <3>1, PushKeepsOperands
    <2>5. TypeOK' /\ AbortOnlyWhenFull'
      BY <1>0, <2>3, <2>4 DEF TypeOK, AbortOnlyWhenFull
    <2>6. FramesInv'
      <3>1. frames = <<>> => n = 0
        BY <1>0, EmptySeq DEF FramesInv
      <3>2. frames # <<>> => /\ Top.base <= n /\ n < Top.base + Top.arity
                             /\ Top.base \in Nat /\ Top.arity \in Nat
        BY <1>0, Counts DEF FramesInv, Top
      <3>3. Top' = Top
        BY DEF Top
      <3>4. Len(ops') = n + 1 /\ n \in Nat
        BY <2>2, <2>4
      <3>5. frames = <<>> => Len(ops') <= 1
        BY <3>1, <3>4
      <3>6. frames # <<>> => Top.base < Len(ops') /\ Len(ops') <= Top.base + Top.arity
        BY <3>2, <3>4
      <3> HIDE DEF n
      <3> QED BY <1>0, <3>3, <3>5, <3>6 DEF FramesInv
    <2> QED BY <2>4, <2>5, <2>6 DEF IInv
  <1>2. ASSUME NEW kind \in {"inplace", "fresh", "through", "call", "extern"}, NEW arity \in Nat,
               kind \in {"inplace", "fresh"} => arity = 2,
               kind = "through" => arity = 1,
               Enter(kind, arity)
        PROVE  IInv'
    <2> USE <1>2 DEF Enter
    <2> DEFINE fr == [kind |-> kind, arity |-> arity, base |-> Len(ops)]
               n == Len(frames)
    <2>1. fr \in Frame /\ frames \in Seq(Frame) /\ n \in Nat /\ Len(ops) \in Nat
      BY Counts DEF Frame
    <2>2. /\ frames' \in Seq(Frame) /\ Len(frames') = n + 1 /\ frames' # <<>>
          /\ \A f \in 1..n : frames'[f] = frames[f]
          /\ frames'[n + 1] = fr
      BY <2>1, AppendProperties
    <2>3. Top' = fr
      BY <2>2 DEF Top
    <2>4. frames # <<>> => /\ frames[n].base <= Len(ops)
                           /\ Len(ops) < frames[n].base + frames[n].arity
                           /\ n \in 1..n
      BY <1>0, Counts DEF FramesInv, Top
    <2>5. frames = <<>> => Len(ops) = 0 /\ n = 0
      BY <1>0, EmptySeq DEF FramesInv
    <2>6. FramesInv'
      <3> HIDE DEF n
      <3>1. frames'[1].base = 0
        <4>1. CASE frames = <<>>
          BY <4>1, <2>2, <2>5
        <4>2. CASE frames # <<>>
          <5>1. 1 \in 1..n
            BY <2>1, <2>4, <4>2
          <5> QED BY <5>1, <1>0, <2>2, <4>2 DEF FramesInv
        <4> QED BY <4>1, <4>2
      <3>2. \A f \in 1..Len(frames') :
              /\ frames'[f].kind \in {"inplace", "fresh"} => frames'[f].arity = 2
              /\ frames'[f].kind = "through" => frames'[f].arity = 1
        <4> TAKE f \in 1..Len(frames')
        <4>1. f \in 1..n \/ f = n + 1
          BY <2>1, <2>2
        <4>2. CASE f \in 1..n
          BY <4>2, <1>0, <2>2 DEF FramesInv, n
        <4>3. CASE f = n + 1
          BY <4>3, <2>2
        <4> QED BY <4>1, <4>2, <4>3
      <3>3. \A f \in 1..(Len(frames') - 1) :
              /\ frames'[f].base <= frames'[f + 1].base
              /\ frames'[f + 1].base < frames'[f].base + frames'[f].arity
        <4> TAKE f \in 1..(Len(frames') - 1)
        <4>1. f \in 1..n /\ (f = n \/ f \in 1..(n - 1)) /\ frames # <<>>
          BY <2>1, <2>2, <2>5
        <4>2. CASE f = n
          BY <4>1, <4>2, <2>2, <2>4
        <4>3. CASE f \in 1..(n - 1)
          <5>1. f + 1 \in 1..n
            BY <2>1, <4>3
          <5> QED BY <4>1, <4>3, <5>1, <1>0, <2>2 DEF FramesInv, n
        <4> QED BY <4>1, <4>2, <4>3
      <3>4. fr.base = Len(ops) /\ fr.arity = arity /\ ops' = ops
        OBVIOUS
      <3>5. /\ pc' = "apply" => Len(ops') = Top'.base + Top'.arity
            /\ pc' = "eval" => Top'.base <= Len(ops') /\ Len(ops') < Top'.base + Top'.arity
            /\ pc' \in {"apply", "eval"}
        BY <2>1, <2>3, <3>4
      <3> QED BY <2>2, <3>1, <3>2, <3>3, <3>5 DEF FramesInv
    <2>7. TypeOK' /\ AbortOnlyWhenFull'
      BY <1>0, <2>2 DEF TypeOK, AbortOnlyWhenFull
    <2>8. OperandsApart' /\ OperandsSurvive' /\ OnlyFirstLeaks'
      BY DEF IInv, OperandsApart, OperandsSurvive, OnlyFirstLeaks
    <2> QED BY <2>6, <2>7, <2>8 DEF IInv
  <1>3. CASE OperandReady
    <2> USE <1>3 DEF OperandReady
    <2>1. /\ Top.base < Len(ops) /\ Len(ops) <= Top.base + Top.arity
          /\ Top.base \in Nat /\ Top.arity \in Nat /\ Len(ops) \in Nat
      BY <1>0, Counts DEF FramesInv, Top
    <2>2. ops' = ops /\ frames' = frames /\ Top' = Top /\ pc' \in {"eval", "apply"}
      BY DEF Top
    <2>3. FramesInv'
      BY <1>0, <2>1, <2>2 DEF FramesInv
    <2>4. TypeOK' /\ AbortOnlyWhenFull'
      BY <1>0, <2>2 DEF TypeOK, AbortOnlyWhenFull
    <2>5. OperandsApart' /\ OperandsSurvive' /\ OnlyFirstLeaks'
      BY DEF IInv, OperandsApart, OperandsSurvive, OnlyFirstLeaks
    <2> QED BY <2>3, <2>4, <2>5 DEF IInv
  <1> QED
    BY <1>1, <1>2, <1>3, BoundsAssumption DEF Visit, EnterBinary, EnterUnary, EnterCall

\* Applying a node keeps the invariant.
LEMMA ApplyKeepsIInv ==
    ASSUME IInv, Apply
    PROVE  IInv'
  <1>0. FramesInv /\ TypeOK
    BY DEF IInv
  <1>1. pc = "apply" /\ stmt' = stmt /\ frames' = PopFrame /\ pc' = "value"
    BY DEF Apply, ApplyInPlace, ApplyFresh, ApplyThrough, ApplyCall, ApplyVoidCall
  <1>2. /\ Len(ops) = Top.base + Top.arity /\ frames # <<>> /\ Len(frames) \in 1..Len(frames)
        /\ Top.base \in Nat /\ Top.arity \in Nat /\ Top.base \in 0..Len(ops)
        /\ ops \in Seq(Operand) /\ tbl \in [Regs -> BOOLEAN]
    BY <1>0, <1>1, Counts DEF FramesInv, Top, TypeOK
  <1>3. /\ Below \in Seq(Operand) /\ Len(Below) = Top.base
        /\ \A a \in 1..Top.base : Below[a] = ops[a]
    BY <1>2, PrefixProperties DEF Below
  <1>4. \A a \in Args : a \in 1..Len(ops) /\ ops[a].reg \in ArgRegs /\ ops[a].reg \in Regs
                        /\ tbl[ops[a].reg]
    <2> TAKE a \in Args
    <2>1. a \in 1..Len(ops)
      BY <1>2 DEF Args
    <2> QED BY <2>1, Counts DEF IInv, OperandsApart, ArgRegs
  <1>5. /\ Top.kind \in {"inplace", "fresh"} => Top.arity = 2
        /\ Top.kind = "through" => Top.arity = 1
    BY <1>0, <1>2 DEF FramesInv, Top
  <1>6. CASE ApplyInPlace
    <2> USE <1>6 DEF ApplyInPlace
    <2> DEFINE l == ops[Top.base + 1].reg
               r == ops[Len(ops)].reg
    <2>1. /\ Top.base + 1 \in Args /\ Len(ops) \in Args /\ Top.base + 1 # Len(ops)
          /\ \A a \in Args : a = Top.base + 1 \/ a = Len(ops)
      BY <1>2, <1>5 DEF Args
    <2>2. ArgRegs = {l, r} /\ l # r /\ l \in Regs /\ tbl[l]
      <3>1. ArgRegs = {l, r}
        BY <2>1 DEF ArgRegs
      <3>2. l # r
        BY <2>1, <1>4 DEF IInv, OperandsApart
      <3> QED BY <3>1, <3>2, <2>1, <1>4
    <2>3. tbl' \in [Regs -> BOOLEAN]
          /\ \A q \in Regs : tbl'[q] <=> q = l \/ (tbl[q] /\ q \notin ArgRegs)
      BY <1>2, <2>2 DEF Unmark
    <2>4. ops' = PushValue(Below, l)
      OBVIOUS
    <2> HIDE DEF l, r
    <2> QED BY <1>1, <1>3, <2>2, <2>3, <2>4, NodeApplied
  <1>7. CASE ApplyFresh
    <2> USE <1>7 DEF ApplyFresh
    <2> DEFINE r == FirstFree(tbl)
    <2>1. r \in Regs /\ ~tbl[r]
      BY FirstFreeProperties DEF Free
    <2>2. r \notin ArgRegs
      BY <2>1, <1>4 DEF ArgRegs
    <2>3. tbl' \in [Regs -> BOOLEAN]
          /\ \A q \in Regs : tbl'[q] <=> q = r \/ (tbl[q] /\ q \notin ArgRegs)
      BY <1>2, <2>1, <2>2 DEF Unmark, Mark
    <2>4. ops' = PushValue(Below, r)
      OBVIOUS
    <2> HIDE DEF r
    <2> QED BY <1>1, <1>3, <2>1, <2>3, <2>4, NodeApplied
  <1>8. CASE ApplyThrough
    <2> USE <1>8 DEF ApplyThrough
    <2> DEFINE r == ops[Len(ops)].reg
    <2>1. Len(ops) \in Args /\ \A a \in Args : a = Len(ops)
      BY <1>2, <1>5 DEF Args
    <2>2. ArgRegs = {r} /\ r \in Regs /\ tbl[r]
      BY <2>1, <1>4 DEF ArgRegs
    <2>3. tbl' \in [Regs -> BOOLEAN]
          /\ \A q \in Regs : tbl'[q] <=> q = r \/ (tbl[q] /\ q \notin ArgRegs)
      BY <1>2, <2>2
    <2>4. ops' = PushValue(Below, r)
      OBVIOUS
    <2> HIDE DEF r
    <2> QED BY <1>1, <1>3, <2>2, <2>3, <2>4, NodeApplied
  <1>9. CASE ApplyCall
    <2> USE <1>9 DEF ApplyCall
    <2> DEFINE r == FirstFree(AfterArgs)
               s == Overwrite(Below, Callee)
    <2>1. r \in Regs /\ ~AfterArgs[r]
      BY FirstFreeProperties
    <2>2. r \in ArgRegs \/ ~tbl[r]
      BY <2>1 DEF AfterArgs, Unmark
    <2>3. tbl' \in [Regs -> BOOLEAN]
          /\ \A q \in Regs : tbl'[q] <=> q = r \/ (tbl[q] /\ q \notin ArgRegs)
      BY <1>2, <2>1 DEF AfterArgs, Unmark, Mark
    <2>4. /\ s \in Seq(Operand) /\ Len(s) = Top.base
          /\ \A a \in 1..Top.base : /\ s[a].reg = ops[a].reg
                                    /\ ops[a].intact /\ ~s[a].intact => s[a].reg \in Volatile
      <3>1. /\ s \in Seq(Operand) /\ Len(s) = Len(Below)
            /\ \A a \in 1..Len(Below) :
                 /\ s[a].reg = Below[a].reg
                 /\ s[a].intact <=> Below[a].intact /\ Below[a].reg \notin Callee
        BY <1>3, OverwriteProperties
      <3>2. Callee \subseteq Volatile
        BY DEF Callee
      <3> HIDE DEF s
      <3> QED BY <1>3, <3>1, <3>2
    <2>5. ops' = PushValue(s, r)
      OBVIOUS
    <2> HIDE DEF r, s
    <2> QED BY <1>1, <2>1, <2>2, <2>3, <2>4, <2>5, NodeApplied
  <1>10. CASE ApplyVoidCall
    <2> USE <1>10 DEF ApplyVoidCall
    <2>1. Top.base = 0 /\ Len(Below) = 0
      BY <1>0, <1>2, <1>3 DEF FramesInv, Top
    <2>2. ops' \in Seq(Operand) /\ Len(ops') = 0
      BY <1>3, <2>1, OverwriteProperties
    <2>3. frames' \in Seq(Frame) /\ Len(frames') = 0
      <3>1. Len(frames) = 1 /\ frames \in Seq(Frame) /\ Len(frames) - 1 \in 0..Len(frames)
        BY Counts
      <3>2. /\ SubSeq(frames, 1, Len(frames) - 1) \in Seq(Frame)
            /\ Len(SubSeq(frames, 1, Len(frames) - 1)) = Len(frames) - 1
        BY <3>1, PrefixProperties
      <3> QED BY <1>1, <3>1, <3>2 DEF PopFrame
    <2>4. frames' = <<>> /\ 1..Len(ops') = {}
      BY <2>2, <2>3, EmptySeq
    <2>5. \A q \in Regs : ~tbl'[q] \/ q = 0
      <3> SUFFICES ASSUME NEW q \in Regs, tbl'[q], q # 0 PROVE FALSE
        OBVIOUS
      <3>1. tbl[q] /\ q \notin ArgRegs
        BY DEF AfterArgs, Unmark
      <3>2. PICK a \in 1..Len(ops) : ops[a].reg = q
        BY <3>1 DEF IInv, OnlyFirstLeaks
      <3>3. a \in Args
        BY <1>2, <2>1 DEF Args
      <3> QED BY <3>1, <3>2, <3>3, <1>4
    <2>6. OperandsApart' /\ OperandsSurvive' /\ OnlyFirstLeaks'
      BY <2>4, <2>5 DEF OperandsApart, OperandsSurvive, OnlyFirstLeaks
    <2>7. FramesInv' /\ AbortOnlyWhenFull'
      BY <1>1, <2>2, <2>3, <2>4 DEF FramesInv, AbortOnlyWhenFull
    <2>8. TypeOK'
      BY <1>0, <1>1, <1>2, <2>2, <2>3 DEF TypeOK, AfterArgs, Unmark
    <2> QED BY <2>6, <2>7, <2>8 DEF IInv
  <1> QED BY <1>6, <1>7, <1>8, <1>9, <1>10 DEF Apply

\* When the compiler aborts, the registers are full of operands.
LEMMA AbortKeepsIInv ==
    ASSUME IInv, Aborts
    PROVE  IInv'
  <1>1. /\ UNCHANGED <<tbl, ops, frames, stmt>> /\ pc' = "abort"
        /\ \A r \in Regs : tbl[r]
    BY DEF Aborts, LeafAborts, ApplyFreshAborts, ApplyCallAborts, Abort, Free, AfterArgs, Unmark
  <1>2. AbortOnlyWhenFull'
    BY <1>1, FullMeansOperands DEF IInv, AbortOnlyWhenFull
  <1>3. TypeOK' /\ OperandsApart' /\ OperandsSurvive' /\ OnlyFirstLeaks'
    BY <1>1 DEF IInv, TypeOK, OperandsApart, OperandsSurvive, OnlyFirstLeaks
  <1>4. FramesInv'
    BY <1>1 DEF IInv, FramesInv
  <1> QED BY <1>2, <1>3, <1>4 DEF IInv

\* Every step keeps the invariant.
LEMMA NextKeepsIInv ==
    ASSUME IInv, [Next]_vars
    PROVE  IInv'
  <1>1. CASE Next
    BY <1>1, StatementKeepsIInv, VisitKeepsIInv, ApplyKeepsIInv, AbortKeepsIInv DEF Next
  <1>2. CASE UNCHANGED vars
    <2> USE <1>2 DEF vars
    <2>1. TypeOK' /\ OperandsApart' /\ OperandsSurvive' /\ OnlyFirstLeaks' /\ AbortOnlyWhenFull'
      BY DEF IInv, TypeOK, OperandsApart, OperandsSurvive, OnlyFirstLeaks, AbortOnlyWhenFull
    <2>2. FramesInv'
      BY DEF IInv, FramesInv, Top
    <2> QED BY <2>1, <2>2 DEF IInv
  <1> QED BY <1>1, <1>2

-----------------------------------------------------------------------------
(* The theorems *)

\* The inductive invariant holds in every state of every run.
THEOREM Invariance == Spec => []IInv
  <1>1. Init => IInv
    BY InitIInv
  <1>2. IInv /\ [Next]_vars => IInv'
    BY NextKeepsIInv
  <1> QED BY <1>1, <1>2, PTL DEF Spec

\* Operands that are still to be used are in registers of their own.
THEOREM OperandsStayApart == Spec => []OperandsApart
  <1>1. IInv => OperandsApart
    BY DEF IInv
  <1> QED BY <1>1, Invariance, PTL

\* Only a call of an external function can destroy an operand, and only one
\* in a volatile register.
THEOREM OperandsAreKept == Spec => []OperandsSurvive
  <1>1. IInv => OperandsSurvive
    BY DEF IInv
  <1> QED BY <1>1, Invariance, PTL

\* No register but register 0 is ever lost.
THEOREM OnlyRegisterZeroLeaks == Spec => []OnlyFirstLeaks
  <1>1. IInv => OnlyFirstLeaks
    BY DEF IInv
  <1> QED BY <1>1, Invariance, PTL

\* The Assert of scratch_alloc stops the compiler only when NREG - 1 operands
\* or more are live.
THEOREM AbortsOnlyWhenFull == Spec => []AbortOnlyWhenFull
  <1>1. IInv => AbortOnlyWhenFull
    BY DEF IInv
  <1> QED BY <1>1, Invariance, PTL

\* The buffer of argument registers is never overrun.
THEOREM ArgumentsFitBuffer == Spec => []ArgsFitBuffer
  <1>1. IInv => ArgsFitBuffer
    <2> SUFFICES ASSUME IInv, pc = "apply" PROVE Top.arity <= ArgBuffer
      BY DEF ArgsFitBuffer
    <2>1. Len(ops) = Top.base + Top.arity /\ Top.base \in Nat /\ Top.arity \in Nat
      BY Counts DEF FramesInv, Top
    <2>2. Len(ops) <= NREG
      BY OperandsAtMostRegisters DEF IInv
    <2> QED BY <2>1, <2>2, ArgBufferAssumption, NREGAssumption
  <1> QED BY <1>1, Invariance, PTL

\* scratch_free_all frees enough: every function starts with all registers.
THEOREM FunctionsStartWithAllFree == Spec => FunctionsStartFree
  <1>1. IInv /\ [Next]_vars =>
          [pc' = "function" => \A r \in Regs : ~tbl'[r]]_vars
    <2> SUFFICES ASSUME IInv, Next, pc' = "function", NEW r \in Regs
                 PROVE  ~tbl'[r]
      OBVIOUS
    <2>1. NextFunction
      BY DEF Next, Statements, StartStmt, FinishStmt, VoidUsed, Visit, Leaf, EnterBinary, EnterUnary,
             EnterCall, Enter, OperandReady, Apply, ApplyInPlace, ApplyFresh, ApplyThrough,
             ApplyCall, ApplyVoidCall, Aborts, LeafAborts, ApplyFreshAborts, ApplyCallAborts, Abort
    <2>2. tbl[r] => r = 0
      <3>1. ops = <<>> /\ Len(ops) = 0
        BY <2>1, EmptySeq DEF IInv, FramesInv, NextFunction
      <3> QED BY <3>1 DEF IInv, OnlyFirstLeaks
    <2>3. 0 \in 0..(FreedAll - 1)
      BY FreedAllAssumption, NREGAssumption
    <2> QED BY <2>1, <2>2, <2>3 DEF NextFunction, Unmark
  <1> QED BY <1>1, Invariance, PTL DEF Spec, FunctionsStartFree

-----------------------------------------------------------------------------
(* Types, their sizes, and the order of conversions *)

Value == Type \union {NULL}

LEMMA TypeIs ==
  ASSUME NEW t \in Type
  PROVE  /\ t # NULL /\ Head(t) = t[1] /\ Head(t) \in Kinds
         /\ Head(t) # "pointer" => t = <<Head(t)>>
<1>1. t \in Seq(Kinds) /\ t # <<>> /\ Len(t) \in Nat /\ Len(t) >= 1
  BY EmptySeq, LenProperties DEF Type
<1>2. t[1] = "pointer" <=> 1 < Len(t)
  BY <1>1 DEF Type
<1>3. Head(t) = t[1] /\ t[1] \in Kinds
  BY <1>1
<1>4. ASSUME Head(t) # "pointer" PROVE t = <<Head(t)>>
  <2>1. ~(1 < Len(t))
    BY <1>2, <1>3, <1>4, Zenon
  <2>2. PICK n \in Nat : n = Len(t)
    BY <1>1
  <2>3. n >= 1 /\ ~(1 < n)
    BY <1>1, <2>1, <2>2, Zenon
  <2>4. Len(t) = 1
    BY <2>2, <2>3
  <2>. QED BY <1>1, <1>3, <2>4
<1>. QED BY <1>1, <1>3, <1>4 DEF NULL

LEMMA BasicTypes ==
  /\ S64 \in Type /\ Bool \in Type /\ Unknown \in Type /\ Void \in Type
  /\ Head(S64) = "s64" /\ Head(Bool) = "bool" /\ Head(Unknown) = "unknown" /\ Head(Void) = "void"
  /\ S64 # NULL /\ Bool # NULL /\ Unknown # NULL /\ Void # NULL
<1>1. {"s64", "bool", "unknown", "void"} \subseteq Kinds
  BY DEF Kinds, Sizes
<1>2. ASSUME NEW k \in Kinds, k # "pointer" PROVE <<k>> \in Type /\ Head(<<k>>) = k /\ <<k>> # <<>>
  <2>1. <<k>> \in Seq(Kinds) /\ Len(<<k>>) = 1 /\ <<k>>[1] = k
    OBVIOUS
  <2>. QED BY <1>2, <2>1 DEF Type
<1>. QED BY <1>1, <1>2 DEF S64, Bool, Unknown, Void, NULL

\* The size of a register for a value
Bytes == {1, 2, 4, 8}

LEMMA SizeIs ==
  ASSUME NEW t \in Type
  PROVE  /\ HasSize(t) => SizeOf(t) \in Bytes
         /\ IsInteger(t) \/ t = Bool \/ IsPointer(t) => HasSize(t)
         /\ t = Unknown \/ t = Void <=> ~HasSize(t)
         /\ t = Bool \/ IsPointer(t) => SizeOf(t) = 8
<1>1. t # NULL /\ Head(t) \in Kinds
  BY TypeIs
<1>2. \A k \in DOMAIN Sizes : Sizes[k] \in Bytes
  BY DEF Sizes, Bytes
<1>3. HasSize(t) <=> Head(t) \in DOMAIN Sizes
  BY <1>1 DEF HasSize
<1>4. {"bool", "pointer"} \union Signed \union Unsigned \subseteq DOMAIN Sizes
  BY DEF Sizes, Signed, Unsigned
<1>5. Sizes["bool"] = 8 /\ Sizes["pointer"] = 8
  BY DEF Sizes
<1>6. ~("unknown" \in DOMAIN Sizes) /\ ~("void" \in DOMAIN Sizes)
  BY DEF Sizes
<1>7. ~HasSize(t) => t = Unknown \/ t = Void
  <2>1. SUFFICES ASSUME ~HasSize(t) PROVE t = Unknown \/ t = Void
    OBVIOUS
  <2>2. Head(t) \in {"unknown", "void"}
    BY <1>1, <1>3, <2>1 DEF Kinds
  <2>. QED BY <2>2, TypeIs DEF Unknown, Void
<1>. QED BY <1>1, <1>2, <1>3, <1>4, <1>5, <1>6, <1>7, BasicTypes
         DEF SizeOf, IsInteger, IsSigned, IsUnsigned, IsPointer

\* Integers of one sign and one size are of one type.
LEMMA SameIntegers ==
  ASSUME NEW s \in Type, NEW t \in Type, SameSign(s, t), SizeOf(s) = SizeOf(t)
  PROVE  s = t
<1>1. s = <<Head(s)>> /\ t = <<Head(t)>>
  BY TypeIs DEF SameSign, IsSigned, IsUnsigned, Signed, Unsigned
<1>2. SizeOf(s) = Sizes[Head(s)] /\ SizeOf(t) = Sizes[Head(t)]
  BY TypeIs DEF SizeOf
<1>3. /\ Sizes["s8"] = 1 /\ Sizes["s16"] = 2 /\ Sizes["s32"] = 4 /\ Sizes["s64"] = 8
      /\ Sizes["u8"] = 1 /\ Sizes["u16"] = 2 /\ Sizes["u32"] = 4 /\ Sizes["u64"] = 8
  BY DEF Sizes
<1>4. Sizes[Head(s)] = Sizes[Head(t)]
  BY <1>2
<1>5. CASE IsSigned(s) /\ IsSigned(t)
  <2>1. Head(s) \in Signed /\ Head(t) \in Signed
    BY <1>5 DEF IsSigned
  <2>2. Head(s) = Head(t)
    BY <1>3, <1>4, <2>1 DEF Signed
  <2>. QED BY <1>1, <2>2
<1>6. CASE IsUnsigned(s) /\ IsUnsigned(t)
  <2>1. Head(s) \in Unsigned /\ Head(t) \in Unsigned
    BY <1>6 DEF IsUnsigned
  <2>2. Head(s) = Head(t)
    BY <1>3, <1>4, <2>1 DEF Unsigned
  <2>. QED BY <1>1, <2>2
<1>. QED BY <1>5, <1>6 DEF SameSign

\* The families of types exclude each other.
LEMMA Families ==
  ASSUME NEW t \in Type
  PROVE  /\ IsSigned(t) => ~IsUnsigned(t)
         /\ IsInteger(t) => ~IsPointer(t) /\ t # Bool /\ t # Unknown /\ t # Void
         /\ IsPointer(t) => t # Bool /\ t # Unknown /\ t # Void
  BY BasicTypes DEF IsInteger, IsSigned, IsUnsigned, IsPointer, Signed, Unsigned

LEMMA WiderIs ==
  ASSUME NEW s \in Type, NEW t \in Type, SameSign(s, t)
  PROVE  /\ Wider(s, t) \in {s, t}
         /\ Converts(s, Wider(s, t)) /\ Converts(t, Wider(s, t))
         /\ \A u \in {s, t} : Converts(s, u) /\ Converts(t, u) => u = Wider(s, t)
<1>1. s # NULL /\ t # NULL /\ SameSign(t, s) /\ SameSign(s, s) /\ SameSign(t, t)
  BY TypeIs DEF SameSign
<1>2. SizeOf(s) \in Nat /\ SizeOf(t) \in Nat
  BY SizeIs DEF Bytes, SameSign, IsInteger
<1>3. SizeOf(s) = SizeOf(t) => s = t
  BY SameIntegers
<1>4. s # Unknown /\ t # Unknown
  BY Families DEF SameSign, IsInteger
<1>5. Converts(s, t) <=> SizeOf(s) <= SizeOf(t)
  BY <1>1, <1>2, <1>4 DEF Converts
<1>6. Converts(t, s) <=> SizeOf(t) <= SizeOf(s)
  BY <1>1, <1>2, <1>4 DEF Converts
<1>7. Converts(s, s) /\ Converts(t, t)
  BY DEF Converts
<1>8. CASE SizeOf(s) > SizeOf(t)
  <2>1. Wider(s, t) = s /\ Converts(t, s) /\ ~Converts(s, t)
    BY <1>2, <1>5, <1>6, <1>8 DEF Wider
  <2>. QED BY <1>7, <2>1
<1>9. CASE ~(SizeOf(s) > SizeOf(t))
  <2>1. Wider(s, t) = t /\ Converts(s, t)
    BY <1>2, <1>5, <1>9 DEF Wider
  <2>2. Converts(t, s) => s = t
    BY <1>2, <1>3, <1>6, <1>9
  <2>. QED BY <1>7, <2>1, <2>2
<1>. QED BY <1>8, <1>9

\* What two types are converted to by ImplicitCast, with equal types besides
LEMMA CastIs ==
  ASSUME NEW s \in Type, NEW t \in Type
  PROVE  /\ SameSign(s, t) => ImplicitCast(s, t) = Wider(s, t)
         /\ ~SameSign(s, t) =>
              /\ s = Bool /\ t = Bool => ImplicitCast(s, t) = s
              /\ IsPointer(s) /\ t = Unknown => ImplicitCast(s, t) = s
              /\ s = Unknown /\ IsPointer(t) => ImplicitCast(s, t) = t
              /\ ~(s = Bool /\ t = Bool) /\ ~(IsPointer(s) /\ t = Unknown)
                   /\ ~(s = Unknown /\ IsPointer(t)) => ImplicitCast(s, t) = NULL
<1>1. Bool # Unknown /\ ~IsPointer(Bool) /\ ~IsPointer(Unknown)
  BY BasicTypes DEF IsPointer
<1>2. CASE SameSign(s, t)
  <2>1. ~(s = Bool /\ t = Bool) /\ ~(IsPointer(s) /\ t = Unknown) /\ ~(s = Unknown /\ IsPointer(t))
    BY <1>2, Families DEF SameSign, IsInteger
  <2>. QED BY <1>2, <2>1 DEF ImplicitCast
<1>3. CASE ~SameSign(s, t)
  BY <1>1, <1>3 DEF ImplicitCast
<1>. QED BY <1>2, <1>3

LEMMA GreatestIs ==
  ASSUME NEW s, NEW t, NEW u \in {s, t}, Converts(s, u), Converts(t, u),
         \A v \in {s, t} : Converts(s, v) /\ Converts(t, v) => v = u
  PROVE  Greatest({s, t}) = u
<1>1. \A r \in {s, t} : Converts(r, u)
  OBVIOUS
<1>2. \A v \in {s, t} : (\A r \in {s, t} : Converts(r, v)) => v = u
  OBVIOUS
<1>. QED BY <1>1, <1>2, Zenon DEF Greatest

LEMMA GreatestIsNot ==
  ASSUME NEW s, NEW t, ~(Converts(s, t) /\ Converts(t, t)), ~(Converts(s, s) /\ Converts(t, s))
  PROVE  Greatest({s, t}) = NULL
<1>1. ~ \E u \in {s, t} : \A r \in {s, t} : Converts(r, u)
  OBVIOUS
<1>. QED BY <1>1, Zenon DEF Greatest

\* The type that operands are converted to is the greatest of theirs.
LEMMA CommonIsGreatest ==
  ASSUME NEW s \in Type, NEW t \in Type
  PROVE  /\ Common(s, t) = Greatest({s, t})
         /\ Common(s, t) \in {NULL, s, t}
         /\ s # t \/ IsInteger(s) \/ s = Bool => ImplicitCast(s, t) = Greatest({s, t})
         /\ ImplicitCast(s, t) # NULL => ImplicitCast(s, t) = Greatest({s, t})
         /\ ImplicitCast(s, t) = NULL /\ s # t => Greatest({s, t}) = NULL
<1>1. s # NULL /\ t # NULL
  BY TypeIs
<1>2. Converts(s, s) /\ Converts(t, t)
  BY DEF Converts
<1>3. CASE SameSign(s, t)
  <2>1. Greatest({s, t}) = Wider(s, t) /\ Wider(s, t) \in {s, t}
    BY <1>3, WiderIs, GreatestIs
  <2>2. ImplicitCast(s, t) = Wider(s, t)
    BY <1>3, CastIs
  <2>. QED BY <1>1, <2>1, <2>2 DEF Common
<1>4. CASE ~SameSign(s, t) /\ s = t
  <2>1. Greatest({s, t}) = s
    BY <1>2, <1>4, GreatestIs
  <2>2. ImplicitCast(s, t) \in {NULL, s}
    BY <1>4, CastIs
  <2>3. ~IsInteger(s)
    BY <1>4 DEF SameSign, IsInteger
  <2>4. s = Bool => ImplicitCast(s, t) = s
    BY <1>4, CastIs
  <2>. QED BY <1>1, <1>4, <2>1, <2>2, <2>3, <2>4 DEF Common
<1>5. CASE ~SameSign(s, t) /\ s # t
  <2>1. ~SameSign(t, s)
    BY <1>5 DEF SameSign
  <2>2. Converts(s, t) <=> s = Unknown /\ IsPointer(t)
    BY <1>1, <1>5 DEF Converts
  <2>3. Converts(t, s) <=> t = Unknown /\ IsPointer(s)
    BY <1>1, <1>5, <2>1 DEF Converts
  <2>4. CASE s = Unknown /\ IsPointer(t)
    <3>1. ImplicitCast(s, t) = t
      BY <1>5, <2>4, CastIs
    <3>2. ~Converts(t, s)
      BY <2>3, <2>4, Families
    <3>3. Greatest({s, t}) = t
      BY <1>2, <2>2, <2>4, <3>2, GreatestIs
    <3>. QED BY <1>1, <3>1, <3>3 DEF Common
  <2>5. CASE t = Unknown /\ IsPointer(s)
    <3>1. ImplicitCast(s, t) = s
      BY <1>5, <2>5, CastIs
    <3>2. ~Converts(s, t)
      BY <2>2, <2>5, Families
    <3>3. Greatest({s, t}) = s
      BY <1>2, <2>3, <2>5, <3>2, GreatestIs
    <3>. QED BY <1>1, <3>1, <3>3 DEF Common
  <2>6. CASE ~(s = Unknown /\ IsPointer(t)) /\ ~(t = Unknown /\ IsPointer(s))
    <3>1. ImplicitCast(s, t) = NULL
      BY <1>5, <2>6, CastIs
    <3>2. Greatest({s, t}) = NULL
      BY <2>2, <2>3, <2>6, GreatestIsNot
    <3>. QED BY <1>1, <1>5, <3>1, <3>2 DEF Common
  <2>. QED BY <2>4, <2>5, <2>6
<1>. QED BY <1>3, <1>4, <1>5

\* Where an operand has no type, the greatest is none.
LEMMA GreatestOfNone ==
  ASSUME NEW s, NEW t, s = NULL \/ t = NULL
  PROVE  Greatest({s, t}) = NULL
<1>1. CASE s = NULL /\ t = NULL
  <2>1. Converts(s, s)
    BY DEF Converts
  <2>. QED BY <1>1, <2>1, GreatestIs
<1>2. CASE s # NULL \/ t # NULL
  <2>1. NULL # Unknown
    BY BasicTypes
  <2>2. s # t
    BY <1>2
  <2>3. CASE s = NULL
    <3>1. ~Converts(s, t) /\ ~Converts(t, s)
      BY <2>1, <2>2, <2>3 DEF Converts, IsPointer
    <3>. QED BY <3>1, GreatestIsNot
  <2>4. CASE t = NULL
    <3>1. ~Converts(s, t) /\ ~Converts(t, s)
      BY <2>1, <2>2, <2>4 DEF Converts, IsPointer
    <3>. QED BY <3>1, GreatestIsNot
  <2>. QED BY <1>2, <2>3, <2>4
<1>. QED BY <1>1, <1>2

-----------------------------------------------------------------------------
(* What the reference says of a node, by its kind *)

LEMMA JudgeLeaf ==
  ASSUME NEW n, n.kind \in {"literal", "lvar"}
  PROVE  Judge(n) = n.gives
  BY DEF Judge

LEMMA JudgeCall ==
  ASSUME NEW n, n.kind = "call"
  PROVE  LET args == [i \in DOMAIN n.args |-> n.args[i].judged]
         IN  Judge(n) = IF n.op[3] = Len(args) /\ args = n.op[2].params
                          THEN n.op[2].returns ELSE NULL
  BY DEF Judge

LEMMA JudgeOfTwo ==
  ASSUME NEW n, n.kind \in {"assign", "binary"}, DOMAIN n.args = {1, 2},
         NEW s, s = n.args[1].judged, NEW t, t = n.args[2].judged
  PROVE  LET g == Greatest({s, t})
         IN  /\ n.kind = "assign" => Judge(n) = g
             /\ n.kind = "binary" =>
                  /\ n.op[1] = "&"  => Judge(n) = IF Number(g) THEN g ELSE NULL
                  /\ n.op[1] = "&&" => Judge(n) = IF g = Bool THEN g ELSE NULL
                  /\ n.op[1] = "<"  => Judge(n) = IF Scalar(g) THEN Bool ELSE NULL
                  /\ n.op[1] \in {"+", "-"} /\ Pointer(s) /\ Pointer(t) =>
                       Judge(n) = IF n.op[1] = "-" /\ g # NULL THEN S64 ELSE NULL
                  /\ n.op[1] \notin {"&", "&&", "<"} /\ ~(Pointer(s) /\ Pointer(t)) =>
                       Judge(n) = IF Scalar(g) THEN g ELSE NULL
                  /\ n.op[1] \notin {"&", "&&", "<", "+", "-"} =>
                       Judge(n) = IF Scalar(g) THEN g ELSE NULL
<1>. DEFINE args == [i \in DOMAIN n.args |-> n.args[i].judged]
<1>1. DOMAIN args = {1, 2} /\ args[1] = s /\ args[2] = t
  OBVIOUS
<1>2. {args[i] : i \in DOMAIN args} = {s, t}
  BY <1>1
<1>3. (\A i \in DOMAIN args : Pointer(args[i])) <=> Pointer(s) /\ Pointer(t)
  BY <1>1
<1>. HIDE DEF args
<1>. QED BY <1>2, <1>3 DEF Judge, args

LEMMA JudgeOfOne ==
  ASSUME NEW n, n.kind = "unary", DOMAIN n.args = {1}, NEW t, t = n.args[1].judged
  PROVE  LET g == Greatest({t})
         IN  /\ n.op[1] = "neg" => Judge(n) = IF Number(g) THEN g ELSE NULL
             /\ n.op[1] = "not" => Judge(n) = IF g = Bool THEN g ELSE NULL
             /\ n.op[1] \notin {"neg", "not"} => Judge(n) = IF Scalar(g) THEN n.op[2] ELSE NULL
<1>. DEFINE args == [i \in DOMAIN n.args |-> n.args[i].judged]
<1>1. DOMAIN args = {1} /\ args[1] = t
  OBVIOUS
<1>2. {args[i] : i \in DOMAIN args} = {t}
  BY <1>1
<1>. HIDE DEF args
<1>. QED BY <1>2 DEF Judge, args

LEMMA GreatestOfOne ==
  ASSUME NEW t
  PROVE  Greatest({t}) = t
<1>1. Converts(t, t) /\ {t, t} = {t}
  BY DEF Converts
<1>. QED BY <1>1, GreatestIs

-----------------------------------------------------------------------------
(* Nodes *)

LEMMA SameRegister ==
  ASSUME NEW m, NEW n, m.kind = n.kind, m.op = n.op, m.args = n.args, m.type = n.type
  PROVE  Gen(m) = Gen(n)
<1>1. Operation(m) = Operation(n)
  BY DEF Operation, SignKnown
<1>. QED BY <1>1 DEF Gen

LEMMA SameJudgement ==
  ASSUME NEW m, NEW n, m.kind = n.kind, m.op = n.op, m.args = n.args, m.gives = n.gives
  PROVE  Judge(m) = Judge(n)
  BY Zenon DEF Judge

LEMMA NodeIs ==
  ASSUME NEW kind, NEW op, NEW args, NEW result, NEW n, n = Node(kind, op, args, result)
  PROVE  /\ DOMAIN n = {"kind", "op", "args", "type", "gives", "register", "judged"}
         /\ n.kind = kind /\ n.op = op /\ n.args = args
         /\ n.type = result.type /\ n.gives = result.gives
         /\ n.register = Gen(n) /\ n.judged = Judge(n)
<1>. DEFINE m == [kind |-> kind, op |-> op, args |-> args,
                  type |-> result.type, gives |-> result.gives]
<1>1. n = [kind |-> kind, op |-> op, args |-> args, type |-> result.type, gives |-> result.gives,
           register |-> Gen(m), judged |-> Judge(m)]
  BY Zenon DEF Node
<1>2. /\ m.kind = kind /\ m.op = op /\ m.args = args
      /\ m.type = result.type /\ m.gives = result.gives
  OBVIOUS
<1>. HIDE DEF m
<1>3. /\ DOMAIN n = {"kind", "op", "args", "type", "gives", "register", "judged"}
      /\ n.kind = kind /\ n.op = op /\ n.args = args
      /\ n.type = result.type /\ n.gives = result.gives
      /\ n.register = Gen(m) /\ n.judged = Judge(m)
  BY <1>1
<1>4. Gen(m) = Gen(n) /\ Judge(m) = Judge(n)
  BY <1>2, <1>3, SameRegister, SameJudgement
<1>. QED BY <1>3, <1>4

-----------------------------------------------------------------------------
(* What the code generator makes of a node *)

Registers == [size : {0, 1, 2, 4, 8}, fault : {"none", "stop", "mixed"}]

\* A comparison of narrow operands
Narrow(n) == n.kind = "binary" /\ n.op[1] = "<" /\ n.type # NULL /\ SizeOf(n.type) < 8

\* A register's faults are those of a node or of one of the operands S.
Excused(r, n, S) ==
    /\ r \in Registers
    /\ r.fault = "stop" => \E m \in S \union {n} : Unprepared(m)
    /\ r.fault = "mixed" => \E m \in S \union {n} : Narrow(m)
    /\ r.size = 0 => n.gives = Void \/ \E m \in S \union {n} : Unprepared(m)

\* What every node has, whatever the code generator makes of it; its type may
\* have been replaced by another.
Formed(n) ==
    /\ n.kind \in {"literal", "lvar", "assign", "binary", "unary", "call"}
    /\ n.type \in Value /\ n.gives \in Value
    /\ n.kind \in {"literal", "lvar"} => n.args = <<>>
    /\ n.kind \in {"assign", "binary"} => DOMAIN n.args = {1, 2}
    /\ n.kind = "unary" => DOMAIN n.args = {1}
    /\ n.gives # NULL =>
         /\ n.kind \in {"literal", "lvar", "binary"} => n.type # NULL
         /\ n.kind = "assign" => n.args[2].gives # Void
         /\ n.kind = "unary" => /\ n.args[1].gives # Void
                                /\ n.op[1] \notin {"neg", "not"} => n.type # NULL
         /\ n.kind = "call" /\ n.op[2].returns = Void => n.gives = Void

\* the operation itself
LEMMA OperationExcused ==
  ASSUME NEW S, NEW n, Formed(n), HasSize(n.type), n.gives # NULL,
         \A i \in DOMAIN n.args : n.args[i] \in S /\ Excused(n.args[i].register, n.args[i], S)
  PROVE  LET r == Operation(n)
         IN  /\ r \in Registers
             /\ r.fault = "stop" => \E m \in S \union {n} : Unprepared(m)
             /\ r.fault = "mixed" => Narrow(n)
             /\ r.size = 0 => n.gives = Void \/ \E m \in S \union {n} : Unprepared(m)
<1>. DEFINE Blame == \E m \in S \union {n} : Unprepared(m)
            Right(r) == /\ r \in Registers
                        /\ r.fault = "stop" => Blame
                        /\ r.fault = "mixed" => Narrow(n)
                        /\ r.size = 0 => n.gives = Void \/ Blame
<1>. SUFFICES Right(Operation(n))
  OBVIOUS
<1>1. n.type # NULL => SizeOf(n.type) \in Bytes
  BY SizeIs DEF Formed, Value
<1>2. \A i \in DOMAIN n.args :
         /\ n.args[i].register \in Registers
         /\ n.args[i].register.size = 0 => n.args[i].gives = Void \/ Blame
  BY DEF Excused
<1>3. /\ Stop \in Registers /\ Stop.size = 0 /\ Stop.fault = "stop"
      /\ \A k \in {0, 1, 2, 4, 8} :
           /\ Register(k) \in Registers /\ Register(k).fault = "none" /\ Register(k).size = k
           /\ Mixed(k) \in Registers /\ Mixed(k).fault = "mixed" /\ Mixed(k).size = k
  BY DEF Stop, Register, Mixed, Registers
<1>4. Unprepared(n) => Blame
  OBVIOUS
<1>. HIDE DEF Blame
<1>5. Blame => Right(Stop)
  BY <1>3
<1>6. \A k \in Bytes : Right(Register(k))
  BY <1>3 DEF Bytes
<1>7. (n.gives = Void \/ Blame => Right(Register(0)))
  BY <1>3
<1>8. Narrow(n) => \A k \in Bytes : Right(Mixed(k))
  BY <1>3 DEF Bytes
<1>9. 8 \in Bytes
  BY DEF Bytes
<1>. HIDE DEF Right
<1>10. CASE n.kind \in {"literal", "lvar"}
  <2>1. SizeOf(n.type) \in Bytes
    BY <1>1, <1>10 DEF Formed
  <2>2. Operation(n) = Register(SizeOf(n.type))
    BY <1>10, <2>1 DEF Operation, Bytes
  <2>. QED BY <1>6, <2>1, <2>2
<1>11. CASE n.kind = "binary"
  <2>1. n.type # NULL /\ SizeOf(n.type) \in Bytes /\ DOMAIN n.args = {1, 2}
    BY <1>1, <1>11 DEF Formed
  <2>2. CASE ~SignKnown(n) \/ \E i \in {1, 2} : ~Cast(SizeOf(n.type), n.args[i])
    <3>1. \E i \in {1, 2} : n.args[i].type = NULL
      BY <2>2 DEF SignKnown, Cast
    <3>2. Unprepared(n)
      BY <1>11, <2>1, <3>1 DEF Unprepared
    <3>3. Operation(n) = Stop
      BY <1>11, <2>2 DEF Operation
    <3>. QED BY <1>4, <1>5, <3>2, <3>3
  <2>3. CASE SignKnown(n) /\ ~\E i \in {1, 2} : ~Cast(SizeOf(n.type), n.args[i])
    <3>1. CASE n.op[1] = "<" /\ SizeOf(n.type) # 8
      <4>1. Operation(n) = Mixed(SizeOf(n.type))
        BY <1>11, <2>1, <2>3, <3>1 DEF Operation, Bytes
      <4>2. Narrow(n)
        BY <1>11, <2>1, <3>1 DEF Narrow, Bytes
      <4>. QED BY <1>8, <2>1, <4>1, <4>2
    <3>2. CASE ~(n.op[1] = "<" /\ SizeOf(n.type) # 8)
      <4>1. Operation(n) = Register(SizeOf(n.type))
        BY <1>11, <2>1, <2>3, <3>2 DEF Operation, Bytes
      <4>. QED BY <1>6, <2>1, <4>1
    <3>. QED BY <3>1, <3>2
  <2>. QED BY <2>2, <2>3
<1>12. CASE n.kind = "assign"
  <2>1. DOMAIN n.args = {1, 2} /\ n.args[2].gives # Void
    BY <1>12 DEF Formed
  <2>2. CASE n.args[1].kind # "lvar" \/ n.args[2].register.size = 0
    <3>1. n.args[1].kind # "lvar" => Unprepared(n)
      BY <1>12 DEF Unprepared
    <3>2. Blame
      BY <1>2, <1>4, <2>1, <2>2, <3>1
    <3>3. Operation(n) = Stop
      BY <1>12, <2>2 DEF Operation
    <3>. QED BY <1>5, <3>2, <3>3
  <2>3. CASE n.args[1].kind = "lvar" /\ n.args[2].register.size # 0
    <3>1. Operation(n) = Register(n.args[2].register.size)
      BY <1>12, <2>3 DEF Operation
    <3>2. n.args[2].register.size \in Bytes
      BY <1>2, <2>1, <2>3 DEF Registers, Bytes
    <3>. QED BY <1>6, <3>1, <3>2
  <2>. QED BY <2>2, <2>3
<1>13. CASE n.kind = "unary"
  <2>1. DOMAIN n.args = {1} /\ n.args[1].gives # Void
    BY <1>13 DEF Formed
  <2>2. CASE n.op[1] \in {"neg", "not"}
    <3>1. Operation(n) = Register(n.args[1].register.size)
      BY <1>13, <2>2 DEF Operation
    <3>2. n.args[1].register.size \in {0, 1, 2, 4, 8}
      BY <1>2, <2>1 DEF Registers
    <3>3. n.args[1].register.size = 0 => Blame
      BY <1>2, <2>1
    <3>4. n.args[1].register.size \in Bytes \union {0}
      BY <3>2 DEF Bytes
    <3>. QED BY <1>6, <1>7, <3>1, <3>3, <3>4
  <2>3. CASE n.op[1] \notin {"neg", "not"}
    <3>1. Operation(n) = Register(SizeOf(n.type))
      BY <1>13, <2>3 DEF Operation
    <3>2. SizeOf(n.type) \in Bytes
      BY <1>1, <1>13, <2>3 DEF Formed
    <3>. QED BY <1>6, <3>1, <3>2
  <2>. QED BY <2>2, <2>3
<1>14. CASE n.kind = "call"
  <2>1. Operation(n) = Register(IF n.op[2].returns = Void THEN 0 ELSE 8)
    BY <1>14 DEF Operation
  <2>2. n.op[2].returns = Void => n.gives = Void
    BY <1>14 DEF Formed
  <2>. QED BY <1>6, <1>7, <1>9, <2>1, <2>2
<1>15. Right(Operation(n))
  BY <1>10, <1>11, <1>12, <1>13, <1>14 DEF Formed
<1>. QED BY <1>15

\* the operation itself, whether or not the node has a type
LEMMA OperationTypes ==
  ASSUME NEW n, Formed(n), HasSize(n.type),
         \A i \in DOMAIN n.args : n.args[i].register \in Registers
  PROVE  /\ Operation(n) \in Registers
         /\ Operation(n).fault = "mixed" => Narrow(n)
<1>. DEFINE Right(r) == r \in Registers /\ (r.fault = "mixed" => Narrow(n))
<1>. SUFFICES Right(Operation(n))
  OBVIOUS
<1>1. SizeOf(n.type) \in Bytes \union {0} /\ (SizeOf(n.type) # 0 => n.type # NULL)
  BY SizeIs DEF Formed, Value, SizeOf
<1>2. /\ Stop \in Registers /\ Stop.fault = "stop"
      /\ \A k \in {0, 1, 2, 4, 8} :
           /\ Register(k) \in Registers /\ Register(k).fault = "none"
           /\ Mixed(k) \in Registers
  BY DEF Stop, Register, Mixed, Registers
<1>3. Right(Stop) /\ \A k \in Bytes \union {0} : Right(Register(k))
  BY <1>2 DEF Bytes
<1>4. Narrow(n) => \A k \in Bytes : Right(Mixed(k))
  BY <1>2 DEF Bytes
<1>5. 8 \in Bytes \union {0} /\ 0 \in Bytes \union {0}
  BY DEF Bytes
<1>6. \A i \in DOMAIN n.args : n.args[i].register.size \in Bytes \union {0}
  BY DEF Registers, Bytes
<1>. HIDE DEF Right
<1>7. CASE n.kind \in {"literal", "lvar"}
  <2>1. Operation(n) \in {Stop, Register(SizeOf(n.type))}
    BY <1>7 DEF Operation
  <2>. QED BY <1>1, <1>3, <2>1
<1>8. CASE n.kind = "binary"
  <2>1. CASE Operation(n) \in {Stop, Register(SizeOf(n.type))}
    BY <1>1, <1>3, <2>1
  <2>2. CASE Operation(n) \notin {Stop, Register(SizeOf(n.type))}
    <3>1. SizeOf(n.type) # 0 /\ n.op[1] = "<" /\ SizeOf(n.type) # 8
          /\ Operation(n) = Mixed(SizeOf(n.type))
      BY <1>8, <2>2 DEF Operation
    <3>2. Narrow(n)
      BY <1>1, <1>8, <3>1 DEF Narrow, Bytes
    <3>. QED BY <1>1, <1>4, <3>1, <3>2
  <2>. QED BY <2>1, <2>2
<1>9. CASE n.kind = "assign"
  <2>1. Operation(n) \in {Stop, Register(n.args[2].register.size)}
    BY <1>9 DEF Operation
  <2>2. n.args[2].register.size \in Bytes \union {0}
    BY <1>6, <1>9 DEF Formed
  <2>. QED BY <1>3, <2>1, <2>2
<1>10. CASE n.kind = "unary"
  <2>1. Operation(n) = Register(IF n.op[1] \in {"neg", "not"} THEN n.args[1].register.size
                                                             ELSE SizeOf(n.type))
    BY <1>10 DEF Operation
  <2>2. n.args[1].register.size \in Bytes \union {0}
    BY <1>6, <1>10 DEF Formed
  <2>. QED BY <1>1, <1>3, <2>1, <2>2
<1>11. CASE n.kind = "call"
  <2>1. Operation(n) = Register(IF n.op[2].returns = Void THEN 0 ELSE 8)
    BY <1>11 DEF Operation
  <2>. QED BY <1>3, <1>5, <2>1
<1>. QED BY <1>7, <1>8, <1>9, <1>10, <1>11 DEF Formed

LEMMA GenExcused ==
  ASSUME NEW S, NEW n, Formed(n),
         \A i \in DOMAIN n.args : n.args[i] \in S /\ Excused(n.args[i].register, n.args[i], S)
  PROVE  Excused(Gen(n), n, S)
<1>1. n \in S \union {n}
  OBVIOUS
<1>2. Stop \in Registers /\ Stop.fault = "stop"
  BY DEF Stop, Registers
<1>3. CASE ~HasSize(n.type)
  <2>1. n.type \in {Unknown, Void}
    BY <1>3, SizeIs DEF Formed, Value, HasSize
  <2>2. Unprepared(n)
    BY <2>1 DEF Unprepared
  <2>3. Gen(n) = Stop
    BY <1>3 DEF Gen
  <2>. QED BY <1>1, <1>2, <2>2, <2>3 DEF Excused
<1>4. ASSUME NEW i \in DOMAIN n.args, n.args[i].register.fault = "stop"
      PROVE  \E m \in S \union {n} : Unprepared(m)
  <2>1. \E m \in S \union {n.args[i]} : Unprepared(m)
    BY <1>4 DEF Excused
  <2>. QED BY <2>1
<1>5. ASSUME NEW i \in DOMAIN n.args, n.args[i].register.fault = "mixed"
      PROVE  \E m \in S \union {n} : Narrow(m)
  <2>1. \E m \in S \union {n.args[i]} : Narrow(m)
    BY <1>5 DEF Excused
  <2>. QED BY <2>1
<1>6. \A i \in DOMAIN n.args : n.args[i].register \in Registers
  BY DEF Excused
<1>7. Worse(n.args) \in {"stop", "mixed"}
  BY DEF Worse
<1>8. Worse(n.args) = "stop" => \E m \in S \union {n} : Unprepared(m)
  BY <1>4 DEF Worse
<1>. DEFINE used == IF n.kind = "assign" THEN {2} ELSE DOMAIN n.args
<1>9. used \subseteq DOMAIN n.args
  BY DEF Formed
<1>10. (\E i \in used : n.args[i].register.fault # "none") /\ Worse(n.args) = "mixed"
         => \E m \in S \union {n} : Narrow(m)
  <2>1. SUFFICES ASSUME NEW i \in DOMAIN n.args, n.args[i].register.fault # "none",
                        Worse(n.args) = "mixed"
                 PROVE  \E m \in S \union {n} : Narrow(m)
    BY <1>9
  <2>2. n.args[i].register.fault # "stop"
    BY <2>1 DEF Worse
  <2>3. n.args[i].register.fault = "mixed"
    BY <1>6, <2>1, <2>2 DEF Registers
  <2>. QED BY <1>5, <2>3
<1>11. CASE HasSize(n.type) /\ n.gives # NULL
  <2>1. PICK r : r = Operation(n)
    OBVIOUS
  <2>2. /\ r \in Registers
        /\ r.fault = "stop" => \E m \in S \union {n} : Unprepared(m)
        /\ r.fault = "mixed" => Narrow(n)
        /\ r.size = 0 => n.gives = Void \/ \E m \in S \union {n} : Unprepared(m)
    BY <1>11, <2>1, OperationExcused
  <2>3. CASE \E i \in used : n.args[i].register.fault # "none"
    <3>1. Gen(n) = [r EXCEPT !.fault = Worse(n.args)]
      BY <1>11, <2>1, <2>3 DEF Gen
    <3>2. /\ Gen(n) \in Registers /\ Gen(n).fault = Worse(n.args) /\ Gen(n).size = r.size
      BY <1>7, <2>2, <3>1 DEF Registers
    <3>. HIDE DEF used
    <3>. QED BY <1>8, <1>10, <2>2, <2>3, <3>2 DEF Excused
  <2>4. CASE ~\E i \in used : n.args[i].register.fault # "none"
    <3>1. Gen(n) = r
      BY <1>11, <2>1, <2>4 DEF Gen
    <3>. HIDE DEF used
    <3>. QED BY <1>1, <2>2, <3>1 DEF Excused
  <2>. QED BY <2>3, <2>4
<1>12. CASE HasSize(n.type) /\ n.gives = NULL
  <2>1. Unprepared(n)
    BY <1>12 DEF Unprepared
  <2>2. PICK r : r = Operation(n)
    OBVIOUS
  <2>3. r \in Registers /\ (r.fault = "mixed" => Narrow(n))
    BY <1>6, <1>12, <2>2, OperationTypes
  <2>4. CASE \E i \in used : n.args[i].register.fault # "none"
    <3>1. Gen(n) = [r EXCEPT !.fault = Worse(n.args)]
      BY <1>12, <2>2, <2>4 DEF Gen
    <3>2. /\ Gen(n) \in Registers /\ Gen(n).fault = Worse(n.args)
      BY <1>7, <2>3, <3>1 DEF Registers
    <3>. HIDE DEF used
    <3>. QED BY <1>1, <1>10, <2>1, <2>4, <3>2 DEF Excused
  <2>5. CASE ~\E i \in used : n.args[i].register.fault # "none"
    <3>1. Gen(n) = r
      BY <1>12, <2>2, <2>5 DEF Gen
    <3>. HIDE DEF used
    <3>. QED BY <1>1, <2>1, <2>3, <3>1 DEF Excused
  <2>. QED BY <2>4, <2>5
<1>. QED BY <1>3, <1>11, <1>12

-----------------------------------------------------------------------------
(* The inductive invariant *)

Fields == {"kind", "op", "args", "type", "gives", "register", "judged"}

Kept(n, S) == /\ Formed(n) /\ DOMAIN n = Fields
              /\ Excused(n.register, n, S)
              /\ \A i \in DOMAIN n.args : n.args[i] \in S

\* An assignment that is refused without an error
Silent(n) == /\ n.kind = "assign" /\ n.gives = NULL
             /\ n.args[1].gives = n.args[2].gives
             /\ ~Number(n.args[1].gives) /\ n.args[1].gives # Bool

Present == operands \union Range(nodes)

\* The nodes, and the types sema_expr gave to those not yet used
NodesInv == /\ nodes \in Seq(Range(nodes))
            /\ \A n \in Present : Kept(n, operands)
            /\ ~reported => \A i \in DOMAIN nodes :
                              nodes[i].gives # NULL => nodes[i].gives = nodes[i].judged
            /\ reported /\ verdict = "none" => \E i \in DOMAIN nodes : nodes[i].judged = NULL

\* While sema_expr runs, what an error is due to, and a failure without one
ErrorsInv == verdict = "none" =>
               /\ reported => Failed \/ \E n \in Present : Misused(n)
               /\ ~reported /\ Failed => \E n \in Present : Silent(n)

\* A statement that has ended
StatementInv ==
    /\ statement.init \in Seq(Range(statement.init))
    /\ \A n \in Range(statement.init) :
         Formed(n) /\ \A i \in DOMAIN n.args : n.args[i] \in operands
    /\ verdict \in {"accepted", "generated"} =>
         /\ statement.kind # "none"
         /\ statement.kind # "decl" => statement.init # <<>> /\ statement.init[1].gives # NULL
         /\ statement.kind = "condition" /\ ~reported => statement.init[1].gives = Bool
         /\ statement.kind = "decl" /\ statement.init # <<>> /\ statement.init[1].gives # NULL =>
              statement.init[1].type = statement.type /\ statement.init[1].gives # Void

Generated ==
    IF statement.init = <<>>
      THEN Register(8)
      ELSE LET reg == Gen(statement.init[1])
           IN  IF reg.size = 0 /\ statement.kind # "expr" THEN Stop ELSE reg

CodeInv == code = IF verdict = "generated" THEN Generated ELSE Register(0)

SemaIInv == SemaTypeOK /\ NodesInv /\ ErrorsInv /\ StatementInv /\ VerdictFollowsErrors /\ CodeInv

-----------------------------------------------------------------------------
(* A call of sema_expr returns *)

LEMMA KeptMore ==
  ASSUME NEW n, NEW S, NEW T, Kept(n, S), S \subseteq T
  PROVE  Kept(n, T)
<1>1. Excused(n.register, n, T)
  BY Zenon DEF Kept, Excused
<1>. QED BY <1>1 DEF Kept

LEMMA SkippedKept ==
  ASSUME NEW S
  PROVE  Kept(Skipped, S) /\ Skipped.gives = NULL /\ Skipped.judged = NULL
<1>1. PICK n : n = Skipped
  OBVIOUS
<1>2. /\ DOMAIN n = Fields /\ n.kind = "lvar" /\ n.args = <<>> /\ n.type = NULL /\ n.gives = NULL
      /\ n.register = Gen(n) /\ n.judged = Judge(n)
  BY <1>1, NodeIs DEF Skipped, Failure, Result, Fields
<1>3. Formed(n)
  BY <1>2 DEF Formed, Value
<1>4. Excused(n.register, n, S)
  BY <1>2, <1>3, GenExcused
<1>5. n.judged = NULL
  BY <1>2, JudgeLeaf
<1>. QED BY <1>1, <1>2, <1>3, <1>4, <1>5 DEF Kept

\* The popped results are operands, and the operands are results or skipped.
Used(k, args) == /\ \A i \in Len(nodes) - k + 1 .. Len(nodes) : nodes[i] \in Range(args)
                 /\ Range(args) \subseteq Present \union {Skipped}

\* What a call must do for the invariant to hold of its result
Accounted(k, n, result) ==
    /\ result.error \in BOOLEAN
    /\ (\E i \in DOMAIN n.args : n.args[i].judged = NULL) => n.judged = NULL
    /\ result.error => n.gives = NULL \/ Misused(n)
    /\ ~reported /\ result.error => n.judged = NULL
    /\ ~reported /\ ~result.error /\ n.gives # NULL => n.gives = n.judged
    /\ Failed => n.gives = NULL /\ k >= 1
    /\ ~reported /\ ~result.error /\ ~Failed /\ n.gives = NULL => Silent(n)

LEMMA ReturnStep ==
  ASSUME SemaIInv, NEW k \in 0..Len(nodes), NEW kind, NEW op, NEW args, NEW result,
         Return(k, kind, op, args, result),
         NEW n, n = Node(kind, op, args, result), Formed(n),
         Used(k, args), Accounted(k, n, result)
  PROVE  SemaIInv'
<1>. USE DEF SemaIInv
<1>1. /\ DOMAIN n = Fields /\ n.args = args /\ n.register = Gen(n)
  BY NodeIs DEF Fields
<1>2. /\ verdict = "none" /\ verdict' = "none"
      /\ nodes' = Append(SubSeq(nodes, 1, Len(nodes) - k), n)
      /\ reported' = (reported \/ result.error) /\ reported' \in BOOLEAN
      /\ operands' = operands \union Range(args)
      /\ made' \in 0..MaxNodes /\ statement' = statement /\ code' = code
  <2>1. made \in 0..MaxNodes /\ reported \in BOOLEAN
    BY DEF SemaTypeOK
  <2>. QED BY <2>1, NodesAssumption DEF Return, Accounted
<1>3. PICK len \in Nat : len = Len(nodes)
  BY DEF NodesInv
<1>4. PICK rest \in Nat : rest = len - k /\ rest <= len /\ (rest = len <=> k = 0)
  <2>1. k \in 0..len
    BY <1>3
  <2>2. len - k \in Nat /\ len - k <= len /\ (len - k = len <=> k = 0)
    BY <2>1
  <2>. QED BY <2>2
<1>5. nodes \in Seq(Range(nodes)) /\ DOMAIN nodes = 1..len
  BY <1>3 DEF NodesInv
<1>. DEFINE old == SubSeq(nodes, 1, rest)
<1>6. old \in Seq(Range(nodes)) /\ Len(old) = rest /\ \A i \in 1..rest : old[i] = nodes[i]
  BY <1>3, <1>4, <1>5
<1>7. nodes' = Append(old, n)
  BY <1>2, <1>3, <1>4
<1>. HIDE DEF old
<1>8. /\ Len(nodes') = rest + 1 /\ DOMAIN nodes' = 1 .. rest + 1
      /\ \A i \in 1..rest : nodes'[i] = nodes[i]
      /\ nodes'[rest + 1] = n
  <2>1. old \in Seq(Range(nodes) \union {n})
    BY <1>6
  <2>. QED BY <1>6, <1>7, <2>1
<1>9. Range(nodes') = {nodes'[i] : i \in 1 .. rest + 1}
  BY <1>8 DEF Range
<1>10. nodes' \in Seq(Range(nodes'))
  <2>1. \A i \in 1 .. rest + 1 : nodes'[i] \in Range(nodes')
    BY <1>9
  <2>2. nodes' \in Seq(Range(nodes) \union {n})
    BY <1>6, <1>7
  <2>. QED BY <1>8, <2>1, <2>2
<1>11. Range(nodes') \subseteq Range(nodes) \union {n} /\ n \in Range(nodes')
  <2>1. \A i \in 1..rest : nodes[i] \in Range(nodes)
    BY <1>4, <1>5 DEF Range
  <2>. QED BY <1>4, <1>8, <1>9, <2>1
<1>12. Present \subseteq Present' /\ n \in Present' /\ Present' \subseteq Present \union {n, Skipped}
  <2>1. ASSUME NEW m \in Range(nodes) PROVE m \in operands' \/ m \in Range(nodes')
    <3>1. PICK i \in 1..len : m = nodes[i]
      BY <1>5 DEF Range
    <3>2. CASE i <= rest
      <4>1. i \in 1..rest /\ i \in 1 .. rest + 1
        BY <1>3, <1>4, <3>2
      <4>. QED BY <1>8, <1>9, <3>1, <4>1
    <3>3. CASE i > rest
      <4>1. i \in len - k + 1 .. len
        BY <1>3, <1>4, <3>3
      <4>. QED BY <1>2, <1>3, <3>1, <4>1 DEF Used
    <3>. QED BY <1>3, <1>4, <3>2, <3>3
  <2>2. Range(args) \subseteq Present \union {Skipped}
    BY DEF Used
  <2>. QED BY <1>2, <1>11, <2>1, <2>2 DEF Present
<1>13. operands \subseteq operands' /\ \A i \in DOMAIN args : args[i] \in operands'
  BY <1>2 DEF Range
<1>14. ASSUME NEW m \in Present \union {Skipped} PROVE Kept(m, operands')
  BY <1>13, KeptMore, SkippedKept DEF NodesInv
<1>15. Kept(n, operands')
  <2>1. \A i \in DOMAIN n.args : n.args[i] \in Present \union {Skipped}
    BY <1>1 DEF Used, Range
  <2>2. \A i \in DOMAIN n.args : n.args[i] \in operands'
                                   /\ Excused(n.args[i].register, n.args[i], operands')
    BY <1>1, <1>13, <1>14, <2>1 DEF Kept
  <2>3. Excused(Gen(n), n, operands')
    BY <2>2, GenExcused
  <2>. QED BY <1>1, <2>2, <2>3 DEF Kept
<1>16. SemaTypeOK'
  <2>1. ASSUME NEW i \in 1 .. rest + 1
        PROVE  DOMAIN nodes'[i] = Fields /\ (i < rest + 1 => nodes'[i].gives # NULL)
    <3>1. CASE i = rest + 1
      BY <1>1, <1>8, <3>1
    <3>2. CASE i # rest + 1
      <4>1. i \in 1..rest /\ i \in 1..len /\ (i < len \/ k = 0)
        BY <1>3, <1>4, <3>2
      <4>2. DOMAIN nodes[i] = Fields /\ (i < len => nodes[i].gives # NULL)
        BY <1>3, <1>5, <4>1 DEF SemaTypeOK, Fields
      <4>3. ASSUME k = 0, i = len PROVE nodes[i].gives # NULL
        <5>1. ~Failed
          BY <4>3 DEF Accounted
        <5>2. nodes # <<>>
          BY <1>5, <4>1
        <5>. QED BY <1>3, <4>3, <5>1, <5>2 DEF Failed
      <4>4. i < len \/ i = len
        BY <1>3, <4>1
      <4>. QED BY <1>8, <4>1, <4>2, <4>3, <4>4
    <3>. QED BY <3>1, <3>2
  <2>. QED BY <1>2, <1>8, <2>1 DEF SemaTypeOK, Fields
<1>17. NodesInv'
  <2>1. \A m \in Present' : Kept(m, operands')
    BY <1>12, <1>14, <1>15
  <2>2. ASSUME ~reported', NEW i \in 1 .. rest + 1, nodes'[i].gives # NULL
        PROVE  nodes'[i].gives = nodes'[i].judged
    <3>1. ~reported /\ ~result.error
      BY <1>2, <2>2
    <3>2. CASE i = rest + 1
      BY <1>8, <2>2, <3>1, <3>2 DEF Accounted
    <3>3. CASE i # rest + 1
      <4>1. i \in 1..rest /\ i \in 1..len
        BY <1>3, <1>4, <3>3
      <4>. QED BY <1>5, <1>8, <2>2, <3>1, <4>1 DEF NodesInv
    <3>. QED BY <3>2, <3>3
  <2>3. ASSUME reported' PROVE \E i \in 1 .. rest + 1 : nodes'[i].judged = NULL
    <3>1. CASE ~reported
      <4>1. n.judged = NULL
        BY <1>2, <2>3, <3>1 DEF Accounted
      <4>2. rest + 1 \in 1 .. rest + 1
        BY <1>4
      <4>. QED BY <1>8, <4>1, <4>2
    <3>2. CASE reported
      <4>1. PICK i \in 1..len : nodes[i].judged = NULL
        BY <1>2, <1>5, <3>2 DEF NodesInv
      <4>2. CASE i <= rest
        <5>1. i \in 1..rest /\ i \in 1 .. rest + 1
          BY <1>3, <1>4, <4>2
        <5>. QED BY <1>8, <4>1, <5>1
      <4>3. CASE i > rest
        <5>1. i \in len - k + 1 .. len
          BY <1>3, <1>4, <4>3
        <5>2. nodes[i] \in Range(args)
          BY <1>3, <5>1 DEF Used
        <5>3. \E j \in DOMAIN n.args : n.args[j].judged = NULL
          BY <1>1, <4>1, <5>2 DEF Range
        <5>4. n.judged = NULL
          BY <5>3 DEF Accounted
        <5>5. rest + 1 \in 1 .. rest + 1
          BY <1>4
        <5>. QED BY <1>8, <5>4, <5>5
      <4>. QED BY <1>3, <1>4, <4>2, <4>3
    <3>. QED BY <3>1, <3>2
  <2>. QED BY <1>8, <1>10, <2>1, <2>2, <2>3 DEF NodesInv
<1>18. ErrorsInv'
  <2>1. Failed' <=> n.gives = NULL
    <3>1. nodes' # <<>>
      BY <1>4, <1>8, <1>10
    <3>. QED BY <1>8, <3>1 DEF Failed
  <2>2. ASSUME reported' PROVE Failed' \/ \E m \in Present' : Misused(m)
    <3>1. CASE reported
      <4>1. Failed \/ \E m \in Present : Misused(m)
        BY <1>2, <3>1 DEF ErrorsInv
      <4>2. Failed => n.gives = NULL
        BY DEF Accounted
      <4>. QED BY <1>12, <2>1, <4>1, <4>2
    <3>2. CASE ~reported
      <4>1. n.gives = NULL \/ Misused(n)
        BY <1>2, <2>2, <3>2 DEF Accounted
      <4>. QED BY <1>12, <2>1, <4>1
    <3>. QED BY <3>1, <3>2
  <2>3. ASSUME ~reported', Failed' PROVE \E m \in Present' : Silent(m)
    <3>1. ~reported /\ ~result.error /\ n.gives = NULL
      BY <1>2, <2>1, <2>3
    <3>2. CASE Failed
      BY <1>2, <1>12, <3>1, <3>2 DEF ErrorsInv
    <3>3. CASE ~Failed
      <4>1. Silent(n)
        BY <3>1, <3>3 DEF Accounted
      <4>. QED BY <1>12, <4>1
    <3>. QED BY <3>2, <3>3
  <2>. QED BY <2>2, <2>3 DEF ErrorsInv
<1>19. StatementInv'
  BY <1>2, <1>13 DEF StatementInv
<1>20. VerdictFollowsErrors' /\ CodeInv'
  BY <1>2 DEF VerdictFollowsErrors, CodeInv
<1>. QED BY <1>16, <1>17, <1>18, <1>19, <1>20

-----------------------------------------------------------------------------
(* The rules give what the reference says *)

LEMMA ResultIs ==
  ASSUME NEW t, NEW g, NEW e
  PROVE  /\ Result(t, g, e).type = t /\ Result(t, g, e).gives = g /\ Result(t, g, e).error = e
         /\ Clean(t).type = t /\ Clean(t).gives = t /\ Clean(t).error = FALSE
         /\ Failure(e).type = NULL /\ Failure(e).gives = NULL /\ Failure(e).error = e
  BY DEF Result, Clean, Failure

AssignmentRule(to, from, r) ==
    /\ r.error \in BOOLEAN /\ r.type \in Value /\ r.gives \in Value
    /\ r.gives # NULL => ~r.error /\ r.gives = Greatest({to, from}) /\ from # Void
    /\ r.error => r.gives = NULL /\ Greatest({to, from}) = NULL
    /\ ~r.error /\ r.gives = NULL => to = from /\ ~Number(to) /\ to # Bool

LEMMA AssignedIs ==
  ASSUME NEW to \in Type, NEW from \in Type
  PROVE  AssignmentRule(to, from, Assigned(to, from))
<1>. DEFINE r == Assigned(to, from)
<1>. USE DEF AssignmentRule
<1>. DEFINE t == ImplicitCast(to, from)
<1>1. t \in {NULL, to, from}
  BY CastIs, WiderIs
<1>2. CASE t # NULL
  <2>1. r.type = t /\ r.gives = t /\ r.error = FALSE
    BY <1>2, ResultIs DEF Assigned
  <2>2. t = Greatest({to, from})
    BY <1>2, CommonIsGreatest
  <2>3. from # Void
    <3>1. from = Void => ~IsSigned(from) /\ ~IsUnsigned(from) /\ from # Bool /\ from # Unknown
                           /\ ~IsPointer(from)
      BY BasicTypes, Families DEF IsInteger
    <3>. QED BY <1>2, <3>1, CastIs DEF SameSign
  <2>. QED BY <1>1, <1>2, <2>1, <2>2, <2>3 DEF Value
<1>3. CASE t = NULL
  <2>1. r.type = NULL /\ r.gives = NULL /\ r.error = (to # from)
    BY <1>3, ResultIs DEF Assigned
  <2>2. to # from => Greatest({to, from}) = NULL
    BY <1>3, CommonIsGreatest
  <2>3. ASSUME to = from PROVE ~Number(to) /\ to # Bool
    <3>1. Greatest({to, from}) = to
      BY <2>3, GreatestOfOne
    <3>2. to # NULL
      BY TypeIs
    <3>. QED BY <1>3, <3>1, <3>2, CommonIsGreatest DEF Number
  <2>. QED BY <2>1, <2>2, <2>3 DEF Value
<1>. QED BY <1>2, <1>3

\* A binary operation that fails in no operand
LEMMA CombinedIs ==
  ASSUME NEW op \in Operators, NEW right \in Type, NEW left \in Type,
         NEW r, r = Combined(op, right, left),
         NEW n, n.kind = "binary", n.op = <<op>>, DOMAIN n.args = {1, 2}, n.gives = r.gives
  PROVE  /\ r.error \in BOOLEAN /\ r.type \in Value /\ r.gives \in Value
         /\ r.gives # NULL => r.type # NULL
         /\ r.error => r.gives = NULL \/ Misused(n)
         /\ ~r.error => r.gives # NULL
         /\ n.args[1].judged = right /\ n.args[2].judged = left =>
              IF r.error THEN Judge(n) = NULL ELSE Judge(n) = r.gives
<1>. DEFINE t == Common(right, left)
            j == n.args[1].judged = right /\ n.args[2].judged = left
            Right == /\ r.error \in BOOLEAN /\ r.type \in Value /\ r.gives \in Value
                     /\ r.gives # NULL => r.type # NULL
                     /\ r.error => r.gives = NULL \/ Misused(n)
                     /\ ~r.error => r.gives # NULL
                     /\ j => IF r.error THEN Judge(n) = NULL ELSE Judge(n) = r.gives
<1>1. t = Greatest({right, left}) /\ t \in {NULL, right, left}
  BY CommonIsGreatest
<1>2. n.op[1] = op
  OBVIOUS
<1>3. right # NULL /\ left # NULL /\ Bool # NULL /\ S64 # NULL /\ S64 \in Value /\ Bool \in Value
  BY TypeIs, BasicTypes DEF Value
<1>4. j =>
        /\ op = "&"  => Judge(n) = IF Number(t) THEN t ELSE NULL
        /\ op = "&&" => Judge(n) = IF t = Bool THEN t ELSE NULL
        /\ op = "<"  => Judge(n) = IF Scalar(t) THEN Bool ELSE NULL
        /\ op \in {"+", "-"} /\ Pointer(right) /\ Pointer(left) =>
             Judge(n) = IF op = "-" /\ t # NULL THEN S64 ELSE NULL
        /\ op \notin {"&", "&&", "<"} /\ ~(Pointer(right) /\ Pointer(left)) =>
             Judge(n) = IF Scalar(t) THEN t ELSE NULL
        /\ op \notin {"&", "&&", "<", "+", "-"} =>
             Judge(n) = IF Scalar(t) THEN t ELSE NULL
  BY <1>1, <1>2, JudgeOfTwo
<1>5. Pointer(right) <=> IsPointer(right)
  BY <1>3 DEF Pointer
<1>6. Pointer(left) <=> IsPointer(left)
  BY <1>3 DEF Pointer
<1>7. op \in {"+", "-", "*", "&", "&&", "<"}
  BY DEF Operators
<1>8. t \in Value /\ (t # NULL => t \in Type)
  BY <1>1 DEF Value
<1>9. Number(t) <=> t # NULL /\ IsInteger(t)
  BY DEF Number
<1>10. Scalar(t) <=> t # NULL /\ (IsInteger(t) \/ t = Bool \/ IsPointer(t))
  BY <1>3 DEF Scalar, Number, Pointer
<1>11. r = IF ~Scalar(t) THEN Failure(TRUE)
           ELSE CASE op = "&"  -> Result(t, t, ~IsInteger(t))
                  [] op = "&&" -> Result(t, t, t # Bool)
                  [] op = "<"  -> Result(t, Bool, FALSE)
                  [] op = "-" /\ IsPointer(right) /\ IsPointer(left) -> Clean(S64)
                  [] op = "+" /\ IsPointer(right) /\ IsPointer(left) -> Result(t, t, TRUE)
                  [] OTHER -> Clean(t)
  BY <1>10 DEF Combined
<1>. HIDE DEF t, j
<1>12. SUFFICES Right
  BY DEF j
<1>13. Misused(n) <=> /\ r.gives # NULL
                      /\ \/ op = "&" /\ ~IsInteger(r.gives)
                         \/ op = "&&" /\ r.gives # Bool
                         \/ op = "+" /\ IsPointer(r.gives)
  BY <1>2 DEF Misused
<1>14. CASE ~Scalar(t)
  <2>1. r.type = NULL /\ r.gives = NULL /\ r.error = TRUE
    BY <1>11, <1>14, ResultIs
  <2>2. ~Number(t) /\ t # Bool
    BY <1>14 DEF Scalar
  <2>3. Pointer(right) /\ Pointer(left) => t = NULL
    <3>1. SUFFICES ASSUME Pointer(right), Pointer(left), t # NULL PROVE FALSE
      OBVIOUS
    <3>2. IsPointer(t)
      BY <1>1, <1>5, <1>6, <3>1
    <3>. QED BY <1>10, <1>14, <3>1, <3>2
  <2>4. j => Judge(n) = NULL
    BY <1>4, <1>7, <1>14, <2>2, <2>3
  <2>. QED BY <2>1, <2>4 DEF Value
<1>15. CASE Scalar(t) /\ op = "&"
  <2>0. r = Result(t, t, ~IsInteger(t))
    BY <1>11, <1>15
  <2>1. r.type = t /\ r.gives = t /\ r.error = ~IsInteger(t)
    BY <2>0 DEF Result, Clean
  <2>. QED BY <1>4, <1>8, <1>9, <1>10, <1>13, <1>15, <2>1
<1>16. CASE Scalar(t) /\ op = "&&"
  <2>0. r = Result(t, t, t # Bool)
    BY <1>11, <1>16
  <2>1. r.type = t /\ r.gives = t /\ r.error = (t # Bool)
    BY <2>0 DEF Result, Clean
  <2>. QED BY <1>4, <1>8, <1>10, <1>13, <1>16, <2>1
<1>17. CASE Scalar(t) /\ op = "<"
  <2>0. r = Result(t, Bool, FALSE)
    BY <1>11, <1>17
  <2>1. r.type = t /\ r.gives = Bool /\ r.error = FALSE
    BY <2>0 DEF Result, Clean
  <2>. QED BY <1>3, <1>4, <1>8, <1>10, <1>17, <2>1
<1>18. CASE Scalar(t) /\ op = "-" /\ IsPointer(right) /\ IsPointer(left)
  <2>0. r = Clean(S64)
    BY <1>11, <1>18
  <2>1. r.type = S64 /\ r.gives = S64 /\ r.error = FALSE
    BY <2>0 DEF Result, Clean
  <2>. QED BY <1>3, <1>4, <1>5, <1>6, <1>10, <1>18, <2>1
<1>19. CASE Scalar(t) /\ op = "+" /\ IsPointer(right) /\ IsPointer(left)
  <2>0. r = Result(t, t, TRUE)
    BY <1>11, <1>19
  <2>1. r.type = t /\ r.gives = t /\ r.error = TRUE
    BY <2>0 DEF Result, Clean
  <2>2. IsPointer(t)
    BY <1>1, <1>10, <1>19
  <2>. QED BY <1>4, <1>5, <1>6, <1>8, <1>10, <1>13, <1>19, <2>1, <2>2
<1>20. CASE Scalar(t) /\ op \notin {"&", "&&", "<"}
            /\ ~(op \in {"+", "-"} /\ IsPointer(right) /\ IsPointer(left))
  <2>1. r = Clean(t)
    BY <1>11, <1>20
  <2>2. r.type = t /\ r.gives = t /\ r.error = FALSE
    BY <2>1 DEF Result, Clean
  <2>3. j => Judge(n) = t
    BY <1>4, <1>5, <1>6, <1>20
  <2>. QED BY <1>8, <1>10, <1>20, <2>2, <2>3
<1>. QED BY <1>7, <1>14, <1>15, <1>16, <1>17, <1>18, <1>19, <1>20

LEMMA UnaryIs ==
  ASSUME NEW op \in Unary
  PROVE  /\ op[1] \in {"neg", "not", "cast"}
         /\ op[1] = "cast" => op[2] \in Type /\ op[2] # NULL
<1>1. CASE op \in {<<"neg">>, <<"not">>}
  BY <1>1
<1>2. ASSUME NEW t \in TypeNames, op = <<"cast", t>>
      PROVE  op[1] = "cast" /\ op[2] \in Type /\ op[2] # NULL
  BY <1>2, TypesAssumption, TypeIs
<1>. QED BY <1>1, <1>2 DEF Unary

LEMMA AppliedIs ==
  ASSUME NEW op \in Unary, NEW right \in Type, NEW r, r = Applied(op, right),
         NEW n, n.kind = "unary", n.op = op, DOMAIN n.args = {1}, n.gives = r.gives
  PROVE  /\ r.error \in BOOLEAN /\ r.type \in Value /\ r.gives \in Value
         /\ r.gives # NULL => right # Void /\ (op[1] \notin {"neg", "not"} => r.type # NULL)
         /\ r.error <=> r.gives = NULL
         /\ n.args[1].judged = right => Judge(n) = r.gives
<1>1. op[1] \in {"neg", "not", "cast"} /\ (op[1] = "cast" => op[2] \in Type /\ op[2] # NULL)
  BY UnaryIs
<1>2. right # NULL /\ Bool # NULL /\ Bool \in Type /\ Bool # Void
  BY TypeIs, BasicTypes
<1>3. n.args[1].judged = right =>
        /\ op[1] = "neg" => Judge(n) = IF Number(right) THEN right ELSE NULL
        /\ op[1] = "not" => Judge(n) = IF right = Bool THEN right ELSE NULL
        /\ op[1] = "cast" => Judge(n) = IF Scalar(right) THEN op[2] ELSE NULL
  <2>1. SUFFICES ASSUME n.args[1].judged = right
                 PROVE  /\ op[1] = "neg" => Judge(n) = IF Number(right) THEN right ELSE NULL
                        /\ op[1] = "not" => Judge(n) = IF right = Bool THEN right ELSE NULL
                        /\ op[1] = "cast" => Judge(n) = IF Scalar(right) THEN op[2] ELSE NULL
    OBVIOUS
  <2>2. Greatest({right}) = right
    BY GreatestOfOne
  <2>. QED BY <2>1, <2>2, JudgeOfOne
<1>4. Number(right) <=> IsInteger(right)
  BY <1>2 DEF Number
<1>5. Scalar(right) <=> IsInteger(right) \/ right = Bool \/ IsPointer(right)
  BY <1>2 DEF Scalar, Number, Pointer
<1>6. Scalar(right) => right # Void
  BY <1>2, <1>5, Families
<1>7. CASE op[1] = "neg" /\ IsInteger(right)
  <2>1. r = Clean(right)
    BY <1>7 DEF Applied
  <2>2. r.type = right /\ r.gives = right /\ r.error = FALSE
    BY <2>1 DEF Result, Clean
  <2>. QED BY <1>2, <1>3, <1>4, <1>5, <1>6, <1>7, <2>2 DEF Value
<1>8. CASE op[1] = "not" /\ right = Bool
  <2>1. r = Result(NULL, Bool, FALSE)
    BY <1>8 DEF Applied
  <2>2. r.type = NULL /\ r.gives = Bool /\ r.error = FALSE
    BY <2>1 DEF Result, Clean
  <2>. QED BY <1>2, <1>3, <1>8, <2>2 DEF Value
<1>9. CASE op[1] = "cast" /\ Scalar(right)
  <2>1. r = Clean(op[2])
    BY <1>5, <1>9 DEF Applied
  <2>2. r.type = op[2] /\ r.gives = op[2] /\ r.error = FALSE
    BY <2>1 DEF Result, Clean
  <2>. QED BY <1>1, <1>3, <1>6, <1>9, <2>2 DEF Value
<1>10. CASE /\ ~(op[1] = "neg" /\ IsInteger(right)) /\ ~(op[1] = "not" /\ right = Bool)
            /\ ~(op[1] = "cast" /\ Scalar(right))
  <2>1. r = Failure(TRUE)
    BY <1>5, <1>10 DEF Applied
  <2>2. r.type = NULL /\ r.gives = NULL /\ r.error = TRUE
    BY <2>1, ResultIs
  <2>. QED BY <1>1, <1>3, <1>4, <1>10, <2>2 DEF Value
<1>. QED BY <1>7, <1>8, <1>9, <1>10

\* An operation on what has no type has none.
LEMMA JudgeOfNoType ==
  ASSUME NEW n, NEW i \in DOMAIN n.args, n.args[i].judged = NULL,
         n.kind \in {"assign", "binary", "unary", "call"},
         n.kind \in {"assign", "binary"} => DOMAIN n.args = {1, 2},
         n.kind = "unary" => DOMAIN n.args = {1},
         n.kind = "call" => n.op[2] \in Functions
  PROVE  Judge(n) = NULL
<1>1. ~Number(NULL) /\ NULL # Bool /\ ~Pointer(NULL) /\ ~Scalar(NULL)
  BY BasicTypes DEF Number, Pointer, Scalar
<1>2. CASE n.kind \in {"assign", "binary"}
  <2>1. PICK s, t : s = n.args[1].judged /\ t = n.args[2].judged
    OBVIOUS
  <2>2. s = NULL \/ t = NULL
    BY <1>2, <2>1
  <2>3. Greatest({s, t}) = NULL
    BY <2>2, GreatestOfNone
  <2>4. ~(Pointer(s) /\ Pointer(t))
    BY <1>1, <2>2
  <2>5. /\ n.kind = "assign" => Judge(n) = NULL
        /\ n.kind = "binary" =>
             /\ n.op[1] = "&"  => Judge(n) = NULL
             /\ n.op[1] = "&&" => Judge(n) = NULL
             /\ n.op[1] = "<"  => Judge(n) = NULL
             /\ n.op[1] \notin {"&", "&&", "<"} => Judge(n) = NULL
    BY <1>1, <1>2, <2>1, <2>3, <2>4, JudgeOfTwo
  <2>. QED BY <1>2, <2>5
<1>3. CASE n.kind = "unary"
  <2>1. n.args[1].judged = NULL
    BY <1>3
  <2>2. Greatest({NULL}) = NULL
    BY GreatestOfOne
  <2>3. /\ n.op[1] = "neg" => Judge(n) = NULL
        /\ n.op[1] = "not" => Judge(n) = NULL
        /\ n.op[1] \notin {"neg", "not"} => Judge(n) = NULL
    BY <1>1, <1>3, <2>1, <2>2, JudgeOfOne
  <2>. QED BY <2>3
<1>4. CASE n.kind = "call"
  <2>. DEFINE args == [j \in DOMAIN n.args |-> n.args[j].judged]
  <2>1. args[i] = NULL /\ DOMAIN args = DOMAIN n.args
    OBVIOUS
  <2>2. n.op[2].params \in Seq(Type)
    BY <1>4, FunctionsAssumption
  <2>3. args # n.op[2].params
    <3>1. SUFFICES ASSUME args = n.op[2].params PROVE FALSE
      OBVIOUS
    <3>. HIDE DEF args
    <3>2. args[i] \in Type
      BY <2>1, <2>2, <3>1
    <3>. QED BY <2>1, <3>2, TypeIs
  <2>. QED BY <1>4, <2>3, JudgeCall
<1>. QED BY <1>2, <1>3, <1>4

\* The results that a call uses
LEMMA NewestIs ==
  ASSUME NodesInv, NEW k \in 0..Len(nodes)
  PROVE  /\ Newest(k) \in Seq(Range(nodes)) /\ Len(Newest(k)) = k /\ DOMAIN Newest(k) = 1..k
         /\ \A i \in 1..k : Newest(k)[i] = nodes[Len(nodes) - k + i]
         /\ \A i \in 1..k : Newest(k)[i] \in Range(nodes)
         /\ Used(k, Newest(k))
<1>1. PICK len \in Nat : len = Len(nodes)
  BY DEF NodesInv
<1>2. nodes \in Seq(Range(nodes)) /\ DOMAIN nodes = 1..len
  BY <1>1 DEF NodesInv
<1>3. k \in 0..len
  BY <1>1
<1>4. /\ Newest(k) \in Seq(Range(nodes)) /\ Len(Newest(k)) = k
      /\ \A i \in 1..k : Newest(k)[i] = nodes[len - k + i]
  BY <1>1, <1>2, <1>3 DEF Newest
<1>5. DOMAIN Newest(k) = 1..k
  BY <1>3, <1>4
<1>6. \A i \in 1..k : Newest(k)[i] \in Range(nodes)
  BY <1>4, <1>5
<1>7. Used(k, Newest(k))
  <2>1. ASSUME NEW i \in len - k + 1 .. len PROVE nodes[i] \in Range(Newest(k))
    <3>1. PICK j \in 1..k : i = len - k + j
      <4>1. i - (len - k) \in 1..k /\ i = len - k + (i - (len - k))
        BY <1>3
      <4>. QED BY <4>1
    <3>. QED BY <1>4, <1>5, <3>1 DEF Range
  <2>2. Range(Newest(k)) \subseteq Present
    BY <1>5, <1>6 DEF Range, Present
  <2>. QED BY <1>1, <2>1, <2>2 DEF Used
<1>. QED BY <1>1, <1>4, <1>5, <1>6, <1>7

\* If the last call has not failed, no call has.
LEMMA Typed ==
  ASSUME SemaTypeOK, NodesInv, ~Failed, NEW i \in 1..Len(nodes)
  PROVE  /\ nodes[i].gives \in Type /\ nodes[i].gives # NULL
         /\ ~reported => nodes[i].judged = nodes[i].gives
<1>1. PICK len \in Nat : len = Len(nodes)
  BY DEF NodesInv
<1>2. DOMAIN nodes = 1..len /\ i \in 1..len /\ nodes # <<>>
  BY <1>1 DEF NodesInv
<1>3. nodes[i].gives # NULL
  <2>1. i < len \/ i = len
    BY <1>2
  <2>. QED BY <1>1, <1>2, <2>1 DEF SemaTypeOK, Failed
<1>4. Kept(nodes[i], operands)
  BY <1>2 DEF NodesInv, Present, Range
<1>5. nodes[i].gives \in Type
  BY <1>3, <1>4 DEF Kept, Formed, Value
<1>. QED BY <1>2, <1>3, <1>5 DEF NodesInv

\* the same of the results that a call uses
LEMMA TypedNewest ==
  ASSUME SemaTypeOK, NodesInv, ~Failed, NEW k \in 0..Len(nodes), NEW i \in 1..k
  PROVE  /\ Newest(k)[i].gives \in Type /\ Newest(k)[i].gives # NULL
         /\ ~reported => Newest(k)[i].judged = Newest(k)[i].gives
<1>1. PICK len \in Nat : len = Len(nodes)
  BY DEF NodesInv
<1>2. PICK j \in 1..len : j = len - k + i
  <2>1. k \in 0..len
    BY <1>1
  <2>2. len - k + i \in 1..len
    BY <2>1
  <2>. QED BY <2>2
<1>3. Newest(k)[i] = nodes[j]
  BY <1>1, <1>2, NewestIs
<1>. QED BY <1>1, <1>3, Typed

LEMMA LeafStep ==
  ASSUME SemaIInv, Literal \/ Lvar
  PROVE  SemaIInv'
<1>. DEFINE Returned(kind, r) == /\ kind \in {"literal", "lvar"}
                             /\ Return(0, kind, <<>>, <<>>, r) /\ ~Failed
                             /\ \/ \E t \in Type : r = Clean(t)
                                \/ r = Failure(TRUE)
<1>0. \E kind, r : Returned(kind, r)
  <2>1. CASE Literal
    <3>1. PICK t \in LiteralTypes : Return(0, "literal", <<>>, <<>>, Clean(t)) /\ ~Failed
      BY <2>1 DEF Literal
    <3>2. Returned("literal", Clean(t))
      BY <3>1, TypesAssumption
    <3>. HIDE DEF Returned
    <3>. QED BY <3>2
  <2>2. CASE ~Failed /\ \E t \in VarTypes : Return(0, "lvar", <<>>, <<>>, Clean(t))
    <3>1. PICK t \in VarTypes : Return(0, "lvar", <<>>, <<>>, Clean(t))
      BY <2>2
    <3>2. Returned("lvar", Clean(t))
      BY <2>2, <3>1, TypesAssumption
    <3>. HIDE DEF Returned
    <3>. QED BY <3>2
  <2>3. CASE ~Failed /\ Return(0, "lvar", <<>>, <<>>, Failure(TRUE))
    <3>1. Returned("lvar", Failure(TRUE))
      BY <2>3
    <3>. HIDE DEF Returned
    <3>. QED BY <3>1
  <2>. HIDE DEF Returned
  <2>. QED BY <2>1, <2>2, <2>3 DEF Lvar
<1>1. PICK kind, r : Returned(kind, r)
  BY <1>0
<1>2. PICK n : n = Node(kind, <<>>, <<>>, r)
  OBVIOUS
<1>3. /\ r.error \in BOOLEAN /\ r.type \in Value /\ r.gives = r.type
      /\ r.error <=> r.gives = NULL
  <2>1. CASE r = Failure(TRUE)
    BY <2>1 DEF Failure, Result, Value
  <2>2. ASSUME NEW t \in Type, r = Clean(t)
        PROVE  r.error = FALSE /\ r.type = t /\ r.gives = t /\ t # NULL
    BY <2>2, TypeIs DEF Clean, Result
  <2>. QED BY <1>1, <2>1, <2>2 DEF Value
<1>4. n.kind = kind /\ n.args = <<>> /\ n.type = r.type /\ n.gives = r.gives /\ n.judged = Judge(n)
  BY <1>2, NodeIs
<1>5. n.judged = n.gives
  BY <1>1, <1>4, JudgeLeaf
<1>6. Formed(n)
  BY <1>1, <1>3, <1>4 DEF Formed
<1>7. PICK len \in Nat : len = Len(nodes)
  BY DEF SemaIInv, NodesInv
<1>8. Used(0, <<>>)
  <2>1. len - 0 + 1 .. len = {}
    BY <1>7
  <2>. QED BY <1>7, <2>1 DEF Used, Range
<1>9. Accounted(0, n, r)
  BY <1>1, <1>3, <1>4, <1>5 DEF Accounted
<1>10. 0 \in 0..Len(nodes)
  BY <1>7
<1>. QED BY <1>1, <1>2, <1>6, <1>8, <1>9, <1>10, ReturnStep

\* An operand has failed, and so does the operation.
LEMMA FailsStep ==
  ASSUME SemaIInv, NEW kind \in {"assign", "binary"}, NEW op,
         FirstFails(kind, op) \/ SecondFails(kind, op)
  PROVE  SemaIInv'
<1>1. PICK len \in Nat : len = Len(nodes)
  BY DEF SemaIInv, NodesInv
<1>2. nodes \in Seq(Range(nodes)) /\ DOMAIN nodes = 1..len
  BY <1>1 DEF SemaIInv, NodesInv
<1>3. Failed /\ len >= 1 /\ len \in 1..len
  <2>1. Failed
    BY DEF FirstFails, SecondFails
  <2>2. len # 0
    BY <1>1, <1>2, <2>1 DEF Failed
  <2>. QED BY <2>1, <2>2
<1>4. \E k, args :
         /\ k \in 1..len
         /\ Return(k, kind, op, args, Failure(FALSE))
         /\ DOMAIN args = {1, 2} /\ Used(k, args)
  <2>1. CASE FirstFails(kind, op)
    <3>. DEFINE args == <<nodes[Len(nodes)], Skipped>>
    <3>0. 1 \in 1..len
      BY <1>3
    <3>1. Return(1, kind, op, args, Failure(FALSE))
      BY <2>1, Zenon DEF FirstFails
    <3>2. DOMAIN args = {1, 2} /\ args[1] = nodes[len] /\ args[2] = Skipped
      BY <1>1
    <3>. HIDE DEF args
    <3>3. Range(args) = {nodes[len], Skipped}
      BY <3>2 DEF Range
    <3>4. nodes[len] \in Present
      BY <1>2, <1>3 DEF Present, Range
    <3>5. len - 1 + 1 .. len = {len}
      BY <1>3
    <3>6. Used(1, args)
      BY <1>1, <3>3, <3>4, <3>5 DEF Used
    <3>. QED BY <3>0, <3>1, <3>2, <3>6
  <2>2. CASE SecondFails(kind, op)
    <3>0. Return(2, kind, op, Newest(2), Failure(FALSE)) /\ Len(nodes) >= 2
      BY <2>2, Zenon DEF SecondFails
    <3>1. 2 \in 1..len /\ 2 \in 0..Len(nodes)
      BY <1>1, <3>0
    <3>2. DOMAIN Newest(2) = 1..2 /\ Used(2, Newest(2))
      BY <3>1, NewestIs DEF SemaIInv
    <3>3. 1..2 = {1, 2}
      OBVIOUS
    <3>. QED BY <3>0, <3>1, <3>2, <3>3
  <2>. QED BY <2>1, <2>2
<1>5. PICK k, args :
         /\ k \in 1..len
         /\ Return(k, kind, op, args, Failure(FALSE))
         /\ DOMAIN args = {1, 2} /\ Used(k, args)
  BY <1>4
<1>6. PICK r, n : r = Failure(FALSE) /\ n = Node(kind, op, args, r)
  OBVIOUS
<1>7. r.type = NULL /\ r.gives = NULL /\ r.error = FALSE
  BY <1>6 DEF Failure, Result
<1>8. /\ n.kind = kind /\ n.args = args /\ n.type = NULL /\ n.gives = NULL /\ n.judged = Judge(n)
  <2>1. n = Node(kind, op, args, r)
    BY <1>6
  <2>2. /\ n.kind = kind /\ n.args = args /\ n.judged = Judge(n)
        /\ n.type = r.type /\ n.gives = r.gives
    BY <2>1, NodeIs
  <2>. QED BY <1>7, <2>2
<1>9. Formed(n)
  BY <1>5, <1>8 DEF Formed, Value
<1>10. (\E i \in DOMAIN n.args : n.args[i].judged = NULL) => n.judged = NULL
  BY <1>5, <1>8, JudgeOfNoType
<1>11. Accounted(k, n, r)
  <2>1. k >= 1
    BY <1>5
  <2>. QED BY <1>3, <1>7, <1>8, <1>10, <2>1 DEF Accounted
<1>12. k \in 0..Len(nodes)
  BY <1>1, <1>5
<1>. QED BY <1>5, <1>6, <1>9, <1>11, <1>12, ReturnStep

LEMMA AssignStep ==
  ASSUME SemaIInv, Assign
  PROVE  SemaIInv'
<1>1. CASE FirstFails("assign", <<>>) \/ SecondFails("assign", <<>>)
  BY <1>1, FailsStep
<1>2. CASE ~(FirstFails("assign", <<>>) \/ SecondFails("assign", <<>>))
  <2>1. PICK args, to, from, r, n :
           /\ args = Newest(2) /\ to = args[1].gives /\ from = args[2].gives
           /\ r = Assigned(to, from) /\ n = Node("assign", <<>>, args, r)
    OBVIOUS
  <2>2. /\ ~Failed /\ Len(nodes) >= 2 /\ 2 \in 0..Len(nodes)
        /\ Return(2, "assign", <<>>, args, r)
    <3>1. PICK len \in Nat : len = Len(nodes)
      BY DEF SemaIInv, NodesInv
    <3>2. ~Failed /\ Len(nodes) >= 2 /\ Return(2, "assign", <<>>, args, r)
      BY <1>2, <2>1 DEF Assign
    <3>. QED BY <3>1, <3>2
  <2>3. DOMAIN args = {1, 2} /\ Used(2, args)
    <3>1. 1..2 = {1, 2}
      OBVIOUS
    <3>. QED BY <2>1, <2>2, <3>1, NewestIs DEF SemaIInv
  <2>4. /\ to \in Type /\ from \in Type
        /\ ~reported => args[1].judged = to /\ args[2].judged = from
    <3>1. 1 \in 1..2 /\ 2 \in 1..2
      OBVIOUS
    <3>. QED BY <2>1, <2>2, <3>1, TypedNewest DEF SemaIInv
  <2>5. /\ r.error \in BOOLEAN /\ r.type \in Value /\ r.gives \in Value
        /\ r.gives # NULL => ~r.error /\ r.gives = Greatest({to, from}) /\ from # Void
        /\ r.error => r.gives = NULL /\ Greatest({to, from}) = NULL
        /\ ~r.error /\ r.gives = NULL => to = from /\ ~Number(to) /\ to # Bool
    <3>1. AssignmentRule(to, from, r)
      BY <2>1, <2>4, AssignedIs
    <3>. QED BY <3>1 DEF AssignmentRule
  <2>6. /\ n.kind = "assign" /\ n.args = args /\ n.type = r.type /\ n.gives = r.gives
        /\ n.judged = Judge(n)
    BY <2>1, NodeIs
  <2>7. Formed(n)
    BY <2>1, <2>3, <2>5, <2>6 DEF Formed
  <2>8. ~reported => n.judged = Greatest({to, from})
    BY <2>3, <2>4, <2>6, JudgeOfTwo
  <2>9. (\E i \in DOMAIN n.args : n.args[i].judged = NULL) => n.judged = NULL
    BY <2>3, <2>6, JudgeOfNoType
  <2>10. ~r.error /\ n.gives = NULL => Silent(n)
    BY <2>1, <2>5, <2>6 DEF Silent
  <2>11. Accounted(2, n, r)
    BY <2>2, <2>5, <2>6, <2>8, <2>9, <2>10 DEF Accounted
  <2>. QED BY <2>1, <2>2, <2>3, <2>7, <2>11, ReturnStep
<1>. QED BY <1>1, <1>2

LEMMA BinaryStep ==
  ASSUME SemaIInv, Binary
  PROVE  SemaIInv'
<1>1. PICK op \in Operators :
         \/ FirstFails("binary", <<op>>) \/ SecondFails("binary", <<op>>)
         \/ /\ ~Failed /\ Len(nodes) >= 2
            /\ Return(2, "binary", <<op>>, Newest(2),
                      Combined(op, Newest(2)[1].gives, Newest(2)[2].gives))
  BY DEF Binary
<1>2. CASE FirstFails("binary", <<op>>) \/ SecondFails("binary", <<op>>)
  BY <1>2, FailsStep
<1>3. CASE ~(FirstFails("binary", <<op>>) \/ SecondFails("binary", <<op>>))
  <2>1. PICK args, right, left, r, n :
           /\ args = Newest(2) /\ right = args[1].gives /\ left = args[2].gives
           /\ r = Combined(op, right, left) /\ n = Node("binary", <<op>>, args, r)
    OBVIOUS
  <2>2. /\ ~Failed /\ Len(nodes) >= 2 /\ 2 \in 0..Len(nodes)
        /\ Return(2, "binary", <<op>>, args, r)
    <3>1. PICK len \in Nat : len = Len(nodes)
      BY DEF SemaIInv, NodesInv
    <3>2. ~Failed /\ Len(nodes) >= 2 /\ Return(2, "binary", <<op>>, args, r)
      BY <1>1, <1>3, <2>1
    <3>. QED BY <3>1, <3>2
  <2>3. DOMAIN args = {1, 2} /\ Used(2, args)
    <3>1. 1..2 = {1, 2}
      OBVIOUS
    <3>. QED BY <2>1, <2>2, <3>1, NewestIs DEF SemaIInv
  <2>4. /\ right \in Type /\ left \in Type
        /\ ~reported => args[1].judged = right /\ args[2].judged = left
    <3>1. 1 \in 1..2 /\ 2 \in 1..2
      OBVIOUS
    <3>. QED BY <2>1, <2>2, <3>1, TypedNewest DEF SemaIInv
  <2>5. /\ n.kind = "binary" /\ n.op = <<op>> /\ n.args = args /\ n.type = r.type
        /\ n.gives = r.gives /\ n.judged = Judge(n)
    BY <2>1, NodeIs
  <2>6. /\ r.error \in BOOLEAN /\ r.type \in Value /\ r.gives \in Value
        /\ r.gives # NULL => r.type # NULL
        /\ r.error => r.gives = NULL \/ Misused(n)
        /\ ~r.error => r.gives # NULL
        /\ n.args[1].judged = right /\ n.args[2].judged = left =>
             IF r.error THEN Judge(n) = NULL ELSE Judge(n) = r.gives
    BY <2>1, <2>3, <2>4, <2>5, CombinedIs
  <2>7. Formed(n)
    BY <2>3, <2>5, <2>6 DEF Formed
  <2>8. (\E i \in DOMAIN n.args : n.args[i].judged = NULL) => n.judged = NULL
    BY <2>3, <2>5, JudgeOfNoType
  <2>9. Accounted(2, n, r)
    BY <2>2, <2>4, <2>5, <2>6, <2>8 DEF Accounted
  <2>. QED BY <2>1, <2>2, <2>3, <2>7, <2>9, ReturnStep
<1>. QED BY <1>1, <1>2, <1>3

LEMMA CrashStep ==
  ASSUME SemaIInv, NEW e \in BOOLEAN, Crash(e)
  PROVE  SemaIInv'
<1>1. /\ verdict = "none" /\ verdict' = "crash" /\ reported' = (reported \/ e)
      /\ reported' \in BOOLEAN
      /\ UNCHANGED <<nodes, made, operands, statement, code>>
  BY DEF Crash, SemaIInv, SemaTypeOK
<1>2. SemaTypeOK'
  BY <1>1 DEF SemaIInv, SemaTypeOK
<1>3. NodesInv'
  BY <1>1 DEF SemaIInv, NodesInv, Present
<1>4. ErrorsInv' /\ StatementInv' /\ VerdictFollowsErrors' /\ CodeInv'
  BY <1>1 DEF SemaIInv, ErrorsInv, StatementInv, VerdictFollowsErrors, CodeInv
<1>. QED BY <1>2, <1>3, <1>4 DEF SemaIInv

LEMMA UnaryStep ==
  ASSUME SemaIInv, UnaryOp
  PROVE  SemaIInv'
<1>1. CASE Failed
  BY <1>1, CrashStep DEF UnaryOp
<1>2. CASE ~Failed
  <2>1. PICK len \in Nat : len = Len(nodes)
    BY DEF SemaIInv, NodesInv
  <2>2. len >= 1 /\ len \in 1..len /\ 1 \in 0..Len(nodes)
    <3>1. nodes \in Seq(Range(nodes)) /\ nodes # <<>>
      BY DEF UnaryOp, SemaIInv, NodesInv
    <3>2. len # 0
      BY <2>1, <3>1
    <3>. QED BY <2>1, <3>2
  <2>3. PICK op \in Unary : Return(1, "unary", op, Newest(1), Applied(op, nodes[Len(nodes)].gives))
    BY <1>2 DEF UnaryOp
  <2>4. PICK args, right, r, n :
           /\ args = Newest(1) /\ right = args[1].gives
           /\ r = Applied(op, right) /\ n = Node("unary", op, args, r)
    OBVIOUS
  <2>5. DOMAIN args = {1} /\ Used(1, args) /\ args[1] = nodes[len]
    <3>1. 1..1 = {1} /\ len - 1 + 1 = len
      BY <2>1
    <3>2. /\ DOMAIN Newest(1) = 1..1 /\ Used(1, Newest(1))
          /\ \A i \in 1..1 : Newest(1)[i] = nodes[Len(nodes) - 1 + i]
      BY <2>2, NewestIs DEF SemaIInv
    <3>3. 1 \in 1..1
      OBVIOUS
    <3>. QED BY <2>1, <2>4, <3>1, <3>2, <3>3
  <2>6. Return(1, "unary", op, args, r)
    BY <2>1, <2>3, <2>4, <2>5
  <2>7. /\ right \in Type /\ (~reported => args[1].judged = right)
    BY <1>2, <2>1, <2>2, <2>4, <2>5, Typed DEF SemaIInv
  <2>8. /\ n.kind = "unary" /\ n.op = op /\ n.args = args /\ n.type = r.type
        /\ n.gives = r.gives /\ n.judged = Judge(n)
    BY <2>4, NodeIs
  <2>9. /\ r.error \in BOOLEAN /\ r.type \in Value /\ r.gives \in Value
        /\ r.gives # NULL => right # Void /\ (op[1] \notin {"neg", "not"} => r.type # NULL)
        /\ r.error <=> r.gives = NULL
        /\ n.args[1].judged = right => Judge(n) = r.gives
    BY <2>4, <2>5, <2>7, <2>8, AppliedIs
  <2>10. Formed(n)
    BY <2>4, <2>5, <2>8, <2>9 DEF Formed
  <2>11. (\E i \in DOMAIN n.args : n.args[i].judged = NULL) => n.judged = NULL
    BY <2>5, <2>8, JudgeOfNoType
  <2>12. Accounted(1, n, r)
    BY <1>2, <2>7, <2>8, <2>9, <2>11 DEF Accounted
  <2>. QED BY <2>2, <2>4, <2>5, <2>6, <2>10, <2>12, ReturnStep
<1>. QED BY <1>1, <1>2

LEMMA CallStep ==
  ASSUME SemaIInv, Call \/ CallOfNone
  PROVE  SemaIInv'
<1>1. CASE CallOfNone
  BY <1>1, CrashStep DEF CallOfNone
<1>2. CASE Call
  <2>1. PICK f, given, k :
           /\ f \in Functions /\ given \in 0..3
           /\ k = IF given < Len(f.params) THEN given ELSE Len(f.params)
           /\ Len(nodes) >= k
           /\ IF k > 0 /\ Failed
                THEN Crash(given # Len(f.params))
                ELSE /\ ~Failed
                     /\ Return(k, "call", <<"call", f, given>>, Newest(k),
                               Called(f, given, [i \in 1..k |-> Newest(k)[i].gives]))
    BY <1>2 DEF Call
  <2>2. f \in Functions /\ f.params \in Seq(Type) /\ f.returns \in Type
    BY <2>1, FunctionsAssumption
  <2>3. PICK len \in Nat : len = Len(nodes)
    BY DEF SemaIInv, NodesInv
  <2>4. PICK many \in Nat : many = Len(f.params)
    BY <2>2
  <2>5. k \in Nat /\ k \in 0..Len(nodes)
    BY <2>1, <2>3, <2>4
  <2>6. CASE k > 0 /\ Failed
    BY <2>1, <2>6, CrashStep
  <2>7. CASE ~(k > 0 /\ Failed)
    <3>1. PICK args, list, r, n :
             /\ args = Newest(k) /\ list = [i \in 1..k |-> args[i].gives]
             /\ r = Called(f, given, list) /\ n = Node("call", <<"call", f, given>>, args, r)
      OBVIOUS
    <3>2. ~Failed /\ Return(k, "call", <<"call", f, given>>, args, r)
      BY <2>1, <2>7, <3>1
    <3>3. DOMAIN args = 1..k /\ Used(k, args) /\ Len(args) = k
      BY <2>5, <3>1, NewestIs DEF SemaIInv
    <3>4. ~reported => \A i \in 1..k : args[i].judged = args[i].gives
      BY <2>5, <3>1, <3>2, TypedNewest DEF SemaIInv
    <3>5. /\ n.kind = "call" /\ n.op = <<"call", f, given>> /\ n.args = args /\ n.type = r.type
          /\ n.gives = r.gives /\ n.judged = Judge(n)
      BY <3>1, NodeIs
    <3>6. n.op[2] = f /\ n.op[3] = given
      BY <3>5
    <3>7. f.returns # NULL
      BY <2>2, TypeIs
    <3>8. /\ r.error \in BOOLEAN /\ r.type = NULL /\ r.gives \in Value
          /\ r.error <=> r.gives = NULL
          /\ r.error <=> ~(given = Len(f.params) /\ list = f.params)
          /\ ~r.error => r.gives = f.returns
      <4>1. CASE given = Len(f.params) /\ list = f.params
        <5>1. r = Result(NULL, f.returns, FALSE)
          BY <3>1, <4>1 DEF Called
        <5>. QED BY <2>2, <3>7, <4>1, <5>1 DEF Result, Value
      <4>2. CASE ~(given = Len(f.params) /\ list = f.params)
        <5>1. r = Failure(TRUE)
          BY <3>1, <4>2 DEF Called
        <5>. QED BY <4>2, <5>1 DEF Failure, Result, Value
      <4>. QED BY <4>1, <4>2
    <3>9. Formed(n)
      BY <3>5, <3>6, <3>8 DEF Formed, Value
    <3>10. ~reported => n.judged = r.gives
      <4>1. SUFFICES ASSUME ~reported PROVE n.judged = r.gives
        OBVIOUS
      <4>2. [i \in DOMAIN n.args |-> n.args[i].judged] = list
        BY <3>1, <3>3, <3>4, <3>5, <4>1
      <4>3. list \in Seq({args[i].gives : i \in 1..k}) /\ Len(list) = k
        BY <2>5, <3>1
      <4>4. Judge(n) = IF given = k /\ list = f.params THEN f.returns ELSE NULL
        BY <3>5, <3>6, <4>2, <4>3, JudgeCall
      <4>5. list = f.params => k = Len(f.params)
        BY <4>3
      <4>. QED BY <3>5, <3>8, <4>4, <4>5
    <3>11. (\E i \in DOMAIN n.args : n.args[i].judged = NULL) => n.judged = NULL
      BY <2>2, <3>5, <3>6, JudgeOfNoType
    <3>12. Accounted(k, n, r)
      BY <3>2, <3>5, <3>8, <3>10, <3>11 DEF Accounted
    <3>. QED BY <2>5, <3>1, <3>2, <3>3, <3>9, <3>12, ReturnStep
  <2>. QED BY <2>6, <2>7
<1>. QED BY <1>1, <1>2

-----------------------------------------------------------------------------
(* A statement ends *)

\* The statement's nodes are the ones there are, but for their types.
Closes(init) ==
    /\ init \in Seq(Range(init)) /\ Len(init) = Len(nodes) /\ Len(init) <= 1
    /\ \A i \in 1..Len(nodes) :
         /\ init[i].kind = nodes[i].kind /\ init[i].op = nodes[i].op
         /\ init[i].args = nodes[i].args /\ init[i].gives = nodes[i].gives
         /\ Formed(init[i])

\* What sema_statement must do for the invariant to hold of the statement
Concluded(kind, t, init, accepted, error) ==
    /\ kind \in {"expr", "return", "condition", "decl"}
    /\ accepted \in BOOLEAN /\ error \in BOOLEAN
    /\ ~accepted /\ ~error => Failed
    /\ accepted /\ error => kind = "condition" /\ init[1].gives # Bool
    /\ accepted /\ Failed => kind = "decl" /\ init # <<>> /\ init[1].gives = NULL
    /\ accepted =>
         /\ kind # "decl" => init # <<>> /\ init[1].gives # NULL
         /\ kind = "condition" /\ ~error => init[1].gives = Bool
         /\ kind = "decl" /\ init # <<>> /\ init[1].gives # NULL =>
              init[1].type = t /\ init[1].gives # Void

LEMMA EndStep ==
  ASSUME SemaIInv, NEW kind, NEW t, NEW init, NEW accepted, NEW error,
         End(kind, t, init, accepted, error),
         Closes(init), Concluded(kind, t, init, accepted, error)
  PROVE  SemaIInv'
<1>1. /\ verdict = "none" /\ verdict' = (IF accepted THEN "accepted" ELSE "rejected")
      /\ statement' = [kind |-> kind, type |-> t, init |-> init]
      /\ nodes' = <<>> /\ reported' = (reported \/ error) /\ reported' \in BOOLEAN
      /\ made' = made /\ operands' = operands /\ code' = code
  BY DEF End, SemaIInv, SemaTypeOK
<1>2. statement'.kind = kind /\ statement'.type = t /\ statement'.init = init
  BY <1>1
<1>3. DOMAIN nodes' = {} /\ Range(nodes') = {} /\ nodes' \in Seq({}) /\ Len(nodes') = 0
  BY <1>1 DEF Range
<1>4. SemaTypeOK'
  BY <1>1, <1>2, <1>3 DEF SemaIInv, SemaTypeOK, Closes, Concluded
<1>5. NodesInv'
  <2>1. Present' = operands
    BY <1>1, <1>3 DEF Present
  <2>2. \A m \in Present' : Kept(m, operands')
    BY <1>1, <2>1 DEF SemaIInv, NodesInv, Present
  <2>3. verdict' # "none"
    BY <1>1
  <2>. QED BY <1>3, <2>2, <2>3 DEF NodesInv
<1>6. PICK len \in Nat : len = Len(nodes)
  BY DEF SemaIInv, NodesInv
<1>7. DOMAIN nodes = 1..len /\ DOMAIN init = 1..len
  BY <1>6 DEF SemaIInv, NodesInv, Closes
<1>8. ASSUME NEW m \in Range(init)
      PROVE  Formed(m) /\ \A i \in DOMAIN m.args : m.args[i] \in operands
  <2>1. PICK i \in 1..len : m = init[i]
    BY <1>7 DEF Range
  <2>2. Formed(m) /\ m.args = nodes[i].args
    BY <1>6, <2>1 DEF Closes
  <2>3. Kept(nodes[i], operands)
    BY <1>7 DEF SemaIInv, NodesInv, Present, Range
  <2>. QED BY <2>2, <2>3 DEF Kept
<1>9. StatementInv'
  <2>1. statement'.init \in Seq(Range(statement'.init))
    BY <1>2 DEF Closes
  <2>2. verdict' \in {"accepted", "generated"} => accepted
    BY <1>1
  <2>3. ~reported' => ~error
    BY <1>1
  <2>4. kind # "none"
    BY DEF Concluded
  <2>. QED BY <1>1, <1>2, <1>8, <2>1, <2>2, <2>3, <2>4 DEF StatementInv, Concluded
<1>10. ASSUME NEW m \in Present, Misused(m) PROVE \E n \in InStatement' : Misused(n)
  <2>1. CASE m \in operands
    BY <1>1, <1>10, <2>1 DEF InStatement
  <2>2. CASE m \in Range(nodes)
    <3>1. PICK i \in 1..len : m = nodes[i]
      BY <1>7, <2>2 DEF Range
    <3>2. Misused(init[i])
      BY <1>6, <1>10, <3>1 DEF Closes, Misused
    <3>3. init[i] \in InStatement'
      BY <1>2, <1>7 DEF InStatement, Range
    <3>. QED BY <3>2, <3>3
  <2>. QED BY <2>1, <2>2 DEF Present
<1>11. ASSUME NEW m \in Present, Silent(m) PROVE \E n \in InStatement' : Silent(n)
  <2>1. CASE m \in operands
    BY <1>1, <1>11, <2>1 DEF InStatement
  <2>2. CASE m \in Range(nodes)
    <3>1. PICK i \in 1..len : m = nodes[i]
      BY <1>7, <2>2 DEF Range
    <3>2. Silent(init[i])
      BY <1>6, <1>11, <3>1 DEF Closes, Silent
    <3>3. init[i] \in InStatement'
      BY <1>2, <1>7 DEF InStatement, Range
    <3>. QED BY <3>2, <3>3
  <2>. QED BY <2>1, <2>2 DEF Present
<1>12. VerdictFollowsErrors'
  <2>1. ASSUME verdict' \in {"accepted", "generated"}, reported'
        PROVE  \/ \E n \in InStatement' : Misused(n)
               \/ statement'.kind = "condition" /\ statement'.init[1].gives # Bool
               \/ /\ statement'.kind = "decl" /\ statement'.init # <<>>
                  /\ statement'.init[1].gives = NULL
    <3>1. accepted
      BY <1>1, <2>1
    <3>2. CASE error
      BY <1>2, <3>1, <3>2 DEF Concluded
    <3>3. CASE Failed
      BY <1>2, <3>1, <3>3 DEF Concluded
    <3>4. CASE ~error /\ ~Failed
      <4>1. \E m \in Present : Misused(m)
        BY <1>1, <2>1, <3>4 DEF SemaIInv, ErrorsInv
      <4>. QED BY <1>10, <4>1
    <3>. QED BY <3>2, <3>3, <3>4
  <2>2. ASSUME verdict' = "rejected", ~reported' PROVE \E n \in InStatement' : Silent(n)
    <3>1. ~accepted /\ ~error /\ ~reported
      BY <1>1, <2>2
    <3>2. Failed
      BY <3>1 DEF Concluded
    <3>3. \E m \in Present : Silent(m)
      BY <1>1, <3>1, <3>2 DEF SemaIInv, ErrorsInv
    <3>. QED BY <1>11, <3>3
  <2>. QED BY <2>1, <2>2 DEF VerdictFollowsErrors, Silent
<1>13. ErrorsInv' /\ CodeInv'
  BY <1>1 DEF SemaIInv, ErrorsInv, CodeInv
<1>. QED BY <1>4, <1>5, <1>9, <1>12, <1>13 DEF SemaIInv

\* The results themselves, with no more than one, end a statement.
LEMMA NodesClose ==
  ASSUME NodesInv, Len(nodes) <= 1
  PROVE  Closes(nodes)
<1>1. PICK len \in Nat : len = Len(nodes)
  BY DEF NodesInv
<1>2. ASSUME NEW i \in 1..len PROVE Formed(nodes[i])
  <2>1. Kept(nodes[i], operands)
    BY <1>1 DEF NodesInv, Present, Range
  <2>. QED BY <2>1 DEF Kept
<1>. QED BY <1>1, <1>2 DEF Closes, NodesInv

LEMMA ExprStep ==
  ASSUME SemaIInv, ExprStmt \/ Condition
  PROVE  SemaIInv'
<1>1. PICK kind \in {"expr", "return", "condition"}, error \in BOOLEAN :
         /\ End(kind, NULL, nodes, ~Failed, error) /\ Len(nodes) = 1
         /\ error <=> kind = "condition" /\ ~Failed /\ nodes[Len(nodes)].gives # Bool
  <2>1. CASE ExprStmt
    BY <2>1 DEF ExprStmt
  <2>2. CASE Condition
    BY <2>2 DEF Condition
  <2>. QED BY <2>1, <2>2
<1>2. nodes # <<>> /\ nodes[Len(nodes)] = nodes[1]
  BY <1>1
<1>3. Failed <=> nodes[1].gives = NULL
  BY <1>2 DEF Failed
<1>4. Closes(nodes)
  BY <1>1, NodesClose DEF SemaIInv
<1>5. Concluded(kind, NULL, nodes, ~Failed, error)
  BY <1>1, <1>2, <1>3 DEF Concluded
<1>. QED BY <1>1, <1>4, <1>5, EndStep

LEMMA BareStep ==
  ASSUME SemaIInv, NEW t \in TypeNames, DeclBare(t)
  PROVE  SemaIInv'
<1>1. nodes = <<>> \/ (Failed /\ Len(nodes) = 1)
  BY DEF DeclBare
<1>2. Closes(nodes)
  <2>1. Len(nodes) <= 1
    <3>1. nodes = <<>> => Len(nodes) = 0
      OBVIOUS
    <3>2. PICK len \in Nat : len = Len(nodes)
      BY DEF SemaIInv, NodesInv
    <3>3. len = 0 \/ len = 1
      BY <1>1, <3>1, <3>2
    <3>. QED BY <3>2, <3>3
  <2>. QED BY <2>1, NodesClose DEF SemaIInv
<1>3. Failed => nodes # <<>> /\ nodes[1].gives = NULL
  BY <1>1 DEF Failed
<1>4. nodes = <<>> \/ nodes[1].gives = NULL
  BY <1>1, <1>3
<1>5. CASE t = Void
  <2>1. End("decl", t, nodes, FALSE, TRUE)
    BY <1>5 DEF DeclBare
  <2>2. Concluded("decl", t, nodes, FALSE, TRUE)
    BY DEF Concluded
  <2>. QED BY <1>2, <2>1, <2>2, EndStep
<1>6. CASE t # Void
  <2>1. End("decl", t, nodes, TRUE, FALSE)
    BY <1>6 DEF DeclBare
  <2>2. Concluded("decl", t, nodes, TRUE, FALSE)
    BY <1>3, <1>4 DEF Concluded
  <2>. QED BY <1>2, <2>1, <2>2, EndStep
<1>. QED BY <1>5, <1>6

LEMMA InitStep ==
  ASSUME SemaIInv, NEW t \in TypeNames, DeclInit(t)
  PROVE  SemaIInv'
<1>1. Len(nodes) = 1 /\ ~Failed
  BY DEF DeclInit
<1>2. nodes \in Seq(Range(nodes)) /\ nodes # <<>> /\ DOMAIN nodes = {1}
  BY <1>1 DEF SemaIInv, NodesInv
<1>3. Closes(nodes)
  BY <1>1, NodesClose DEF SemaIInv
<1>4. nodes[1].gives # NULL /\ nodes[1].gives \in Type
  <2>1. 1 \in 1..Len(nodes)
    BY <1>1
  <2>. QED BY <1>1, <2>1, Typed DEF SemaIInv
<1>5. CASE t # Void /\ Fits(nodes[1].gives, t)
  <2>1. PICK init : init = Retyped(t)
    OBVIOUS
  <2>2. End("decl", t, init, TRUE, FALSE)
    BY <1>5, <2>1 DEF DeclInit
  <2>3. t \in Type /\ t # NULL
    BY TypesAssumption, TypeIs
  <2>4. PICK n : n = nodes[1]
    OBVIOUS
  <2>5. Kept(n, operands)
    BY <1>2, <2>4 DEF SemaIInv, NodesInv, Present, Range
  <2>6. init = [nodes EXCEPT ![1] = [n EXCEPT !.type = t]]
    BY <2>1, <2>4 DEF Retyped
  <2>7. PICK m : m = [n EXCEPT !.type = t]
    OBVIOUS
  <2>8. /\ m.kind = n.kind /\ m.op = n.op /\ m.args = n.args /\ m.gives = n.gives /\ m.type = t
    BY <2>5, <2>7 DEF Kept, Fields
  <2>9. init \in Seq({m}) /\ Len(init) = 1 /\ DOMAIN init = {1} /\ init[1] = m /\ init # <<>>
    <3>1. init = <<m>>
      <4>1. nodes = <<n>>
        BY <1>1, <1>2, <2>4
      <4>. QED BY <2>6, <2>7, <4>1
    <3>. QED BY <3>1
  <2>10. Range(init) = {m}
    BY <2>9 DEF Range
  <2>11. Formed(n)
    BY <2>5 DEF Kept
  <2>12. Formed(m)
    BY <2>3, <2>8, <2>11 DEF Formed, Value
  <2>13. Closes(init)
    <3>1. \A i \in 1..Len(nodes) : i = 1
      BY <1>1
    <3>. QED BY <1>1, <2>4, <2>8, <2>9, <2>10, <2>12, <3>1 DEF Closes
  <2>14. n.gives # Void
    <3>1. Unknown # Void
      BY BasicTypes DEF Unknown, Void
    <3>2. IsInteger(n.gives) => n.gives # Void
      BY <1>4, <2>4, Families
    <3>. QED BY <1>5, <2>4, <3>1, <3>2 DEF Fits
  <2>15. Concluded("decl", t, init, TRUE, FALSE)
    BY <1>1, <2>8, <2>9, <2>14 DEF Concluded
  <2>. QED BY <2>2, <2>13, <2>15, EndStep
<1>6. CASE ~(t # Void /\ Fits(nodes[1].gives, t))
  <2>1. End("decl", t, nodes, FALSE, TRUE)
    BY <1>6 DEF DeclInit
  <2>2. Concluded("decl", t, nodes, FALSE, TRUE)
    BY DEF Concluded
  <2>. QED BY <1>3, <2>1, <2>2, EndStep
<1>. QED BY <1>5, <1>6

-----------------------------------------------------------------------------
(* Code is generated *)

LEMMA GeneratedIs ==
  ASSUME SemaIInv, verdict \in {"accepted", "generated"}
  PROVE  /\ Generated \in Registers
         /\ statement.init # <<>> =>
              LET n == statement.init[1]
              IN  n \in InStatement /\ Formed(n) /\ Excused(Gen(n), n, operands)
<1>1. CASE statement.init = <<>>
  BY <1>1 DEF Generated, Register, Registers
<1>2. CASE statement.init # <<>>
  <2>1. statement.init \in Seq(Range(statement.init))
    BY DEF SemaIInv, StatementInv
  <2>2. 1 \in DOMAIN statement.init
    BY <1>2, <2>1
  <2>3. PICK n : n = statement.init[1]
    OBVIOUS
  <2>4. n \in Range(statement.init)
    BY <2>2, <2>3 DEF Range
  <2>5. Formed(n) /\ \A i \in DOMAIN n.args : n.args[i] \in operands
    BY <2>4 DEF SemaIInv, StatementInv
  <2>6. \A i \in DOMAIN n.args : Excused(n.args[i].register, n.args[i], operands)
    BY <2>5 DEF SemaIInv, NodesInv, Present, Kept
  <2>7. Excused(Gen(n), n, operands)
    BY <2>5, <2>6, GenExcused
  <2>8. Generated \in {Gen(n), Stop}
    BY <1>2, <2>3 DEF Generated
  <2>9. Stop \in Registers
    BY DEF Stop, Registers
  <2>. QED BY <1>2, <2>3, <2>4, <2>5, <2>7, <2>8, <2>9 DEF InStatement, Excused
<1>. QED BY <1>1, <1>2

LEMMA GenerateStep ==
  ASSUME SemaIInv, Generate
  PROVE  SemaIInv'
<1>1. /\ verdict = "accepted" /\ verdict' = "generated" /\ code' = Generated
      /\ UNCHANGED <<nodes, made, reported, operands, statement>>
  BY DEF Generate, Generated
<1>2. Generated \in Registers
  BY <1>1, GeneratedIs
<1>3. SemaTypeOK'
  BY <1>1, <1>2 DEF SemaIInv, SemaTypeOK, Registers
<1>4. NodesInv'
  BY <1>1 DEF SemaIInv, NodesInv, Present
<1>5. StatementInv' /\ ErrorsInv'
  BY <1>1 DEF SemaIInv, StatementInv, ErrorsInv
<1>6. VerdictFollowsErrors'
  <2>1. InStatement' = InStatement
    BY <1>1 DEF InStatement
  <2>. QED BY <1>1, <2>1 DEF SemaIInv, VerdictFollowsErrors
<1>7. CodeInv'
  <2>1. Generated' = Generated
    BY <1>1 DEF Generated
  <2>. QED BY <1>1, <2>1 DEF CodeInv
<1>. QED BY <1>3, <1>4, <1>5, <1>6, <1>7 DEF SemaIInv

-----------------------------------------------------------------------------
(* The invariant and what follows from it *)

\* What holds between any two calls of sema_expr, and of every statement that
\* has ended (sema.c:248-703).
THEOREM SemaInvariance == SemaSpec => []SemaIInv
<1>1. SemaInit => SemaIInv
  <2>1. SUFFICES ASSUME SemaInit PROVE SemaIInv
    OBVIOUS
  <2>2. /\ nodes = <<>> /\ made = 0 /\ reported = FALSE /\ operands = {} /\ verdict = "none"
        /\ statement.kind = "none" /\ statement.init = <<>> /\ code = Register(0)
    BY <2>1 DEF SemaInit, NoStmt
  <2>3. /\ DOMAIN nodes = {} /\ Range(nodes) = {} /\ nodes \in Seq(Range(nodes))
        /\ Range(statement.init) = {} /\ statement.init \in Seq(Range(statement.init))
        /\ Len(statement.init) = 0
    BY <2>2 DEF Range
  <2>4. SemaTypeOK
    <3>1. code \in Registers
      BY <2>2 DEF Register, Registers
    <3>2. made \in 0..MaxNodes
      BY <2>2, NodesAssumption
    <3>3. reported \in BOOLEAN
      BY <2>2
    <3>4. statement.kind \in {"none", "expr", "return", "condition", "decl"}
      BY <2>2
    <3>5. Len(statement.init) <= 1
      BY <2>3
    <3>6. verdict \in {"none", "accepted", "rejected", "crash", "generated"}
      BY <2>2
    <3>. QED BY <2>3, <3>1, <3>2, <3>3, <3>4, <3>5, <3>6 DEF SemaTypeOK, Registers
  <2>5. NodesInv
    BY <2>2, <2>3 DEF NodesInv, Present
  <2>6. ErrorsInv /\ StatementInv /\ VerdictFollowsErrors /\ CodeInv
    BY <2>2, <2>3 DEF ErrorsInv, Failed, StatementInv, VerdictFollowsErrors, CodeInv
  <2>. QED BY <2>4, <2>5, <2>6 DEF SemaIInv
<1>2. SemaIInv /\ [SemaNext]_semaVars => SemaIInv'
  <2>1. SUFFICES ASSUME SemaIInv, [SemaNext]_semaVars PROVE SemaIInv'
    OBVIOUS
  <2>2. CASE Literal \/ Lvar
    BY <2>1, <2>2, LeafStep
  <2>3. CASE Assign
    BY <2>1, <2>3, AssignStep
  <2>4. CASE Binary
    BY <2>1, <2>4, BinaryStep
  <2>5. CASE UnaryOp
    BY <2>1, <2>5, UnaryStep
  <2>6. CASE Call \/ CallOfNone
    BY <2>1, <2>6, CallStep
  <2>7. CASE ExprStmt \/ Condition
    BY <2>1, <2>7, ExprStep
  <2>8. CASE VarDecl
    BY <2>1, <2>8, BareStep, InitStep DEF VarDecl
  <2>9. CASE Generate
    BY <2>1, <2>9, GenerateStep
  <2>10. CASE UNCHANGED semaVars
    <3>1. UNCHANGED <<nodes, made, reported, operands, statement, verdict, code>>
      BY <2>10 DEF semaVars
    <3>2. SemaTypeOK' /\ NodesInv'
      BY <2>1, <3>1 DEF SemaIInv, SemaTypeOK, NodesInv, Present
    <3>3. ErrorsInv'
      BY <2>1, <3>1 DEF SemaIInv, ErrorsInv, Failed, Present
    <3>4. StatementInv' /\ VerdictFollowsErrors' /\ CodeInv'
      BY <2>1, <3>1 DEF SemaIInv, StatementInv, VerdictFollowsErrors, InStatement, CodeInv, Generated
    <3>. QED BY <3>2, <3>3, <3>4 DEF SemaIInv
  <2>. QED BY <2>1, <2>2, <2>3, <2>4, <2>5, <2>6, <2>7, <2>8, <2>9, <2>10 DEF SemaNext
<1>. QED BY <1>1, <1>2, PTL DEF SemaSpec

\* While no error is reported, the type that sema_expr gives a node is the
\* one that the order of the types gives it, and an error is reported only for
\* an expression without a type (sema.c:227-519), for all types and functions.
THEOREM TypesAreRight == SemaSpec => []WellTyped
<1>1. SemaIInv => WellTyped
  BY DEF SemaIInv, NodesInv, WellTyped
<1>. QED BY <1>1, SemaInvariance, PTL

\* A statement is refused exactly if an error was reported for it, with the
\* exceptions that VerdictFollowsErrors lists (sema.c:303-673).
THEOREM VerdictsFollow == SemaSpec => []VerdictFollowsErrors
<1>1. SemaIInv => VerdictFollowsErrors
  BY DEF SemaIInv
<1>. QED BY <1>1, SemaInvariance, PTL

\* The operation of a node whose type is its own gives a register of its size.
LEMMA SizeOfOwnType ==
  ASSUME NEW n, Formed(n), n.gives # NULL, HasSize(n.type),
         n.kind \in {"literal", "lvar", "binary"} \/ (n.kind = "unary" /\ n.op[1] = "cast")
  PROVE  Gen(n).size \in {0, SizeOf(n.type)}
<1>1. n.type # NULL => SizeOf(n.type) \in Bytes
  BY SizeIs DEF Formed, Value
<1>2. /\ Stop.size = 0 /\ DOMAIN Stop = {"size", "fault"}
      /\ \A k : /\ Register(k).size = k /\ Mixed(k).size = k
                /\ DOMAIN Register(k) = {"size", "fault"} /\ DOMAIN Mixed(k) = {"size", "fault"}
  BY DEF Stop, Register, Mixed
<1>3. PICK r, size : r = Operation(n) /\ size = SizeOf(n.type)
  OBVIOUS
<1>4. r \in {Stop, Register(size), Mixed(size)}
  <2>1. CASE n.kind \in {"literal", "lvar"}
    BY <1>3, <2>1 DEF Operation
  <2>2. CASE n.kind = "binary"
    BY <1>3, <2>2 DEF Operation
  <2>3. CASE n.kind = "unary" /\ n.op[1] = "cast"
    BY <1>3, <2>3 DEF Operation
  <2>. QED BY <2>1, <2>2, <2>3
<1>5. r.size \in {0, size} /\ DOMAIN r = {"size", "fault"}
  BY <1>2, <1>4
<1>6. Gen(n) = r \/ Gen(n) = [r EXCEPT !.fault = Worse(n.args)]
  BY <1>3 DEF Gen
<1>7. Gen(n).size = r.size
  BY <1>5, <1>6
<1>. QED BY <1>3, <1>5, <1>7

\* What a declaration stores has the variable's size, if its initializer ends
\* in a literal, a variable, a binary operation or a cast (sema.c:633, 650).
THEOREM InitializersFit == SemaSpec => []InitializerFits
<1>1. ASSUME SemaIInv, verdict = "generated", ~reported, statement.kind = "decl",
             NEW i \in DOMAIN statement.init, NEW n, n = statement.init[i],
             n.gives # NULL, code.fault # "stop",
             n.kind \in {"literal", "lvar", "binary"} \/ (n.kind = "unary" /\ n.op[1] = "cast")
      PROVE  code.size = SizeOf(statement.type)
  <2>1. statement.init \in Seq(Range(statement.init)) /\ Len(statement.init) <= 1
    BY <1>1 DEF SemaIInv, StatementInv, SemaTypeOK
  <2>2. i = 1 /\ statement.init # <<>>
    BY <1>1, <2>1
  <2>3. n.type = statement.type /\ Formed(n)
    <3>1. Formed(n)
      BY <1>1, <2>2, GeneratedIs
    <3>. QED BY <1>1, <2>2, <3>1 DEF SemaIInv, StatementInv
  <2>4. code = Generated
    BY <1>1 DEF SemaIInv, CodeInv
  <2>5. Stop.fault = "stop" /\ Stop.size = 0
    BY DEF Stop
  <2>6. code = Gen(n) /\ code.size # 0
    BY <1>1, <2>2, <2>4, <2>5 DEF Generated
  <2>7. HasSize(n.type)
    <3>1. ~HasSize(n.type) => Gen(n) = Stop
      BY DEF Gen
    <3>. QED BY <1>1, <2>5, <2>6, <3>1
  <2>8. Gen(n).size \in {0, SizeOf(n.type)}
    BY <1>1, <2>3, <2>7, SizeOfOwnType
  <2>. QED BY <2>3, <2>6, <2>8
<1>2. SemaIInv => InitializerFits
  BY <1>1 DEF InitializerFits
<1>. QED BY <1>2, SemaInvariance, PTL

\* An accepted statement without an error stops the code generator, or makes
\* it mix sizes, only for what GeneratesIfClean lists (x86_asm.c:197-442).
THEOREM CleanStatementsGenerate == SemaSpec => []GeneratesIfClean
<1>1. ASSUME SemaIInv, verdict = "generated", ~reported
      PROVE  /\ code.fault = "stop" =>
                  \/ \E n \in InStatement : Unprepared(n)
                  \/ statement.kind = "return" /\ statement.init[1].gives = Void
             /\ code.fault = "mixed" => \E n \in InStatement : Narrow(n)
  <2>1. code = Generated
    BY <1>1 DEF SemaIInv, CodeInv
  <2>2. CASE statement.init = <<>>
    BY <2>1, <2>2 DEF Generated, Register
  <2>3. CASE statement.init # <<>>
    <3>1. PICK n : n = statement.init[1]
      OBVIOUS
    <3>2. n \in InStatement /\ Excused(Gen(n), n, operands)
      BY <1>1, <2>3, <3>1, GeneratedIs
    <3>3. operands \union {n} \subseteq InStatement
      BY <3>2 DEF InStatement
    <3>4. Stop.fault = "stop"
      BY DEF Stop
    <3>5. CASE Gen(n).size = 0 /\ statement.kind # "expr"
      <4>1. code = Stop
        BY <2>1, <2>3, <3>1, <3>5 DEF Generated
      <4>2. n.gives = Void \/ \E m \in InStatement : Unprepared(m)
        BY <3>2, <3>3, <3>5 DEF Excused
      <4>3. ASSUME n.gives = Void
            PROVE  statement.kind = "return"
        <5>1. Void # Bool /\ Void # NULL
          BY BasicTypes DEF Void, Bool
        <5>2. /\ statement.kind \in {"none", "expr", "return", "condition", "decl"}
              /\ statement.kind # "none"
              /\ statement.kind = "condition" => n.gives = Bool
              /\ statement.kind = "decl" /\ n.gives # NULL => n.gives # Void
          BY <1>1, <2>3, <3>1 DEF SemaIInv, SemaTypeOK, StatementInv
        <5>. QED BY <3>5, <4>3, <5>1, <5>2
      <4>. QED BY <3>1, <3>4, <4>1, <4>2, <4>3
    <3>6. CASE ~(Gen(n).size = 0 /\ statement.kind # "expr")
      <4>1. code = Gen(n)
        BY <2>1, <2>3, <3>1, <3>6 DEF Generated
      <4>. QED BY <3>2, <3>3, <4>1 DEF Excused
    <3>. QED BY <3>5, <3>6
  <2>. QED BY <2>2, <2>3
<1>2. SemaIInv => GeneratesIfClean
  BY <1>1 DEF GeneratesIfClean, Narrow
<1>. QED BY <1>2, SemaInvariance, PTL

=============================================================================
