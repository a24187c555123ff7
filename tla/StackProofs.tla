---------------------------- MODULE StackProofs -----------------------------
(***************************************************************************)
(* Proof that the stack gives back what was pushed, for the four kinds of  *)
(* stack, every list of registers, every size of memory and both byte      *)
(* orders.  The loops of the push and of the pop are followed turn by      *)
(* turn: what holds after n turns is an induction on n.                    *)
(***************************************************************************)
EXTENDS ArmMachineProofs

\* The number of registers of a list below register i.
Below(list, i) == Cardinality(list \cap 0 .. i - 1)

\* Counting them one register after the other.
LEMMA Counted ==
    ASSUME NEW list \in SUBSET (0 .. 15)
    PROVE  /\ Below(list, 0) = 0 /\ Below(list, 16) = Cardinality(list)
           /\ \A i \in 0 .. 16 : Below(list, i) \in Nat
           /\ \A i \in 0 .. 15 :
                Below(list, i + 1) = IF i \in list THEN Below(list, i) + 1 ELSE Below(list, i)
           /\ \A i, j \in 0 .. 16 : i <= j => Below(list, i) <= Below(list, j)
<1> DEFINE L(i) == list \cap 0 .. i - 1
<1>1. \A i \in 0 .. 16 : IsFiniteSet(L(i)) /\ L(i) \in SUBSET (0 .. 15)
  <2>1. \A i \in 0 .. 16 : L(i) \in SUBSET (0 .. 15)
    OBVIOUS
  <2> QED
    BY <2>1, ListFinite, FS_Subset
<1>2. L(0) = {} /\ L(16) = list
  <2>1. 0 .. 0 - 1 = {} /\ 16 - 1 = 15
    OBVIOUS
  <2> QED
    BY <2>1
<1>3. \A i \in 0 .. 15 : /\ i \notin L(i) /\ i \in 0 .. 16
                         /\ L(i + 1) = IF i \in list THEN L(i) \cup {i} ELSE L(i)
  OBVIOUS
<1>4. \A i, j \in 0 .. 16 : i <= j => L(i) \in SUBSET L(j)
  OBVIOUS
<1>5. \A i : Below(list, i) = Cardinality(L(i))
  BY DEF Below
<1> HIDE DEF L
<1>6. \A i \in 0 .. 16 : Cardinality(L(i)) \in Nat
  BY <1>1, FS_CardinalityType
<1>7. Cardinality(L(0)) = 0
  BY <1>2, FS_EmptySet
<1>8. ASSUME NEW i \in 0 .. 15
      PROVE  Cardinality(L(i + 1)) = IF i \in list THEN Cardinality(L(i)) + 1 ELSE Cardinality(L(i))
  <2>1. IsFiniteSet(L(i)) /\ i \notin L(i)
    BY <1>1, <1>3
  <2>2. Cardinality(L(i) \cup {i}) = Cardinality(L(i)) + 1
    BY <2>1, FS_AddElement
  <2> QED
    BY <1>3, <2>2
<1>9. \A i, j \in 0 .. 16 : i <= j => Cardinality(L(i)) <= Cardinality(L(j))
  BY <1>1, <1>4, FS_Subset
<1> QED
  BY <1>2, <1>5, <1>6, <1>7, <1>8, <1>9

\* The four bytes from a on are those of v, in the byte order of memory.
Holds(m, a, v) ==
    LET b == bytes(v)
    IN  IF is_big_endian = 1
        THEN m[a] = b[1] /\ m[a + 1] = b[2] /\ m[a + 2] = b[3] /\ m[a + 3] = b[4]
        ELSE m[a] = b[4] /\ m[a + 1] = b[3] /\ m[a + 2] = b[2] /\ m[a + 3] = b[1]

\* A store of a word that memory accepts.
LEMMA StoredWord ==
    ASSUME NEW m \in M!Contents, NEW a \in Nat, a % 4 = 0, a + 4 <= MemSize, NEW v \in Word
    PROVE  LET w == arm_write(m, a, "word", v)
           IN  /\ w \in M!Contents /\ Holds(w, a, v)
               /\ \A x \in 0 .. MemSize - 1 : x \notin a .. a + 3 => w[x] = m[x]
<1>1. MemSize \in Nat /\ a \in Word /\ MemSize < WordMod
  BY CoreAssumption, WordAssumption DEF Word
<1> DEFINE b == bytes(v)
           w == arm_write(m, a, "word", v)
<1>2. M!write_result(a, 4) = 0
  <2>1. 4 \in {1, 2, 4} /\ a < MemSize
    BY <1>1
  <2> QED
    BY <2>1, Results
<1>3. w = M!memory_write_word(m, is_big_endian, a, b)
  BY <1>2 DEF arm_write
<1>4. w \in M!Contents
  BY <1>1, WriteMemoryTyped
<1> HIDE DEF b, w
<1>5. a \in 0 .. MemSize - 1 /\ a + 1 \in 0 .. MemSize - 1 /\ a + 2 \in 0 .. MemSize - 1
      /\ a + 3 \in 0 .. MemSize - 1
  BY <1>1
<1>6. CASE is_big_endian = 1
  <2>1. w = [m EXCEPT ![a] = b[1], ![a + 1] = b[2], ![a + 2] = b[3], ![a + 3] = b[4]]
    BY <1>3, <1>6 DEF M!memory_write_word
  <2>2. w[a] = b[1] /\ w[a + 1] = b[2] /\ w[a + 2] = b[3] /\ w[a + 3] = b[4]
    BY <1>5, <2>1 DEF M!Contents
  <2>3. \A x \in 0 .. MemSize - 1 : x \notin a .. a + 3 => w[x] = m[x]
    BY <1>5, <2>1 DEF M!Contents
  <2> QED
    BY <1>4, <1>6, <2>2, <2>3 DEF Holds, b, w
<1>7. CASE is_big_endian # 1
  <2>1. w = [m EXCEPT ![a] = b[4], ![a + 1] = b[3], ![a + 2] = b[2], ![a + 3] = b[1]]
    BY <1>3, <1>7 DEF M!memory_write_word
  <2>2. w[a] = b[4] /\ w[a + 1] = b[3] /\ w[a + 2] = b[2] /\ w[a + 3] = b[1]
    BY <1>5, <2>1 DEF M!Contents
  <2>3. \A x \in 0 .. MemSize - 1 : x \notin a .. a + 3 => w[x] = m[x]
    BY <1>5, <2>1 DEF M!Contents
  <2> QED
    BY <1>4, <1>7, <2>2, <2>3 DEF Holds, b, w
<1> QED
  BY <1>6, <1>7

\* A load of a word from where one was stored.
LEMMA LoadedWord ==
    ASSUME NEW m \in M!Contents, NEW a \in Nat, a + 4 <= MemSize, NEW v \in Word, Holds(m, a, v),
           NEW old, NEW g
    PROVE  arm_read(m, a, "word", old, g) = v
<1> DEFINE b == bytes(v)
           w == M!memory_read_word(m, is_big_endian, past(g), a)
<1>1. MemSize \in Nat /\ a < MemSize /\ a + 1 < MemSize /\ a + 2 < MemSize /\ a + 3 < MemSize
  BY CoreAssumption, WordAssumption DEF Word
<1>2. M!read_result(a) = 0
  <2>1. 4 \in {1, 2, 4}
    OBVIOUS
  <2> QED
    BY <1>1, <2>1, Results
<1>3. b = <<b[1], b[2], b[3], b[4]>> /\ word(b) = v
  BY BytesOfWord
<1>4. w = <<b[1], b[2], b[3], b[4]>>
  BY <1>1 DEF Holds, M!memory_read_word, M!at
<1> HIDE DEF b, w
<1>5. word(w) = v
  BY <1>3, <1>4
<1> QED
  BY <1>2, <1>5 DEF arm_read, w

\* Two registers of a mode have two slots.
LEMMA SlotsApart ==
    ASSUME NEW f, NEW i \in 0 .. 15, NEW j \in 0 .. 15, register_slot(f, i) = register_slot(f, j)
    PROVE  i = j
BY DEF register_slot, banked, mode_offset, FIQ, SVC, ABT, UND, IRQ

\* The addresses of a block that lies in memory.
LEMMA BlockAddresses ==
    ASSUME NEW list \in SUBSET (0 .. 15), NEW low \in Word, Inside(low, 4 * Cardinality(list)),
           NEW i \in 0 .. 15, i \in list
    PROVE  LET a == low + 4 * Below(list, i)
           IN  /\ a \in Nat /\ a % 4 = 0 /\ a + 4 <= MemSize /\ low <= a
               /\ a + 4 = low + 4 * Below(list, i + 1)
               /\ a + 4 <= low + 4 * Cardinality(list)
               /\ Wrap(a + 4) = a + 4
<1>1. MemSize \in Nat /\ MemSize < WordMod /\ low \in Nat /\ WordMod \in Nat
  BY CoreAssumption, WordAssumption DEF Word
<1>2. /\ Below(list, i) \in Nat /\ Below(list, i + 1) = Below(list, i) + 1
      /\ Below(list, i + 1) <= Cardinality(list) /\ Cardinality(list) \in Nat
  <2>1. i \in 0 .. 16 /\ i + 1 \in 0 .. 16 /\ 16 \in 0 .. 16 /\ i + 1 <= 16
    OBVIOUS
  <2> QED
    BY <2>1, Counted
<1>3. low % 4 = 0 /\ low + 4 * Cardinality(list) <= MemSize
  BY DEF Inside
<1> QED
  BY <1>1, <1>2, <1>3 DEF Wrap

\* What a push has done when the loop over the registers ends: each word of the list is
\* in its place and the bytes outside the block are as they were.
LEMMA Pushed ==
    ASSUME NEW f \in RegisterFile, NEW m \in M!Contents, NEW ins, ins.L = 0,
           ins.list \in SUBSET (0 .. 14), NEW low \in Word,
           Inside(low, 4 * Cardinality(ins.list)), NEW g \in Word,
           NEW s, s = block(f, m, ins, low, g)[16]
    PROVE  /\ s.r = f /\ s.mem \in M!Contents
           /\ \A reg \in ins.list :
                Holds(s.mem, low + 4 * Below(ins.list, reg), read_register(f, reg))
           /\ \A a \in 0 .. MemSize - 1 :
                a \notin low .. low + 4 * Cardinality(ins.list) - 1 => s.mem[a] = m[a]
<1> DEFINE list == ins.list
           b == block(f, m, ins, low, g)
           v(i) == read_register(f, i)
           at(i) == low + 4 * Below(list, i)
<1>1. /\ list \in SUBSET (0 .. 15) /\ low \in Nat /\ MemSize \in Nat /\ WordMod \in Nat
      /\ MemSize < WordMod
  BY CoreAssumption, WordAssumption DEF Word
<1>2. /\ b \in [0 .. 16 -> LoopStates] /\ b[0] = [r |-> f, mem |-> m, address |-> low, val |-> g]
      /\ \A n \in 0 .. 15 : b[n + 1] = transfer_register(b[n], ins, n, g)
  BY BlockStates
<1>3. \A i \in list : v(i) \in Word /\ i \in 0 .. 15 /\ arm_read_register(f, i) = v(i)
  BY ReadTyped DEF arm_read_register, PC
<1>4. at(0) = low /\ at(16) = low + 4 * Cardinality(list) /\ \A i \in 0 .. 16 : at(i) \in Nat
  BY <1>1, Counted
<1>5. \A i \in list : /\ at(i) % 4 = 0 /\ at(i) + 4 <= MemSize /\ low <= at(i)
                      /\ at(i + 1) = at(i) + 4 /\ Wrap(at(i) + 4) = at(i) + 4
  BY <1>1, <1>3, BlockAddresses
<1>6. \A i \in 0 .. 15 \ list : at(i + 1) = at(i)
  <2>1. \A i \in 0 .. 15 :
          Below(list, i + 1) = IF i \in list THEN Below(list, i) + 1 ELSE Below(list, i)
    BY <1>1, Counted, Zenon
  <2> QED
    BY <2>1
<1>7. \A i, j \in 0 .. 16 : i <= j => at(i) <= at(j)
  <2>1. \A i \in 0 .. 16 : Below(list, i) \in Nat
    BY <1>1, Counted
  <2>2. \A i, j \in 0 .. 16 : i <= j => Below(list, i) <= Below(list, j)
    BY <1>1, Counted
  <2> QED
    BY <1>1, <2>1, <2>2
<1> HIDE DEF b, v, at
<1> DEFINE Kept(n) == \A reg \in list : reg < n => Holds(b[n].mem, at(reg), v(reg))
           Same(n) == \A a \in 0 .. MemSize - 1 : a \notin low .. at(n) - 1 => b[n].mem[a] = m[a]
           J(n) == b[n].r = f /\ b[n].address = at(n) /\ Kept(n) /\ Same(n)
           P == {n \in Nat : n <= 16 => J(n)}
<1>8. J(0)
  <2>1. \A reg \in list : ~ (reg < 0)
    BY <1>3
  <2> QED
    BY <1>2, <1>4, <2>1
<1>9. ASSUME NEW n \in 0 .. 15, J(n) PROVE J(n + 1)
  <2>1. n \in 0 .. 15 /\ n \in 0 .. 16 /\ n + 1 \in 0 .. 16
    OBVIOUS
  <2>5. b[n].r = f /\ b[n].address = at(n) /\ Kept(n) /\ Same(n)
    BY <1>9
  <2>2. b[n + 1] = transfer_register(b[n], ins, n, g) /\ b[n].mem \in M!Contents
    BY <1>2, <2>1 DEF LoopStates
  <2>3. CASE n \notin list
    <3>1. b[n + 1] = b[n] /\ at(n + 1) = at(n)
      BY <1>6, <2>1, <2>2, <2>3 DEF transfer_register
    <3>2. \A reg \in list : reg < n + 1 => reg < n
      BY <1>3, <2>3
    <3> QED
      BY <2>5, <3>1, <3>2
  <2>4. CASE n \in list
    <3> DEFINE w == arm_write(b[n].mem, at(n), "word", v(n))
    <3>1. /\ b[n + 1].r = f /\ b[n + 1].mem = w /\ b[n + 1].address = at(n + 1)
      BY <1>3, <1>5, <2>1, <2>2, <2>4, <2>5 DEF transfer_register
    <3>2. /\ w \in M!Contents /\ Holds(w, at(n), v(n))
          /\ \A x \in 0 .. MemSize - 1 : x \notin at(n) .. at(n) + 3 => w[x] = b[n].mem[x]
      <4> DEFINE a == at(n)
                 c == b[n].mem
                 u == v(n)
      <4>1. c \in M!Contents /\ a \in Nat /\ a % 4 = 0 /\ a + 4 <= MemSize /\ u \in Word
        BY <1>3, <1>4, <1>5, <2>1, <2>2, <2>4
      <4> HIDE DEF a, c, u
      <4>2. LET d == arm_write(c, a, "word", u)
            IN  /\ d \in M!Contents /\ Holds(d, a, u)
                /\ \A x \in 0 .. MemSize - 1 : x \notin a .. a + 3 => d[x] = c[x]
        BY <4>1, StoredWord
      <4> QED
        BY <4>2 DEF a, c, u
    <3> HIDE DEF w
    <3>3. ASSUME NEW reg \in list, reg < n + 1 PROVE Holds(w, at(reg), v(reg))
      <4>1. CASE reg = n
        BY <3>2, <4>1
      <4>2. CASE reg < n
        <5>1. reg \in 0 .. 16 /\ reg + 1 \in 0 .. 16 /\ reg + 1 <= n
          BY <1>3, <2>1, <4>2
        <5>2. /\ at(reg) \in Nat /\ at(n) \in Nat /\ at(reg) + 4 <= MemSize
              /\ at(reg) + 4 <= at(n)
          BY <1>4, <1>5, <1>7, <2>1, <5>1
        <5>3. \A d \in 0 .. 3 : /\ at(reg) + d \in 0 .. MemSize - 1
                                /\ at(reg) + d \notin at(n) .. at(n) + 3
          BY <1>1, <5>2
        <5>4. at(reg) + 0 = at(reg) /\ 0 \in 0 .. 3 /\ 1 \in 0 .. 3 /\ 2 \in 0 .. 3 /\ 3 \in 0 .. 3
          BY <5>2
        <5>5. /\ w[at(reg)] = b[n].mem[at(reg)] /\ w[at(reg) + 1] = b[n].mem[at(reg) + 1]
              /\ w[at(reg) + 2] = b[n].mem[at(reg) + 2] /\ w[at(reg) + 3] = b[n].mem[at(reg) + 3]
          BY <3>2, <5>3, <5>4
        <5>6. Holds(b[n].mem, at(reg), v(reg))
          BY <2>5, <4>2
        <5> QED
          BY <5>5, <5>6 DEF Holds
      <4> QED
        BY <1>3, <2>1, <3>3, <4>1, <4>2
    <3>4. ASSUME NEW a \in 0 .. MemSize - 1, a \notin low .. at(n + 1) - 1 PROVE w[a] = m[a]
      <4>1. at(n) \in Nat /\ at(n + 1) = at(n) + 4 /\ low <= at(n)
        BY <1>4, <1>5, <2>1, <2>4
      <4>2. a \notin at(n) .. at(n) + 3 /\ a \notin low .. at(n) - 1
        BY <1>1, <3>4, <4>1
      <4> QED
        BY <2>5, <3>2, <4>2
    <3> QED
      BY <3>1, <3>3, <3>4
  <2> QED
    BY <2>3, <2>4
<1>10. J(16)
  <2> HIDE DEF J
  <2>1. 0 \in P
    BY <1>8
  <2>2. \A n \in Nat : n \in P => n + 1 \in P
    BY <1>9
  <2>3. Nat \subseteq P
    <3> HIDE DEF P
    <3> QED
      BY <2>1, <2>2, Induction
  <2> QED
    BY <2>3
<1>11. b[16].mem \in M!Contents
  BY <1>2 DEF LoopStates
<1>12. \A reg \in list : Holds(b[16].mem, low + 4 * Below(list, reg), read_register(f, reg))
  <2>1. \A reg \in list : reg < 16
    BY <1>3
  <2>2. \A reg \in list : Holds(b[16].mem, at(reg), v(reg))
    BY <1>10, <2>1
  <2> QED
    BY <2>2 DEF at, v
<1>13. \A a \in 0 .. MemSize - 1 :
         a \notin low .. low + 4 * Cardinality(list) - 1 => b[16].mem[a] = m[a]
  <2> DEFINE top == low + 4 * Cardinality(list)
  <2>1. at(16) = top
    BY <1>4
  <2>2. \A a \in 0 .. MemSize - 1 : a \notin low .. at(16) - 1 => b[16].mem[a] = m[a]
    BY <1>10
  <2> HIDE DEF J, P, Kept, Same
  <2> HIDE DEF top
  <2>3. \A a \in 0 .. MemSize - 1 : a \notin low .. top - 1 => b[16].mem[a] = m[a]
    BY <2>1, <2>2
  <2>4. Cardinality(list) \in Nat
    BY <1>1, Counted
  <2>5. low + 4 * Cardinality(list) - 1 = top - 1
    BY <1>1, <2>4 DEF top
  <2> QED
    BY <2>3, <2>5, Zenon
<1>14. b[16].r = f
  BY <1>10
<1>15. s = b[16]
  BY DEF b
<1> HIDE DEF J, P, Kept, Same
<1> QED
  BY <1>11, <1>12, <1>13, <1>14, <1>15, Zenon

\* The registers when a pop has done its turns below i: those of the list from i on are
\* zero, the stack pointer is x and the others are those of f.
Partly(f, list, x, i) ==
    [s \in Slot |-> IF \E reg \in list : reg >= i /\ s = register_slot(f, reg) THEN 0
                    ELSE IF s = register_slot(f, SP) THEN x ELSE f[s]]

\* A turn of the pop.
LEMMA PopTurn ==
    ASSUME NEW f \in RegisterFile, NEW list \in SUBSET ((0 .. 14) \ {SP}), NEW x \in Word,
           NEW i \in 0 .. 15
    PROVE  /\ Partly(f, list, x, i) \in RegisterFile /\ Partly(f, list, x, i)[CPSR] = f[CPSR]
           /\ Partly(f, list, x, i)[register_slot(f, SP)] = x
           /\ i \notin list => Partly(f, list, x, i + 1) = Partly(f, list, x, i)
           /\ i \in list => Partly(f, list, x, i + 1)
                              = write_register(Partly(f, list, x, i), i, read_register(f, i))
<1> DEFINE h == Partly(f, list, x, i)
           k == Partly(f, list, x, i + 1)
           slot(reg) == register_slot(f, reg)
<1>1. \A reg \in list : reg \in 0 .. 15 /\ reg \in Int /\ reg # SP
  OBVIOUS
<1>2. \A reg \in 0 .. 15 : slot(reg) \in (0 .. 31) \ {CPSR}
  BY ReadTyped
<1>3. SP \in 0 .. 15 /\ CPSR \in Slot /\ 0 \in Word /\ \A s \in 0 .. 31 : s \in Slot
  BY WordAssumption DEF SP, CPSR, Slot, Word
<1>4. \A s \in Slot : f[s] \in Word
  BY DEF RegisterFile
<1>5. \A reg, other \in 0 .. 15 : slot(reg) = slot(other) => reg = other
  BY SlotsApart
<1> HIDE DEF slot
<1>6. /\ h = [s \in Slot |-> IF \E reg \in list : reg >= i /\ s = slot(reg) THEN 0
                             ELSE IF s = slot(SP) THEN x ELSE f[s]]
      /\ k = [s \in Slot |-> IF \E reg \in list : reg >= i + 1 /\ s = slot(reg) THEN 0
                             ELSE IF s = slot(SP) THEN x ELSE f[s]]
  BY DEF Partly, slot
<1> HIDE DEF h, k
<1>7. h \in RegisterFile
  BY <1>3, <1>4, <1>6 DEF RegisterFile
<1>8. h[CPSR] = f[CPSR]
  BY <1>1, <1>2, <1>3, <1>6
<1>9. h[slot(SP)] = x
  BY <1>1, <1>2, <1>3, <1>5, <1>6
<1>10. ASSUME i \notin list PROVE k = h
  <2>1. \A reg \in list : reg >= i + 1 <=> reg >= i
    BY <1>1, <1>10
  <2> QED
    BY <1>6, <2>1
<1>11. ASSUME i \in list PROVE k = write_register(h, i, read_register(f, i))
  <2>1. register_slot(h, i) = slot(i)
    BY <1>8, SameSlots DEF slot
  <2>2. write_register(h, i, read_register(f, i)) = [h EXCEPT ![slot(i)] = f[slot(i)]]
    BY <2>1 DEF write_register, read_register, slot
  <2>3. slot(i) \in Slot /\ slot(i) # slot(SP)
    BY <1>1, <1>2, <1>3, <1>5, <1>11
  <2>4. ASSUME NEW s \in Slot PROVE k[s] = IF s = slot(i) THEN f[slot(i)] ELSE h[s]
    <3>1. CASE s = slot(i)
      <4>1. ~ \E reg \in list : reg >= i + 1 /\ s = slot(reg)
        BY <1>1, <1>5, <3>1
      <4> QED
        BY <1>6, <2>3, <3>1, <4>1
    <3>2. CASE s # slot(i)
      <4>1. \A reg \in list : s = slot(reg) => (reg >= i + 1 <=> reg >= i)
        BY <1>1, <3>2
      <4>2. (\E reg \in list : reg >= i + 1 /\ s = slot(reg)) <=> (\E reg \in list : reg >= i /\ s = slot(reg))
        BY <4>1
      <4> QED
        BY <1>6, <3>2, <4>2
    <3> QED
      BY <3>1, <3>2
  <2>5. k = [h EXCEPT ![slot(i)] = f[slot(i)]]
    BY <1>6, <1>7, <2>3, <2>4 DEF RegisterFile
  <2> QED
    BY <2>2, <2>5
<1> QED
  BY <1>7, <1>8, <1>9, <1>10, <1>11 DEF h, k, slot

\* What a pop has done when its loop ends, from memory where the words of the list are in
\* their places.
LEMMA Popped ==
    ASSUME NEW f \in RegisterFile, NEW m \in M!Contents, NEW ins, ins.L = 1,
           ins.list \in SUBSET ((0 .. 14) \ {SP}), NEW low \in Word,
           Inside(low, 4 * Cardinality(ins.list)), NEW g \in Word, NEW x \in Word,
           \A reg \in ins.list : Holds(m, low + 4 * Below(ins.list, reg), read_register(f, reg))
    PROVE  block(Partly(f, ins.list, x, 0), m, ins, low, g)[16].r = Partly(f, ins.list, x, 16)
<1> DEFINE list == ins.list
           h(i) == Partly(f, list, x, i)
           b == block(h(0), m, ins, low, g)
           at(i) == low + 4 * Below(list, i)
<1>1. /\ list \in SUBSET (0 .. 15) /\ list \in SUBSET ((0 .. 14) \ {SP}) /\ low \in Nat
      /\ \A i \in list : i \in 0 .. 15 /\ i # PC
  BY WordAssumption DEF Word, PC
<1>2. h(0) \in RegisterFile
  <2>1. 0 \in 0 .. 15
    OBVIOUS
  <2> QED
    BY <1>1, <2>1, PopTurn
<1>3. /\ b \in [0 .. 16 -> LoopStates] /\ b[0] = [r |-> h(0), mem |-> m, address |-> low, val |-> g]
      /\ \A n \in 0 .. 15 : b[n + 1] = transfer_register(b[n], ins, n, g)
  BY <1>2, BlockStates
<1>4. at(0) = low
  BY <1>1, Counted
<1>5. \A i \in list : /\ at(i) \in Nat /\ at(i) + 4 <= MemSize
                      /\ at(i + 1) = at(i) + 4 /\ Wrap(at(i) + 4) = at(i) + 4
  BY <1>1, BlockAddresses
<1>6. \A i \in 0 .. 15 \ list : at(i + 1) = at(i)
  <2>1. \A i \in 0 .. 15 :
          Below(list, i + 1) = IF i \in list THEN Below(list, i) + 1 ELSE Below(list, i)
    BY <1>1, Counted, Zenon
  <2> QED
    BY <2>1
<1>7. \A i \in list : read_register(f, i) \in Word /\ Holds(m, at(i), read_register(f, i))
  BY <1>1, ReadTyped
<1>8. \A i \in 0 .. 15 : /\ i \notin list => h(i + 1) = h(i)
                         /\ i \in list => h(i + 1) = write_register(h(i), i, read_register(f, i))
  BY PopTurn
<1> HIDE DEF b, h, at
<1> DEFINE J(n) == b[n].r = h(n) /\ b[n].mem = m /\ b[n].address = at(n)
           P == {n \in Nat : n <= 16 => J(n)}
<1>9. 0 \in P
  BY <1>3, <1>4
<1>10. \A n \in Nat : n \in P => n + 1 \in P
  <2> SUFFICES ASSUME NEW n \in Nat, n + 1 <= 16, J(n) PROVE J(n + 1)
    OBVIOUS
  <2>1. n \in 0 .. 15 /\ b[n + 1] = transfer_register(b[n], ins, n, g)
    BY <1>3
  <2>2. CASE n \notin list
    <3>1. b[n + 1] = b[n] /\ at(n + 1) = at(n)
      BY <1>6, <2>1, <2>2 DEF transfer_register
    <3> QED
      BY <1>8, <2>1, <2>2, <3>1
  <2>3. CASE n \in list
    <3>1. arm_read(b[n].mem, b[n].address, "word", b[n].val, g) = read_register(f, n)
      BY <1>5, <1>7, <2>3, LoadedWord
    <3>2. /\ b[n + 1].r = write_register(h(n), n, read_register(f, n)) /\ b[n + 1].mem = m
          /\ b[n + 1].address = Wrap(at(n) + 4)
      BY <1>1, <2>1, <2>3, <3>1 DEF transfer_register
    <3> QED
      BY <1>5, <1>8, <2>1, <2>3, <3>2
  <2> QED
    BY <2>2, <2>3
<1>11. Nat \subseteq P
  <2> HIDE DEF P
  <2> QED
    BY <1>9, <1>10, Induction
<1>12. J(16)
  BY <1>11
<1> QED
  BY <1>12 DEF h, b

\* Moving the stack pointer by n and back, and the lowest address of the block seen from
\* both ends.
LEMMA StackPointer ==
    ASSUME NEW sp \in Word, NEW n \in Nat, NEW d \in Int
    PROVE  /\ Wrap(Wrap(sp + n) - n) = sp /\ Wrap(Wrap(sp - n) + n) = sp
           /\ Wrap((Wrap(sp + n) - n) + d) = Wrap(sp + d)
           /\ Wrap(Wrap(sp - n) + d) = Wrap((sp - n) + d)
<1>1. sp \in Int /\ sp + n \in Int /\ sp - n \in Int /\ - n \in Int /\ d - n \in Int
  BY WordAssumption DEF Word
<1>2. Wrap(sp) = sp
  BY WordAssumption DEF Wrap, Word
<1>3. Wrap(sp + n) \in Int
  BY <1>1, WrapTyped, WordAssumption DEF Word
<1> DEFINE up == Wrap(sp + n)
<1>4. /\ Wrap(up + (- n)) = Wrap((sp + n) + (- n)) /\ Wrap(Wrap(sp - n) + n) = Wrap((sp - n) + n)
      /\ Wrap(up + (d - n)) = Wrap((sp + n) + (d - n))
      /\ Wrap(Wrap(sp - n) + d) = Wrap((sp - n) + d)
  <2>1. Wrap(up + (- n)) = Wrap((sp + n) + (- n))
    BY <1>1, WrapTwice
  <2>2. Wrap(Wrap(sp - n) + n) = Wrap((sp - n) + n)
    BY <1>1, WrapTwice
  <2>3. Wrap(up + (d - n)) = Wrap((sp + n) + (d - n))
    BY <1>1, WrapTwice
  <2>4. Wrap(Wrap(sp - n) + d) = Wrap((sp - n) + d)
    BY <1>1, WrapTwice
  <2> QED
    BY <2>1, <2>2, <2>3, <2>4
<1> HIDE DEF up
<1>5. /\ up + (- n) = up - n /\ (sp + n) + (- n) = sp /\ (sp - n) + n = sp
      /\ up + (d - n) = (up - n) + d /\ (sp + n) + (d - n) = sp + d
  BY <1>1, <1>3 DEF up
<1> QED
  BY <1>2, <1>4, <1>5 DEF up

\* A push and the matching pop start at the same address.
LEMMA SameBlock ==
    ASSUME NEW sp \in Word, NEW U \in {0, 1}, NEW P \in {0, 1}, NEW list, Cardinality(list) \in Nat
    PROVE  LET n == 4 * Cardinality(list)
               moved == Wrap(IF U = 1 THEN sp + n ELSE sp - n)
               low == first_address(sp, Block(0, U, P, 1, SP, list))
           IN  /\ low \in Word /\ moved \in Word
               /\ first_address(moved, Block(1, 1 - U, 1 - P, 1, SP, list)) = low
               /\ Wrap(IF 1 - U = 1 THEN moved + n ELSE moved - n) = sp
<1> DEFINE n == 4 * Cardinality(list)
           push == Block(0, U, P, 1, SP, list)
           pop == Block(1, 1 - U, 1 - P, 1, SP, list)
           up == Wrap(sp + n)
           down == Wrap(sp - n)
<1>1. n \in Nat /\ sp \in Int /\ sp + n \in Int /\ sp - n \in Int /\ sp + 4 \in Int /\ (sp - n) + 4 \in Int
  BY WordAssumption DEF Word
<1>2. push.U = U /\ push.P = P /\ push.list = list /\ pop.U = 1 - U /\ pop.P = 1 - P /\ pop.list = list
  BY DEF Block
<1> HIDE DEF push, pop
<1>3. /\ first_address(sp, push)
           = Wrap(IF U = P THEN (IF U = 1 THEN sp ELSE sp - n) + 4 ELSE (IF U = 1 THEN sp ELSE sp - n))
      /\ \A x : first_address(x, pop)
           = Wrap(IF 1 - U = 1 - P THEN (IF 1 - U = 1 THEN x ELSE x - n) + 4
                                   ELSE (IF 1 - U = 1 THEN x ELSE x - n))
  BY <1>2 DEF first_address
<1> HIDE DEF n
<1>4. /\ up \in Word /\ down \in Word /\ up \in Int /\ down \in Int
      /\ Wrap(sp) \in Word /\ Wrap(sp + 4) \in Word
      /\ Wrap((sp - n) + 4) \in Word
  BY <1>1, WrapTyped, WordAssumption DEF Word
<1>5. /\ Wrap(up - n) = sp /\ Wrap(down + n) = sp
      /\ Wrap((up - n) + 4) = Wrap(sp + 4) /\ Wrap(down + 4) = Wrap((sp - n) + 4)
  <2> DEFINE d == 4
  <2>1. d \in Int
    OBVIOUS
  <2> HIDE DEF d
  <2>2. /\ Wrap(up - n) = sp /\ Wrap(down + n) = sp
        /\ Wrap((up - n) + d) = Wrap(sp + d) /\ Wrap(down + d) = Wrap((sp - n) + d)
    BY <1>1, <2>1, StackPointer, Zenon
  <2> QED
    BY <2>2 DEF d
<1>6. Wrap(sp) = sp /\ Wrap(down) = down
  BY <1>4, WordAssumption DEF Wrap, Word
<1> HIDE DEF up, down
<1>7. CASE U = 1
  <2>1. 1 - U = 0 /\ (1 - U = 1 - P <=> U = P)
    BY <1>7
  <2> QED
    BY <1>3, <1>4, <1>5, <1>6, <1>7, <2>1 DEF up, down, n, push, pop
<1>8. CASE U = 0
  <2>1. 1 - U = 1 /\ (1 - U = 1 - P <=> U = P)
    BY <1>8
  <2> QED
    BY <1>3, <1>4, <1>5, <1>6, <1>8, <2>1 DEF up, down, n, push, pop
<1> QED
  BY <1>7, <1>8

\* A push, changes to the registers pushed and the matching pop, for one list.
LEMMA Restored ==
    ASSUME r \in RegisterFile, mem \in M!Contents, NEW U \in {0, 1}, NEW P \in {0, 1},
           NEW list \in SUBSET ((0 .. 14) \ {SP}),
           Inside(first_address(read_register(r, SP), Block(0, U, P, 1, SP, list)), 4 * Cardinality(list))
    PROVE  LET n == 4 * Cardinality(list)
               low == first_address(read_register(r, SP), Block(0, U, P, 1, SP, list))
               pushed == arm_load_store_multiple(r, mem, Block(0, U, P, 1, SP, list), 0)
               dirty == [s \in Slot |-> IF \E reg \in list : s = register_slot(r, reg)
                                        THEN 0 ELSE pushed.r[s]]
               popped == arm_load_store_multiple(dirty, pushed.mem,
                                                 Block(1, 1 - U, 1 - P, 1, SP, list), 0)
           IN  /\ popped.r = r
               /\ \A a \in 0 .. MemSize - 1 : mem[a] # pushed.mem[a] => a \in low .. low + n - 1
<1> DEFINE n == 4 * Cardinality(list)
           sp == read_register(r, SP)
           slot == register_slot(r, SP)
           push == Block(0, U, P, 1, SP, list)
           pop == Block(1, 1 - U, 1 - P, 1, SP, list)
           low == first_address(sp, push)
           moved == Wrap(IF U = 1 THEN sp + n ELSE sp - n)
           b == block(r, mem, push, low, 0)[16]
           pushed == arm_load_store_multiple(r, mem, push, 0)
           dirty == [s \in Slot |-> IF \E reg \in list : s = register_slot(r, reg) THEN 0 ELSE pushed.r[s]]
           c == block(dirty, b.mem, pop, low, 0)[16]
           popped == arm_load_store_multiple(dirty, pushed.mem, pop, 0)
           h(i) == Partly(r, list, moved, i)
<1>1. /\ push.L = 0 /\ push.U = U /\ push.W = 1 /\ push.rn = SP /\ push.list = list
      /\ pop.L = 1 /\ pop.U = 1 - U /\ pop.W = 1 /\ pop.rn = SP /\ pop.list = list
  BY DEF Block
<1>2. sp \in Word /\ 0 \in Word /\ sp = r[slot] /\ slot \in Slot \ {CPSR}
  <2>1. SP \in 0 .. 15
    BY DEF SP
  <2>2. slot \in (0 .. 31) \ {CPSR} /\ sp \in Word
    BY <2>1, ReadTyped
  <2> QED
    BY <2>2, WordAssumption DEF Word, Slot, read_register
<1>3. Cardinality(list) \in Nat
  <2>1. list \in SUBSET (0 .. 15)
    OBVIOUS
  <2> QED
    BY <2>1, Counted
<1>4. low \in Word /\ moved \in Word /\ first_address(moved, pop) = low
      /\ Wrap(IF 1 - U = 1 THEN moved + n ELSE moved - n) = sp
  BY <1>2, <1>3, SameBlock
<1>5. Inside(low, n)
  OBVIOUS
<1> HIDE DEF push, pop, low, moved, sp, slot
<1>6. /\ b.r = r /\ b.mem \in M!Contents
      /\ \A reg \in list : Holds(b.mem, low + 4 * Below(list, reg), read_register(r, reg))
      /\ \A a \in 0 .. MemSize - 1 : a \notin low .. low + n - 1 => b.mem[a] = mem[a]
  <2>1. push.L = 0 /\ push.list \in SUBSET (0 .. 14) /\ Inside(low, 4 * Cardinality(push.list))
    BY <1>1, <1>5
  <2> DEFINE g == 0
  <2>2. g \in Word /\ b = block(r, mem, push, low, g)[16]
    BY <1>2
  <2> HIDE DEF b, g
  <2>3. /\ b.r = r /\ b.mem \in M!Contents
        /\ \A reg \in push.list : Holds(b.mem, low + 4 * Below(push.list, reg), read_register(r, reg))
        /\ \A a \in 0 .. MemSize - 1 :
             a \notin low .. low + 4 * Cardinality(push.list) - 1 => b.mem[a] = mem[a]
    BY <1>4, <2>1, <2>2, Pushed
  <2> QED
    BY <1>1, <2>3
<1>7. pushed.r = [r EXCEPT ![slot] = moved] /\ pushed.mem = b.mem
  <2>1. arm_read_register(r, SP) = sp
    BY DEF arm_read_register, SP, PC, sp
  <2>2. pushed = State(write_register(b.r, SP, moved), b.mem)
    BY <1>1, <2>1 DEF arm_load_store_multiple, low, moved
  <2> HIDE DEF pushed, b
  <2>3. write_register(b.r, SP, moved) = [r EXCEPT ![slot] = moved]
    BY <1>6 DEF write_register, slot
  <2> QED
    BY <2>2, <2>3 DEF State
<1> HIDE DEF b, pushed
<1>8. dirty = h(0)
  <2>1. \A s \in Slot : pushed.r[s] = IF s = slot THEN moved ELSE r[s]
    BY <1>2, <1>7 DEF RegisterFile
  <2>2. \A reg \in list : reg >= 0
    OBVIOUS
  <2>3. h(0) = [s \in Slot |-> IF \E reg \in list : reg >= 0 /\ s = register_slot(r, reg) THEN 0
                               ELSE IF s = slot THEN moved ELSE r[s]]
    BY DEF Partly, slot
  <2>4. \A s \in Slot : (\E reg \in list : reg >= 0 /\ s = register_slot(r, reg))
                          <=> (\E reg \in list : s = register_slot(r, reg))
    BY <2>2
  <2> HIDE DEF h
  <2> QED
    BY <2>1, <2>3, <2>4
<1>9. dirty \in RegisterFile /\ dirty[CPSR] = r[CPSR] /\ dirty[slot] = moved
  <2>1. 0 \in 0 .. 15
    OBVIOUS
  <2>2. h(0) \in RegisterFile /\ h(0)[CPSR] = r[CPSR] /\ h(0)[slot] = moved
    BY <1>4, <2>1, PopTurn DEF slot
  <2> HIDE DEF h, dirty
  <2> QED
    BY <1>8, <2>2
<1> HIDE DEF dirty
<1>10. c.r = [r EXCEPT ![slot] = moved]
  <2>1. pop.list \in SUBSET ((0 .. 14) \ {SP}) /\ Inside(low, 4 * Cardinality(pop.list))
    BY <1>1, <1>5
  <2>2. \A reg \in pop.list : Holds(b.mem, low + 4 * Below(pop.list, reg), read_register(r, reg))
    BY <1>1, <1>6
  <2>3. block(Partly(r, pop.list, moved, 0), b.mem, pop, low, 0)[16].r = Partly(r, pop.list, moved, 16)
    <3> DEFINE m == b.mem
    <3>1. /\ m \in M!Contents /\ pop.L = 1 /\ low \in Word /\ moved \in Word /\ 0 \in Word
          /\ \A reg \in pop.list : Holds(m, low + 4 * Below(pop.list, reg), read_register(r, reg))
      BY <1>1, <1>2, <1>4, <1>6, <2>2
    <3> HIDE DEF m
    <3>2. block(Partly(r, pop.list, moved, 0), m, pop, low, 0)[16].r = Partly(r, pop.list, moved, 16)
      BY <2>1, <3>1, Popped
    <3> QED
      BY <3>2 DEF m
  <2>4. c.r = h(16)
    <3>1. Partly(r, pop.list, moved, 0) = dirty /\ Partly(r, pop.list, moved, 16) = h(16)
      BY <1>1, <1>8
    <3> HIDE DEF h
    <3> QED
      BY <2>3, <3>1
  <2>5. \A reg \in list : ~ (reg >= 16)
    OBVIOUS
  <2>6. h(16) = [s \in Slot |-> IF \E reg \in list : reg >= 16 /\ s = register_slot(r, reg) THEN 0
                                ELSE IF s = slot THEN moved ELSE r[s]]
    BY DEF Partly, slot
  <2>7. h(16) = [r EXCEPT ![slot] = moved]
    BY <1>2, <2>5, <2>6 DEF RegisterFile
  <2> QED
    BY <2>4, <2>7
<1>11. popped.r = write_register(c.r, SP, sp)
  <2>1. register_slot(dirty, SP) = slot
    BY <1>9, SameSlots DEF slot
  <2>2. arm_read_register(dirty, SP) = moved
    BY <1>9, <2>1 DEF arm_read_register, read_register, SP, PC
  <2>3. popped = State(write_register(c.r, SP, sp), c.mem)
    BY <1>1, <1>4, <1>7, <2>2 DEF arm_load_store_multiple
  <2> QED
    BY <2>3 DEF State
<1> HIDE DEF c
<1>12. write_register(c.r, SP, sp) = r
  <2>1. c.r[CPSR] = r[CPSR]
    BY <1>2, <1>10 DEF RegisterFile, CPSR, Slot
  <2>2. register_slot(c.r, SP) = slot
    BY <2>1, SameSlots DEF slot
  <2>3. write_register(c.r, SP, sp) = [c.r EXCEPT ![slot] = sp]
    BY <2>2 DEF write_register
  <2>4. [c.r EXCEPT ![slot] = r[slot]] = r
    BY <1>2, <1>10 DEF RegisterFile
  <2> QED
    BY <1>2, <2>3, <2>4
<1>13. popped.r = r
  BY <1>11, <1>12
<1>14. \A a \in 0 .. MemSize - 1 : mem[a] # pushed.mem[a] => a \in low .. low + n - 1
  BY <1>6, <1>7
<1> QED
  BY <1>13, <1>14 DEF dirty, pushed, low, push, pop, sp

\* A push and a pop always restore the registers.
THEOREM StackAlwaysRestores == MachineSpec => []StackRestores
<1>1. MachineTypeOK => StackRestores
  <2> SUFFICES ASSUME MachineTypeOK PROVE StackRestores
    OBVIOUS
  <2>1. r \in RegisterFile /\ mem \in M!Contents
    BY DEF MachineTypeOK, RegTypeOK
  <2>2. \A list \in Lists : list \in SUBSET ((0 .. 14) \ {SP})
    BY ProgramAssumption
  <2> QED
    BY <2>1, <2>2, Restored DEF StackRestores
<1> QED
  BY <1>1, MachineTyped, PTL
=============================================================================
