---------------------------- MODULE MemoryProofs ----------------------------
(***************************************************************************)
(* What modules Memory and GdbMemory promise, proved for every size of     *)
(* memory, every set of addresses, both byte orders and packets of every   *)
(* length.                                                                 *)
(***************************************************************************)
EXTENDS GdbMemory, Induction, SequenceTheorems

\* The whole of an aligned access is inside the array, because the size is a
\* multiple of four: no write of memory.c falls outside it.
LEMMA AlignedInside ==
    ASSUME NEW a \in Nat, NEW n \in {1, 2, 4}, write_result(a, n) = 0
    PROVE  a < Size /\ a % n = 0 /\ a + n - 1 < Size
<1>1. a < Size /\ a % n = 0
  BY MemoryAssumption DEF write_result, is_not_valid_address, DATA_ABORT
<1>2. CASE n = 1
  BY <1>1, <1>2
<1>3. CASE n = 2
  BY <1>1, <1>3, MemoryAssumption
<1>4. CASE n = 4
  BY <1>1, <1>4, MemoryAssumption
<1> QED
  BY <1>2, <1>3, <1>4

\* memory_write_half and memory_write_word, byte by byte.
LEMMA HalfBytes ==
    ASSUME NEW m \in Contents, NEW be, NEW a \in Nat, NEW v \in Half, write_result(a, 2) = 0
    PROVE  /\ memory_write_half(m, be, a, v) \in Contents
           /\ \A i \in 0 .. Size - 1 :
                memory_write_half(m, be, a, v)[i] =
                  IF i = a THEN (IF be = 1 THEN v[1] ELSE v[2])
                  ELSE IF i = a + 1 THEN (IF be = 1 THEN v[2] ELSE v[1]) ELSE m[i]
BY AlignedInside, MemoryAssumption DEF memory_write_half, Contents, Half

\* The same for a word.
LEMMA WordBytes ==
    ASSUME NEW m \in Contents, NEW be, NEW a \in Nat, NEW v \in Word, write_result(a, 4) = 0
    PROVE  /\ memory_write_word(m, be, a, v) \in Contents
           /\ \A i \in 0 .. Size - 1 :
                memory_write_word(m, be, a, v)[i] =
                  IF i = a THEN (IF be = 1 THEN v[1] ELSE v[4])
                  ELSE IF i = a + 1 THEN (IF be = 1 THEN v[2] ELSE v[3])
                  ELSE IF i = a + 2 THEN (IF be = 1 THEN v[3] ELSE v[2])
                  ELSE IF i = a + 3 THEN (IF be = 1 THEN v[4] ELSE v[1]) ELSE m[i]
BY AlignedInside, MemoryAssumption DEF memory_write_word, Contents, Word

\* No write of memory.c changes the type of the array.
LEMMA MemoryKeepsType == ASSUME MemTypeOK, [MemNext]_mvars PROVE MemTypeOK'
<1>1. CASE WriteByte
  BY <1>1, MemoryAssumption DEF MemTypeOK, WriteByte, write_result, memory_write_byte, Contents
<1>2. CASE WriteHalf
  <2>1. PICK a \in Addresses, v \in Half :
          /\ result' = write_result(a, 2)
          /\ mem' = IF result' = 0 THEN memory_write_half(mem, is_big_endian, a, v) ELSE mem
          /\ UNCHANGED is_big_endian
    BY <1>2 DEF WriteHalf
  <2>2. result' \in {0, DATA_ABORT}
    BY <2>1 DEF write_result
  <2>3. mem' \in Contents
    BY <2>1, HalfBytes, MemoryAssumption DEF MemTypeOK
  <2> QED
    BY <2>1, <2>2, <2>3 DEF MemTypeOK
<1>3. CASE WriteWord
  <2>1. PICK a \in Addresses, v \in Word :
          /\ result' = write_result(a, 4)
          /\ mem' = IF result' = 0 THEN memory_write_word(mem, is_big_endian, a, v) ELSE mem
          /\ UNCHANGED is_big_endian
    BY <1>3 DEF WriteWord
  <2>2. result' \in {0, DATA_ABORT}
    BY <2>1 DEF write_result
  <2>3. mem' \in Contents
    BY <2>1, WordBytes, MemoryAssumption DEF MemTypeOK
  <2> QED
    BY <2>1, <2>2, <2>3 DEF MemTypeOK
<1>4. CASE UNCHANGED mvars
  BY <1>4 DEF mvars, MemTypeOK
<1> QED
  BY <1>1, <1>2, <1>3, <1>4 DEF MemNext

----------------------------------------------------------------------------

\* A byte is sent as one or two bytes.
LEMMA CodeType == ASSUME NEW b \in Int PROVE code(b) \in Seq(Int)
BY DEF code, invert, ESCAPE

\* Turn n of sending data, as a function of what was sent.
Sends(data) == [n \in 1 .. Len(data) |-> [s \in Seq(Int) |-> s \o code(data[n])]]

\* codes is well defined: gdb sends the code of each byte after those before it.
LEMMA CodesStates ==
    ASSUME NEW data \in Seq(Int)
    PROVE  States(codes(data), Len(data), Seq(Int), <<>>, Sends(data))
<1> DEFINE N == Len(data)
           Step(g) == [n \in 0 .. N |-> IF n = 0 THEN <<>> ELSE g[n - 1] \o code(data[n])]
           F == Sends(data)
           S == Seq(Int)
           none == <<>>
<1>1. N \in Nat /\ none \in S
  OBVIOUS
<1>2. F \in [1 .. N -> [S -> S]]
  <2> SUFFICES ASSUME NEW n \in 1 .. N, NEW s \in Seq(Int) PROVE s \o code(data[n]) \in Seq(Int)
    BY DEF Sends
  <2>1. data[n] \in Int
    BY <1>1
  <2>2. code(data[n]) \in Seq(Int)
    BY <2>1, CodeType
  <2> QED
    BY <2>2, ConcatProperties
<1>3. \A n \in 1 .. N, s \in S : F[n][s] = s \o code(data[n])
  BY DEF Sends
<1>4. \E f : States(f, N, S, none, F)
  <2> HIDE DEF N, S, none, F
  <2> QED
    BY <1>1, <1>2, LoopHasStates
<1>5. PICK f : States(f, N, S, none, F)
  BY <1>4
<1>6. f = Step(f)
  <2>1. ASSUME NEW n \in 0 .. N PROVE f[n] = IF n = 0 THEN <<>> ELSE f[n - 1] \o code(data[n])
    <3>1. CASE n = 0
      BY <3>1, <1>5 DEF States
    <3>2. CASE n # 0
      <4> HIDE DEF N, S, F
      <4>1. n \in 1 .. N /\ n - 1 \in 0 .. N
        BY <1>1, <3>2
      <4>2. f[n - 1] \in S /\ f[n] = F[n][f[n - 1]]
        BY <4>1, <1>5 DEF States
      <4> QED
        BY <3>2, <4>1, <4>2, <1>3
    <3> QED
      BY <3>1, <3>2
  <2> QED
    BY <2>1, <1>5 DEF States
<1>7. codes(data) = Step(codes(data))
  <2>1. codes(data) = CHOOSE h : h = Step(h)
    BY DEF codes
  <2> HIDE DEF Step
  <2> QED
    BY <1>6, <2>1
<1> QED
  <2> DEFINE c == codes(data)
             cat(s, n) == s \o code(data[n])
  <2> HIDE DEF c
  <2>1. c = [n \in 0 .. N |-> IF n = 0 THEN none ELSE cat(c[n - 1], n)]
    BY <1>7 DEF c
  <2>2. \A n \in 1 .. N, s \in S : F[n][s] = cat(s, n)
    BY <1>3
  <2> HIDE DEF cat, none, N, F, S
  <2>3. DOMAIN c = 0 .. N /\ c = [n \in DOMAIN c |-> c[n]] /\ c[0] = none
    <3>1. DOMAIN c = 0 .. N
      BY <2>1
    <3>2. c[0] = none
      BY <2>1, <1>1
    <3>3. c = [n \in DOMAIN c |-> c[n]]
      BY <2>1
    <3> QED
      BY <3>1, <3>2, <3>3
  <2>4. \A n \in 1 .. N : c[n - 1] \in S => c[n] = F[n][c[n - 1]]
    BY <2>1, <2>2, <1>1
  <2>5. States(c, N, S, none, F)
    BY <1>1, <1>2, <2>3, <2>4, LoopStays
  <2> QED
    BY <2>5 DEF c, N, S, none, F

\* The part of the content that codes the first n bytes.
LEMMA CodesGrow ==
    ASSUME NEW data \in Seq(Int), NEW n \in 1 .. Len(data)
    PROVE  /\ codes(data)[n - 1] \in Seq(Int) /\ codes(data)[n] \in Seq(Int)
           /\ code(data[n]) \in Seq(Int)
           /\ codes(data)[n] = codes(data)[n - 1] \o code(data[n])
<1> DEFINE c == codes(data)
           S == Seq(Int)
<1>1. n - 1 \in 0 .. Len(data) /\ n \in 0 .. Len(data) /\ data[n] \in Int
  OBVIOUS
<1>2. c[n - 1] \in S /\ c[n] \in S /\ c[n] = Sends(data)[n][c[n - 1]]
  BY <1>1, CodesStates DEF States
<1>3. \A s \in S : Sends(data)[n][s] = s \o code(data[n])
  BY DEF Sends
<1> HIDE DEF c, S
<1>4. c[n] = c[n - 1] \o code(data[n])
  BY <1>2, <1>3
<1> QED
  BY <1>1, <1>2, <1>4, CodeType DEF c, S

\* What codes some of the bytes starts the code of all of them.
LEMMA CodesPrefix ==
    ASSUME NEW data \in Seq(Int), NEW n \in 0 .. Len(data)
    PROVE  /\ codes(data)[n] \in Seq(Int) /\ escaped(data) \in Seq(Int)
           /\ Len(codes(data)[n]) <= Len(escaped(data))
           /\ \A i \in 1 .. Len(codes(data)[n]) : escaped(data)[i] = codes(data)[n][i]
<1> DEFINE c == codes(data)
           N == Len(data)
           Starts(m) == /\ Len(c[n]) <= Len(c[m])
                        /\ \A i \in 1 .. Len(c[n]) : c[m][i] = c[n][i]
           P == {k \in Nat : n + k <= N => Starts(n + k)}
<1>0. N \in Nat /\ \A m \in 0 .. N : c[m] \in Seq(Int)
  BY CodesStates DEF States
<1>1. 0 \in P
  BY <1>0
<1>2. \A k \in Nat : k \in P => k + 1 \in P
  <2> SUFFICES ASSUME NEW k \in Nat, n + (k + 1) <= N, Starts(n + k)
               PROVE  Starts(n + (k + 1))
    BY <1>0
  <2> DEFINE m == n + (k + 1)
             t == code(data[m])
  <2>1. m \in 1 .. N /\ m - 1 = n + k
    BY <1>0
  <2>2. c[m - 1] \in Seq(Int) /\ t \in Seq(Int) /\ c[m] = c[m - 1] \o t
    BY <2>1, CodesGrow
  <2>3. Len(c[m]) = Len(c[m - 1]) + Len(t) /\ \A i \in 1 .. Len(c[m - 1]) : c[m][i] = c[m - 1][i]
    <3> DEFINE a == c[m - 1]
    <3>1. a \in Seq(Int) /\ t \in Seq(Int) /\ c[m] = a \o t
      BY <2>2
    <3> HIDE DEF a, t, m
    <3> QED
      BY <3>1, ConcatProperties DEF a
  <2>4. Len(t) \in Nat /\ Len(c[m - 1]) \in Nat /\ Len(c[n]) \in Nat
    BY <2>2, <1>0
  <2>5. Starts(m - 1)
    BY <2>1
  <2> HIDE DEF c, m, t
  <2> QED
    BY <2>3, <2>4, <2>5 DEF m
<1>3. Nat \subseteq P
  <2> HIDE DEF P
  <2> QED
    BY <1>1, <1>2, Induction
<1>4. Starts(N)
  <2>1. N - n \in Nat /\ n + (N - n) = N
    BY <1>0
  <2> QED
    BY <1>3, <2>1
<1> QED
  BY <1>0, <1>4 DEF escaped

\* invert is its own inverse on bytes.
LEMMA InvertTwice == ASSUME NEW b \in 0 .. 255 PROVE invert(invert(b)) = b
BY DEF invert

\* The loop of write_memory_binary finds byte n where its code starts, and then
\* stands where the next one does.
LEMMA Decoded ==
    ASSUME NEW data \in Seq(Int), \A i \in 1 .. Len(data) : data[i] \in 0 .. 255,
           NEW n \in 1 .. Len(data)
    PROVE  LET p == Len(codes(data)[n - 1]) + 1
           IN  /\ next_value(escaped(data), p) = data[n]
               /\ next_position(escaped(data), p) = Len(codes(data)[n]) + 1
<1> DEFINE before == codes(data)[n - 1]
           upto == codes(data)[n]
           content == escaped(data)
           b == data[n]
           p == Len(before) + 1
<1>1. data \in Seq(Int) /\ n \in 0 .. Len(data) /\ b \in 0 .. 255
  OBVIOUS
<1>2. before \in Seq(Int) /\ upto \in Seq(Int) /\ code(b) \in Seq(Int) /\ upto = before \o code(b)
  BY <1>1, CodesGrow
<1>3. \A i \in 1 .. Len(upto) : content[i] = upto[i]
  BY <1>1, CodesPrefix
<1> HIDE DEF before, upto, content, b
<1>4. /\ Len(before) \in Nat /\ Len(code(b)) \in Nat
      /\ Len(upto) = Len(before) + Len(code(b))
      /\ \A i \in 1 .. Len(upto) : i > Len(before) => upto[i] = code(b)[i - Len(before)]
  BY <1>2, ConcatProperties
<1>5. CASE b \in Special
  <2>1. Len(code(b)) = 2 /\ code(b)[1] = ESCAPE /\ code(b)[2] = invert(b)
    BY <1>5 DEF code
  <2>2. content[p] = ESCAPE /\ content[p + 1] = invert(b)
    <3>1. p \in 1 .. Len(upto) /\ p + 1 \in 1 .. Len(upto)
      BY <1>4, <2>1
    <3>2. p - Len(before) = 1 /\ (p + 1) - Len(before) = 2
      BY <1>4
    <3>3. upto[p] = code(b)[1] /\ upto[p + 1] = code(b)[2]
      BY <3>1, <3>2, <1>4
    <3> QED
      BY <3>1, <3>3, <1>3, <2>1
  <2>3. next_value(content, p) = b
    BY <2>2, <1>1, InvertTwice DEF next_value
  <2>4. next_position(content, p) = Len(upto) + 1
    BY <2>1, <2>2, <1>4 DEF next_position
  <2> QED
    BY <2>3, <2>4 DEF before, upto, content, b
<1>6. CASE b \notin Special
  <2>1. Len(code(b)) = 1 /\ code(b)[1] = b
    BY <1>6 DEF code
  <2>2. content[p] = b /\ b # ESCAPE
    BY <1>3, <1>4, <1>6, <2>1 DEF Special
  <2>3. next_value(content, p) = b
    BY <2>2 DEF next_value
  <2>4. next_position(content, p) = Len(upto) + 1
    BY <2>1, <2>2, <1>4 DEF next_position
  <2> QED
    BY <2>3, <2>4 DEF before, upto, content, b
<1> QED
  BY <1>5, <1>6

----------------------------------------------------------------------------

\* The memory m with the first n bytes of data stored from address a on, those
\* that fall inside it.
Stored(m, a, data, n) ==
    [j \in 0 .. Size - 1 |-> IF a <= j /\ j < a + n THEN data[j - a + 1] ELSE m[j]]

\* The state of the loop after n turns.
AfterTurns(m, a, data, n) ==
    [mem |-> Stored(m, a, data, n),
     next |-> IF a < Size THEN Len(codes(data)[IF a + n <= Size + 1 THEN n ELSE Size + 1 - a]) + 1 ELSE 1,
     write_ok |-> a < Size /\ a + n <= Size]

\* A turn of the loop takes the state after n - 1 turns to the state after n.
LEMMA WriteTurn ==
    ASSUME NEW m \in Contents, NEW a \in Nat, NEW data \in Seq(Int),
           \A i \in 1 .. Len(data) : data[i] \in 0 .. 255, NEW n \in 1 .. Len(data)
    PROVE  write_byte(AfterTurns(m, a, data, n - 1), a + (n - 1), escaped(data))
             = AfterTurns(m, a, data, n)
<1> DEFINE s == AfterTurns(m, a, data, n - 1)
<1>0. n \in Nat /\ n >= 1 /\ Size \in Nat /\ (a + (n - 1)) % 1 = 0
  BY MemoryAssumption
<1> DEFINE old == Stored(m, a, data, n - 1)
           new == Stored(m, a, data, n)
           next(k) == Len(codes(data)[k]) + 1
<1>1. CASE ~ (a < Size /\ a + (n - 1) <= Size)
  <2> DEFINE x == IF a < Size THEN next(Size + 1 - a) ELSE 1
  <2>1. new = old
    BY <1>0, <1>1 DEF Stored
  <2>2. /\ ~ (a < Size /\ a + n <= Size)
        /\ a < Size => /\ a + (n - 1) <= Size + 1 => n - 1 = Size + 1 - a
                       /\ ~ (a + n <= Size + 1)
    BY <1>0, <1>1
  <2>3. s = [mem |-> old, next |-> x, write_ok |-> FALSE]
    BY <1>1, <2>2 DEF AfterTurns
  <2>4. AfterTurns(m, a, data, n) = [mem |-> old, next |-> x, write_ok |-> FALSE]
    BY <2>1, <2>2 DEF AfterTurns
  <2> HIDE DEF s, old, new, x
  <2> QED
    BY <2>3, <2>4 DEF write_byte, s
<1>2. CASE a < Size /\ a + (n - 1) <= Size
  <2>1. s = [mem |-> old, next |-> next(n - 1), write_ok |-> TRUE]
    <3>1. a + (n - 1) <= Size + 1
      BY <1>0, <1>2
    <3> QED
      BY <1>2, <3>1 DEF AfterTurns
  <2>2. /\ next_value(escaped(data), next(n - 1)) = data[n]
        /\ next_position(escaped(data), next(n - 1)) = next(n)
    BY Decoded
  <2>3. s.write_ok /\ s.mem = old /\ s.next = next(n - 1)
    BY <2>1
  <2>4. CASE a + n <= Size
    <3>1. write_result(a + (n - 1), 1) = 0
      BY <1>0, <1>2, <2>4 DEF write_result, is_not_valid_address
    <3>2. AfterTurns(m, a, data, n) = [mem |-> new, next |-> next(n), write_ok |-> TRUE]
      <4>1. a + n <= Size + 1
        BY <1>0, <2>4
      <4> QED
        BY <1>2, <2>4, <4>1 DEF AfterTurns
    <3>3. memory_write_byte(old, a + (n - 1), data[n]) = new
      <4>1. ASSUME NEW j \in 0 .. Size - 1
            PROVE  memory_write_byte(old, a + (n - 1), data[n])[j] = new[j]
        <5>1. CASE j = a + (n - 1)
          BY <1>0, <5>1 DEF Stored, memory_write_byte
        <5>2. CASE j # a + (n - 1)
          BY <1>0, <5>2 DEF Stored, memory_write_byte
        <5> QED
          BY <5>1, <5>2
      <4> QED
        BY <4>1 DEF Stored, memory_write_byte
    <3> HIDE DEF s, old, new, next
    <3>4. write_byte(s, a + (n - 1), escaped(data)) = AfterTurns(m, a, data, n)
      BY <2>2, <2>3, <3>1, <3>2, <3>3 DEF write_byte
    <3> QED
      BY <3>4 DEF s
  <2>5. CASE a + (n - 1) = Size
    <3>1. write_result(a + (n - 1), 1) # 0
      BY <1>0, <2>5 DEF write_result, is_not_valid_address, DATA_ABORT
    <3>2. new = old
      BY <1>0, <2>5 DEF Stored
    <3>3. AfterTurns(m, a, data, n) = [mem |-> old, next |-> next(n), write_ok |-> FALSE]
      <4>1. a + n <= Size + 1 /\ ~ (a + n <= Size)
        BY <1>0, <2>5
      <4> QED
        BY <1>2, <3>2, <4>1 DEF AfterTurns
    <3> HIDE DEF s, old, new, next
    <3>4. write_byte(s, a + (n - 1), escaped(data)) = AfterTurns(m, a, data, n)
      BY <2>2, <2>3, <3>1, <3>3 DEF write_byte
    <3> QED
      BY <3>4 DEF s
  <2> QED
    BY <1>0, <1>2, <2>4, <2>5
<1> QED
  BY <1>1, <1>2

\* The loop of write_memory_binary on the content that gdb sends for data.
LEMMA WriteStates ==
    ASSUME NEW m \in Contents, NEW a \in Nat, NEW data \in Seq(Int),
           \A i \in 1 .. Len(data) : data[i] \in 0 .. 255
    PROVE  write_memory_binary(m, a, escaped(data), Len(data)) = AfterTurns(m, a, data, Len(data))
<1> DEFINE N == Len(data)
           x == [mem |-> m, next |-> 1, write_ok |-> a < Size]
           content == escaped(data)
           f == write_bytes(m, a, content, N, a < Size)
           Step(h) == [i \in 0 .. N |->
                         IF i = 0 THEN x ELSE write_byte(h[i - 1], a + (i - 1), content)]
           g == [i \in 0 .. N |-> AfterTurns(m, a, data, i)]
<1>0. N \in Nat
  OBVIOUS
<1>1. AfterTurns(m, a, data, 0) = x
  <2>1. Stored(m, a, data, 0) = m
    BY DEF Stored, Contents
  <2>2. a + 0 = a /\ Size \in Nat /\ (a < Size => a <= Size /\ a <= Size + 1)
    BY MemoryAssumption
  <2>3. a < Size => codes(data)[0] = <<>> /\ Len(codes(data)[0]) + 1 = 1
    BY CodesStates DEF States
  <2>4. CASE a < Size
    BY <2>1, <2>2, <2>3, <2>4 DEF AfterTurns
  <2>5. CASE ~ (a < Size)
    BY <2>1, <2>5 DEF AfterTurns
  <2> QED
    BY <2>4, <2>5
<1>2. \A i \in 1 .. N : write_byte(g[i - 1], a + (i - 1), content) = g[i]
  <2> SUFFICES ASSUME NEW i \in 1 .. N PROVE write_byte(g[i - 1], a + (i - 1), content) = g[i]
    OBVIOUS
  <2>1. g[i - 1] = AfterTurns(m, a, data, i - 1) /\ g[i] = AfterTurns(m, a, data, i)
    BY <1>0
  <2> QED
    BY <2>1, WriteTurn
<1>3. g = Step(g)
  <2>1. ASSUME NEW i \in 0 .. N
        PROVE  g[i] = IF i = 0 THEN x ELSE write_byte(g[i - 1], a + (i - 1), content)
    <3>1. CASE i = 0
      BY <1>1, <3>1
    <3>2. CASE i # 0
      <4>1. i \in 1 .. N
        BY <1>0, <3>2
      <4> HIDE DEF g
      <4> QED
        BY <1>2, <3>2, <4>1
    <3> QED
      BY <3>1, <3>2
  <2>2. DOMAIN g = 0 .. N /\ g = [i \in 0 .. N |-> g[i]]
    OBVIOUS
  <2> HIDE DEF g, x, content
  <2> QED
    BY <2>1, <2>2
<1>4. f = Step(f)
  <2>1. f = CHOOSE h : h = Step(h)
    BY DEF write_bytes
  <2> HIDE DEF Step, f, g
  <2> QED
    BY <1>3, <2>1
<1> DEFINE P == {i \in Nat : i <= N => f[i] = g[i]}
<1> HIDE DEF f, g, N, x, content
<1>5. 0 \in P
  BY <1>0, <1>3, <1>4
<1>6. \A i \in Nat : i \in P => i + 1 \in P
  <2> SUFFICES ASSUME NEW i \in Nat, i + 1 <= N, f[i] = g[i] PROVE f[i + 1] = g[i + 1]
    BY <1>0
  <2>1. i + 1 \in 1 .. N /\ i + 1 \in 0 .. N /\ i + 1 # 0 /\ (i + 1) - 1 = i
    BY <1>0
  <2>2. f[i + 1] = write_byte(f[i], a + i, content) /\ g[i + 1] = write_byte(g[i], a + i, content)
    BY <2>1, <1>3, <1>4
  <2> QED
    BY <2>2
<1>7. Nat \subseteq P
  <2> HIDE DEF P
  <2> QED
    BY <1>5, <1>6, Induction
<1>8. f[N] = AfterTurns(m, a, data, N)
  <2>1. f[N] = g[N]
    BY <1>0, <1>7
  <2>2. N \in 0 .. N
    BY <1>0
  <2> QED
    BY <2>1, <2>2 DEF g
<1> QED
  BY <1>8 DEF write_memory_binary, f, N, content

\* What gdb writes are bytes.
LEMMA DataType ==
    ASSUME NEW data \in Data
    PROVE  /\ data \in Seq(Int) /\ Len(data) \in Nat
           /\ \A i \in 1 .. Len(data) : data[i] \in Byte /\ data[i] \in 0 .. 255
           /\ data = [i \in 1 .. Len(data) |-> data[i]]
<1>1. PICK n \in 0 .. MaxLength : data \in [1 .. n -> Byte]
  BY DEF Data
<1>2. n \in Nat /\ Byte \subseteq Int /\ Byte \subseteq 0 .. 255
  BY GdbMemoryAssumption
<1>3. data \in [1 .. n -> Int]
  BY <1>1, <1>2
<1>4. data \in Seq(Int) /\ Len(data) = n
  BY <1>2, <1>3
<1> QED
  BY <1>1, <1>2, <1>4

\* What an X packet does to memory, and its answer.
LEMMA PacketDone ==
    ASSUME MemTypeOK, NEW a \in Addresses, NEW data \in Data
    PROVE  /\ Packet(a, data).write_ok <=> a < Size /\ a + Len(data) <= Size
           /\ Packet(a, data).mem \in Contents
           /\ \A i \in 0 .. Size - 1 :
                Packet(a, data).mem[i] =
                  IF a <= i /\ i < a + Len(data) THEN data[i - a + 1] ELSE mem[i]
<1>1. a \in Nat /\ mem \in Contents /\ Size \in Nat
  BY MemoryAssumption DEF MemTypeOK
<1>2. Packet(a, data) = AfterTurns(mem, a, data, Len(data))
  BY <1>1, DataType, WriteStates DEF Packet
<1>3. Packet(a, data).write_ok <=> a < Size /\ a + Len(data) <= Size
  <2> DEFINE ok == a < Size /\ a + Len(data) <= Size
  <2>1. AfterTurns(mem, a, data, Len(data)).write_ok = ok
    BY DEF AfterTurns
  <2> QED
    BY <1>2, <2>1
<1>4. Packet(a, data).mem = Stored(mem, a, data, Len(data))
  BY <1>2 DEF AfterTurns
<1>5. Stored(mem, a, data, Len(data)) \in Contents
  <2> DEFINE n == Len(data)
  <2>1. n \in Nat /\ \A i \in 1 .. n : data[i] \in Byte
    BY DataType
  <2> HIDE DEF n
  <2>2. ASSUME NEW j \in 0 .. Size - 1
        PROVE  (IF a <= j /\ j < a + n THEN data[j - a + 1] ELSE mem[j]) \in Byte
    <3>1. CASE a <= j /\ j < a + n
      <4>1. j - a + 1 \in 1 .. n
        BY <1>1, <2>1, <3>1
      <4> QED
        BY <2>1, <3>1, <4>1
    <3>2. CASE ~ (a <= j /\ j < a + n)
      BY <1>1, <3>2 DEF Contents
    <3> QED
      BY <3>1, <3>2
  <2> QED
    BY <2>2 DEF Stored, Contents, n
<1>6. \A i \in 0 .. Size - 1 :
        Stored(mem, a, data, Len(data))[i] =
          IF a <= i /\ i < a + Len(data) THEN data[i - a + 1] ELSE mem[i]
  BY DEF Stored
<1> QED
  BY <1>3, <1>4, <1>5, <1>6

\* The array keeps its size and its type under every sequence of writes and packets.
THEOREM MemoryTyped == GSpec => []MemTypeOK
<1>1. memory_create => MemTypeOK
  BY DEF memory_create, MemTypeOK
<1>2. MemTypeOK /\ [GNext]_mvars => MemTypeOK'
  <2> SUFFICES ASSUME MemTypeOK, [GNext]_mvars PROVE MemTypeOK'
    OBVIOUS
  <2>1. CASE [MemNext]_mvars
    BY <2>1, MemoryKeepsType
  <2>2. CASE WritePacket
    <3>1. PICK a \in Addresses, data \in Data :
            /\ mem' = Packet(a, data).mem
            /\ result' = IF Packet(a, data).write_ok THEN 0 ELSE DATA_ABORT
            /\ UNCHANGED is_big_endian
      BY <2>2 DEF WritePacket, Packet
    <3> QED
      BY <3>1, PacketDone DEF MemTypeOK
  <2> QED
    BY <2>1, <2>2 DEF GNext
<1> QED
  BY <1>1, <1>2, PTL DEF GSpec

----------------------------------------------------------------------------

\* WritesInside for every size: see the comment of the property in Memory.
THEOREM AllWritesInside == GSpec => []WritesInside
<1>1. WritesInside
  BY AlignedInside, MemoryAssumption DEF WritesInside, is_not_valid_address
<1> QED
  BY <1>1, PTL

\* WordReadBack for every size: see the comment of the property in Memory.
THEOREM WordAlwaysReadBack == GSpec => []WordReadBack
<1>1. MemTypeOK => WordReadBack
  <2> SUFFICES ASSUME MemTypeOK,
                      NEW a \in Addresses, NEW v \in Word, NEW after \in After,
                      write_result(a, 4) = 0
               PROVE  LET m == memory_write_word(mem, is_big_endian, a, v)
                          high == IF is_big_endian = 1 THEN a ELSE a + 2
                          low  == IF is_big_endian = 1 THEN a + 2 ELSE a
                          first == IF is_big_endian = 1 THEN v[1] ELSE v[4]
                      IN  /\ memory_read_word(m, is_big_endian, after, a) = v
                          /\ memory_read_half(m, is_big_endian, after, high) = <<v[1], v[2]>>
                          /\ memory_read_half(m, is_big_endian, after, low) = <<v[3], v[4]>>
                          /\ memory_read_byte(m, a) = first
    BY DEF WordReadBack
  <2> DEFINE m == memory_write_word(mem, is_big_endian, a, v)
  <2>1. a \in Nat /\ a + 3 < Size
    BY AlignedInside, MemoryAssumption
  <2>2. /\ m[a] = IF is_big_endian = 1 THEN v[1] ELSE v[4]
        /\ m[a + 1] = IF is_big_endian = 1 THEN v[2] ELSE v[3]
        /\ m[a + 2] = IF is_big_endian = 1 THEN v[3] ELSE v[2]
        /\ m[a + 3] = IF is_big_endian = 1 THEN v[4] ELSE v[1]
    BY <2>1, WordBytes, MemoryAssumption DEF MemTypeOK
  <2>3. v = <<v[1], v[2], v[3], v[4]>>
    BY DEF Word
  <2> HIDE DEF m
  <2>4. /\ at(m, after, a) = m[a] /\ at(m, after, a + 1) = m[a + 1]
        /\ at(m, after, a + 2) = m[a + 2] /\ at(m, after, a + 3) = m[a + 3]
    BY <2>1, MemoryAssumption DEF at
  <2>5. a + 2 + 1 = a + 3
    BY <2>1
  <2>6. CASE is_big_endian = 1
    BY <2>2, <2>3, <2>4, <2>5, <2>6 DEF memory_read_word, memory_read_half, memory_read_byte, m
  <2>7. CASE is_big_endian # 1
    BY <2>2, <2>3, <2>4, <2>5, <2>7 DEF memory_read_word, memory_read_half, memory_read_byte, m
  <2> QED
    BY <2>6, <2>7
<1> QED
  BY <1>1, MemoryTyped, PTL

\* OneWordChanges for every size: see the comment of the property in Memory.
THEOREM OnlyOneWordChanges == GSpec => OneWordChanges
<1>1. MemTypeOK => [MemNext => ChangesOneWord]_mvars
  <2> SUFFICES ASSUME MemTypeOK, MemNext PROVE ChangesOneWord
    OBVIOUS
  <2>0. 0 \in 0 .. Size /\ 0 % 4 = 0
    BY MemoryAssumption
  <2>1. ASSUME mem' = mem PROVE ChangesOneWord
    BY <2>0, <2>1, MemoryAssumption DEF ChangesOneWord, WithinWord
  <2>2. ASSUME NEW a \in Nat, NEW n \in {1, 2, 4}, write_result(a, n) = 0, result' = 0,
               \A i \in 0 .. Size - 1 : mem'[i] # mem[i] => a <= i /\ i < a + n
        PROVE  ChangesOneWord
    <3> DEFINE base == 4 * (a \div 4)
    <3>1. a < Size /\ a % n = 0
      BY <2>2, AlignedInside
    <3>2. base \in Nat /\ base <= a /\ a < base + 4 /\ base % 4 = 0
      BY <2>2
    <3>3. a + n <= base + 4
      BY <2>2, <3>1
    <3> HIDE DEF base
    <3>4. base \in 0 .. Size
      BY <3>1, <3>2, <2>2, MemoryAssumption
    <3>5. WithinWord(base)
      BY <3>2, <3>3, <2>2, MemoryAssumption DEF WithinWord
    <3> QED
      BY <3>2, <3>4, <3>5, <2>2 DEF ChangesOneWord
  <2>3. CASE WriteByte
    <3>1. PICK a \in Addresses, v \in Byte :
            /\ result' = write_result(a, 1)
            /\ mem' = IF result' = 0 THEN memory_write_byte(mem, a, v) ELSE mem
      BY <2>3 DEF WriteByte
    <3>2. CASE result' = 0
      <4>1. \A i \in 0 .. Size - 1 : mem'[i] # mem[i] => a <= i /\ i < a + 1
        BY <3>1, <3>2, MemoryAssumption DEF memory_write_byte, MemTypeOK, Contents
      <4> QED
        BY <2>2, <3>1, <3>2, <4>1, MemoryAssumption
    <3> QED
      BY <2>1, <3>1, <3>2
  <2>4. CASE WriteHalf
    <3>1. PICK a \in Addresses, v \in Half :
            /\ result' = write_result(a, 2)
            /\ mem' = IF result' = 0 THEN memory_write_half(mem, is_big_endian, a, v) ELSE mem
      BY <2>4 DEF WriteHalf
    <3>2. CASE result' = 0
      <4>1. \A i \in 0 .. Size - 1 : mem'[i] # mem[i] => a <= i /\ i < a + 2
        BY <3>1, <3>2, HalfBytes, MemoryAssumption DEF MemTypeOK
      <4> QED
        BY <2>2, <3>1, <3>2, <4>1, MemoryAssumption
    <3> QED
      BY <2>1, <3>1, <3>2
  <2>5. CASE WriteWord
    <3>1. PICK a \in Addresses, v \in Word :
            /\ result' = write_result(a, 4)
            /\ mem' = IF result' = 0 THEN memory_write_word(mem, is_big_endian, a, v) ELSE mem
      BY <2>5 DEF WriteWord
    <3>2. CASE result' = 0
      <4>1. \A i \in 0 .. Size - 1 : mem'[i] # mem[i] => a <= i /\ i < a + 4
        BY <3>1, <3>2, WordBytes, MemoryAssumption DEF MemTypeOK
      <4> QED
        BY <2>2, <3>1, <3>2, <4>1, MemoryAssumption
    <3> QED
      BY <2>1, <3>1, <3>2
  <2> QED
    BY <2>3, <2>4, <2>5 DEF MemNext
<1> QED
  BY <1>1, MemoryTyped, PTL DEF GSpec, OneWordChanges

\* RefusedStoresPrefix for every memory and every packet: see the comment of the
\* property in GdbMemory.
THEOREM RefusedAlwaysStoresPrefix == GSpec => []RefusedStoresPrefix
<1>1. MemTypeOK => RefusedStoresPrefix
  <2> SUFFICES ASSUME MemTypeOK, NEW a \in Addresses, NEW data \in Data
               PROVE  /\ Packet(a, data).write_ok <=> a < Size /\ Fits(a, Len(data))
                      /\ \A i \in 0 .. Size - 1 :
                           Packet(a, data).mem[i] =
                             IF a <= i /\ i < a + Len(data) THEN data[i - a + 1] ELSE mem[i]
    BY DEF RefusedStoresPrefix
  <2> QED
    BY PacketDone DEF Fits
<1> QED
  BY <1>1, MemoryTyped, PTL

\* LoadedIsRead for every memory and every packet: see the comment of the property
\* in GdbMemory.
THEOREM LoadedIsAlwaysRead == GSpec => []LoadedIsRead
<1>1. MemTypeOK => LoadedIsRead
  <2> SUFFICES ASSUME MemTypeOK, NEW a \in Addresses, NEW data \in Data,
                      Packet(a, data).write_ok
               PROVE  LET m == Packet(a, data).mem
                          n == Len(data)
                      IN  /\ Fits(a, n)
                          /\ \A v \in Byte : read_memory(m, a, n, v) = data
                          /\ n = 4 => \A after \in After :
                               memory_read_word(m, is_big_endian, after, a)
                                 = IF is_big_endian = 1 THEN data ELSE Reverse(data)
    BY DEF LoadedIsRead
  <2> DEFINE m == Packet(a, data).mem
             n == Len(data)
  <2>1. a \in Nat /\ Size \in Nat /\ n \in Nat /\ a + n <= Size
    BY PacketDone, DataType, MemoryAssumption
  <2>2. \A i \in 0 .. Size - 1 : m[i] = IF a <= i /\ i < a + n THEN data[i - a + 1] ELSE mem[i]
    BY PacketDone
  <2>3. data = [i \in 1 .. n |-> data[i]]
    BY DataType
  <2> HIDE DEF m, n
  <2>4. \A i \in 1 .. n : a + i - 1 \in 0 .. Size - 1 /\ m[a + i - 1] = data[i]
    BY <2>1, <2>2
  <2>5. ASSUME NEW v \in Byte PROVE read_memory(m, a, n, v) = data
    <3>1. \A i \in 1 .. n : read_result(a + i - 1) = 0
      BY <2>1, <2>4 DEF read_result, is_not_valid_address
    <3>2. read_memory(m, a, n, v) = [i \in 1 .. n |-> data[i]]
      <4>1. turns(a, n) = 1 .. n
        BY <2>1, <3>1 DEF turns
      <4> QED
        BY <2>4, <3>1, <4>1 DEF read_memory
    <3> QED
      BY <2>3, <3>2
  <2>6. ASSUME n = 4, NEW after \in After
        PROVE  memory_read_word(m, is_big_endian, after, a)
                 = IF is_big_endian = 1 THEN data ELSE Reverse(data)
    <3>1. /\ at(m, after, a) = data[1] /\ at(m, after, a + 1) = data[2]
          /\ at(m, after, a + 2) = data[3] /\ at(m, after, a + 3) = data[4]
      BY <2>1, <2>2, <2>6 DEF at
    <3>2. data = <<data[1], data[2], data[3], data[4]>>
      BY <2>3, <2>6
    <3>3. Reverse(data) = <<data[4], data[3], data[2], data[1]>>
      BY <2>6 DEF Reverse, n
    <3> QED
      BY <3>1, <3>2, <3>3 DEF memory_read_word
  <2> QED
    BY <2>1, <2>5, <2>6 DEF Fits, m, n
<1> QED
  BY <1>1, MemoryTyped, PTL
============================================================================
