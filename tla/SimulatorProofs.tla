-------------------------- MODULE SimulatorProofs --------------------------
(***************************************************************************)
(* Proofs about arm_simulator.c.                                           *)
(*                                                                         *)
(* The start, for every set of command lines and every size of the debug   *)
(* table: what the options ask for is what the threads start with, and the *)
(* binary search of the debug table answers for the files that were named. *)
(*                                                                         *)
(* The threads, for every program, memory size, set of requests and number *)
(* of connections: IInv is inductive, and it implies the safety properties *)
(* that TLC checks on a small instance.  There is one lemma for each       *)
(* conjunct of IInv, and in it one case for each thread, or for each       *)
(* action where a thread can disturb it.                                   *)
(***************************************************************************)
EXTENDS Simulator, Options, Induction, FiniteSetTheorems

----------------------------------------------------------------------------
(* The options and the debug table (module Options).                       *)

\* The type of the table.
TableOK ==
    /\ debugged_files \in [0 .. MAX_FILES_NUMBER - 1 -> Nat]
    /\ nb_debugged_files \in 0 .. MAX_FILES_NUMBER

\* The names in the table.
Entries == {debugged_files[i] : i \in 0 .. nb_debugged_files - 1}

\* What the search relies on and add_debug_to maintains.
Sorted == \A i, j \in 0 .. nb_debugged_files - 1 : i <= j => debugged_files[i] <= debugged_files[j]

\* The bounds that the search may reach.
Bounds == {s \in Int \X Int : 0 <= s[1] /\ s[2] <= nb_debugged_files - 1}

\* The turns of the search as functions of the bounds.
Turns(name) == [n \in 1 .. nb_debugged_files |-> [s \in Bounds |-> turn(s, name)]]

\* What a turn of the search does: it stays in the table.
LEMMA TurnCases ==
    ASSUME TableOK, NEW name \in Nat, NEW s \in Bounds
    PROVE  LET middle == (s[1] + s[2]) \div 2
           IN  /\ turn(s, name) \in Bounds
               /\ s[1] >= s[2] => turn(s, name) = s
               /\ s[1] < s[2] =>
                    /\ s[1] <= middle /\ middle < s[2]
                    /\ debugged_files[middle] \in Nat
                    /\ debugged_files[middle] < name => turn(s, name) = <<middle + 1, s[2]>>
                    /\ debugged_files[middle] > name => turn(s, name) = <<s[1], middle - 1>>
                    /\ debugged_files[middle] = name => turn(s, name) = <<middle, middle>>
<1> DEFINE from == s[1]
           to == s[2]
           middle == (from + to) \div 2
<1>1. /\ from \in Int /\ to \in Int /\ 0 <= from /\ to <= nb_debugged_files - 1
      /\ nb_debugged_files \in Nat /\ nb_debugged_files <= MAX_FILES_NUMBER /\ MAX_FILES_NUMBER \in Nat
  BY OptionsAssumption DEF Bounds, TableOK
<1>2. CASE from >= to
  <2>1. ~ (from < to)
    BY <1>1, <1>2
  <2>2. turn(s, name) = s
    BY <1>2, <2>1 DEF turn
  <2> QED
    BY <2>1, <2>2
<1>3. CASE from < to
  <2>1. middle \in Int /\ from <= middle /\ middle < to /\ ~ (from >= to)
    BY <1>1, <1>3
  <2>2. debugged_files[middle] \in Nat
    BY <1>1, <2>1 DEF TableOK
  <2> DEFINE v == debugged_files[middle]
  <2>4. /\ <<middle + 1, to>> \in Bounds /\ <<from, middle - 1>> \in Bounds
        /\ <<middle, middle>> \in Bounds
    BY <1>1, <2>1 DEF Bounds
  <2>5. CASE v < name
    <3>1. ~ (v > name) /\ v # name
      BY <2>2, <2>5
    <3>2. turn(s, name) = <<middle + 1, to>>
      BY <1>3, <2>1, <2>5, <3>1 DEF turn
    <3> QED
      BY <1>3, <2>1, <2>2, <2>4, <2>5, <3>1, <3>2
  <2>6. CASE v > name
    <3>1. ~ (v < name) /\ v # name
      BY <2>2, <2>6
    <3>2. turn(s, name) = <<from, middle - 1>>
      BY <1>3, <2>1, <2>6, <3>1 DEF turn
    <3> QED
      BY <1>3, <2>1, <2>2, <2>4, <2>6, <3>1, <3>2
  <2>7. CASE v = name
    <3>1. ~ (v < name) /\ ~ (v > name)
      BY <2>2, <2>7
    <3>2. turn(s, name) = <<middle, middle>>
      BY <1>3, <2>1, <2>7, <3>1 DEF turn
    <3> QED
      BY <1>3, <2>1, <2>2, <2>4, <2>7, <3>1, <3>2
  <2> QED
    BY <2>2, <2>5, <2>6, <2>7
<1> QED
  BY <1>1, <1>2, <1>3

\* The loop of __is_debugged is well defined.
LEMMA TurnsStates ==
    ASSUME TableOK, NEW name \in Nat
    PROVE  States(turns(name), nb_debugged_files, Bounds, <<0, nb_debugged_files - 1>>, Turns(name))
<1> DEFINE N == nb_debugged_files
           x == <<0, nb_debugged_files - 1>>
           S == Bounds
           F == Turns(name)
           Narrows(g) == [n \in 0 .. N |-> IF n = 0 THEN x ELSE turn(g[n - 1], name)]
<1>1. N \in Nat /\ x \in S
  BY OptionsAssumption DEF TableOK, Bounds
<1>2. F \in [1 .. N -> [S -> S]] /\ \A n \in 1 .. N, s \in S : F[n][s] = turn(s, name)
  BY TurnCases DEF Turns
<1> HIDE DEF N, x, S, F
<1>3. PICK f : States(f, N, S, x, F)
  BY <1>1, <1>2, LoopHasStates
<1>4. f = Narrows(f)
  <2>1. ASSUME NEW n \in 0 .. N PROVE f[n] = IF n = 0 THEN x ELSE turn(f[n - 1], name)
    <3>1. CASE n = 0
      BY <3>1, <1>3 DEF States
    <3>2. CASE n # 0
      <4>1. n \in 1 .. N /\ n - 1 \in 0 .. N
        BY <1>1, <3>2
      <4>2. f[n - 1] \in S /\ f[n] = F[n][f[n - 1]]
        BY <4>1, <1>3 DEF States
      <4> QED
        BY <3>2, <4>1, <4>2, <1>2
    <3> QED
      BY <3>1, <3>2
  <2> QED
    BY <2>1, <1>3 DEF States
<1> DEFINE c == turns(name)
<1>5. c = Narrows(c)
  <2>1. c = CHOOSE h : h = Narrows(h)
    BY DEF turns, N, x
  <2> HIDE DEF Narrows, c
  <2> QED
    BY <1>4, <2>1
<1> HIDE DEF c
<1>6. DOMAIN c = 0 .. N /\ c = [n \in DOMAIN c |-> c[n]] /\ c[0] = x
  <2>1. DOMAIN c = 0 .. N
    BY <1>5
  <2>2. c[0] = x
    BY <1>1, <1>5
  <2>3. c = [n \in DOMAIN c |-> c[n]]
    BY <1>5
  <2> QED
    BY <2>1, <2>2, <2>3
<1>7. \A n \in 1 .. N : c[n - 1] \in S => c[n] = F[n][c[n - 1]]
  BY <1>1, <1>2, <1>5
<1>8. States(c, N, S, x, F)
  BY <1>1, <1>2, <1>6, <1>7, LoopStays
<1> QED
  BY <1>8 DEF c, N, S, x, F

\* A turn keeps an entry equal to name between the bounds, and drops one entry at
\* least as long as more than one is left.
LEMMA TurnKeeps ==
    ASSUME TableOK, Sorted, NEW name \in Nat, NEW s \in Bounds
    PROVE  LET t == turn(s, name)
           IN  /\ (\E i \in s[1] .. s[2] : debugged_files[i] = name)
                    => \E i \in t[1] .. t[2] : debugged_files[i] = name
               /\ s[1] < s[2] => t[1] >= t[2] \/ t[2] - t[1] < s[2] - s[1]
<1> DEFINE from == s[1]
           to == s[2]
           middle == (from + to) \div 2
           t == turn(s, name)
<1>1. /\ from \in Int /\ to \in Int /\ 0 <= from /\ to <= nb_debugged_files - 1
      /\ nb_debugged_files \in Nat /\ nb_debugged_files <= MAX_FILES_NUMBER /\ MAX_FILES_NUMBER \in Nat
  BY OptionsAssumption DEF Bounds, TableOK
<1>2. CASE from >= to
  BY <1>1, <1>2, TurnCases
<1>3. CASE from < to
  <2>1. middle \in Int /\ from <= middle /\ middle < to /\ debugged_files[middle] \in Nat
    BY <1>1, <1>3, TurnCases
  <2>2. \A i \in from .. to : /\ i \in 0 .. nb_debugged_files - 1 /\ debugged_files[i] \in Nat
                              /\ i <= middle => debugged_files[i] <= debugged_files[middle]
                              /\ middle <= i => debugged_files[middle] <= debugged_files[i]
    <3> HIDE DEF from, to, middle
    <3>1. \A i \in from .. to : i \in 0 .. nb_debugged_files - 1
      BY <1>1
    <3>2. middle \in 0 .. nb_debugged_files - 1
      BY <1>1, <2>1
    <3>3. \A i \in 0 .. nb_debugged_files - 1 : debugged_files[i] \in Nat
      BY <1>1 DEF TableOK
    <3> QED
      BY <3>1, <3>2, <3>3 DEF Sorted
  <2>3. CASE debugged_files[middle] < name
    <3>1. t = <<middle + 1, to>>
      BY <1>3, <2>3, TurnCases
    <3>2. \A i \in from .. to : debugged_files[i] = name => i \in middle + 1 .. to
      BY <1>1, <2>1, <2>2, <2>3
    <3> QED
      BY <1>1, <2>1, <3>1, <3>2
  <2>4. CASE debugged_files[middle] > name
    <3>1. t = <<from, middle - 1>>
      BY <1>3, <2>4, TurnCases
    <3>2. \A i \in from .. to : debugged_files[i] = name => i \in from .. middle - 1
      BY <1>1, <2>1, <2>2, <2>4
    <3> QED
      BY <1>1, <2>1, <3>1, <3>2
  <2>5. CASE debugged_files[middle] = name
    <3>1. t = <<middle, middle>>
      BY <1>3, <2>5, TurnCases
    <3>2. middle \in middle .. middle /\ middle >= middle
      BY <2>1
    <3>3. t[1] = middle /\ t[2] = middle
      BY <3>1
    <3> HIDE DEF t, middle, from, to
    <3>4. (\E i \in t[1] .. t[2] : debugged_files[i] = name) /\ t[1] >= t[2]
      BY <2>5, <3>2, <3>3
    <3> QED
      BY <3>4 DEF t
  <2> QED
    BY <2>1, <2>3, <2>4, <2>5
<1> QED
  BY <1>1, <1>2, <1>3

\* In a sorted table the binary search answers 1 for the names in it and 0 for the
\* others.
LEMMA SearchFinds ==
    ASSUME TableOK, Sorted, NEW name \in Nat
    PROVE  __is_debugged(name) = IF name \in Entries THEN 1 ELSE 0
<1> DEFINE N == nb_debugged_files
           c == turns(name)
           Found(n) == \E i \in c[n][1] .. c[n][2] : debugged_files[i] = name
           Left(n) == c[n][1] >= c[n][2] \/ c[n][2] - c[n][1] <= N - 1 - n
           P == {n \in Nat : n <= N => (name \in Entries => Found(n)) /\ Left(n)}
<1>1. N \in Nat
  BY OptionsAssumption DEF TableOK
<1>2. /\ c[0] = <<0, N - 1>> /\ \A n \in 0 .. N : c[n] \in Bounds
      /\ \A n \in 1 .. N : c[n] = turn(c[n - 1], name)
  <2>1. /\ c \in [0 .. N -> Bounds] /\ c[0] = <<0, N - 1>>
        /\ \A n \in 1 .. N : c[n] = Turns(name)[n][c[n - 1]]
    BY TurnsStates DEF States
  <2>2. ASSUME NEW n \in 1 .. N PROVE c[n] = turn(c[n - 1], name)
    <3>1. c[n - 1] \in Bounds
      BY <1>1, <2>1
    <3>2. Turns(name)[n][c[n - 1]] = turn(c[n - 1], name)
      BY <3>1 DEF Turns
    <3> QED
      BY <2>1, <3>2
  <2> QED
    BY <2>1, <2>2
<1> HIDE DEF c, N
<1>3. 0 \in P
  BY <1>1, <1>2 DEF Entries, N
<1>4. \A n \in Nat : n \in P => n + 1 \in P
  <2> SUFFICES ASSUME NEW n \in Nat, n + 1 <= N, name \in Entries => Found(n), Left(n)
               PROVE  (name \in Entries => Found(n + 1)) /\ Left(n + 1)
    BY <1>1
  <2>1. n \in 0 .. N /\ n + 1 \in 1 .. N /\ n + 1 \in 0 .. N /\ (n + 1) - 1 = n
    BY <1>1
  <2> DEFINE s == c[n]
             t == c[n + 1]
  <2>2. s \in Bounds /\ t \in Bounds /\ t = turn(s, name)
    BY <1>2, <2>1
  <2>3. s[1] \in Int /\ s[2] \in Int /\ t[1] \in Int /\ t[2] \in Int
    BY <2>2 DEF Bounds
  <2>4. /\ Found(n) => Found(n + 1)
        /\ s[1] < s[2] => t[1] >= t[2] \/ t[2] - t[1] < s[2] - s[1]
        /\ s[1] >= s[2] => t = s
    BY <2>2, TurnKeeps, TurnCases
  <2> HIDE DEF s, t, Found
  <2>5. t[1] >= t[2] \/ t[2] - t[1] <= N - 1 - (n + 1)
    BY <1>1, <2>3, <2>4 DEF s
  <2> QED
    BY <2>4, <2>5 DEF t
<1>5. Nat \subseteq P
  <2> HIDE DEF P
  <2> QED
    BY <1>3, <1>4, Induction
<1>6. (name \in Entries => Found(N)) /\ Left(N)
  BY <1>1, <1>5
<1>7. c[N] \in Bounds /\ c[N][1] \in Int /\ c[N][2] \in Int
  BY <1>1, <1>2 DEF Bounds
<1> DEFINE s == c[N]
<1>8. s[1] >= s[2]
  BY <1>1, <1>6, <1>7
<1>9. __is_debugged(name) = IF s[1] = s[2] /\ debugged_files[s[1]] = name THEN 1 ELSE 0
  BY DEF __is_debugged, c, N
<1>10. CASE name \in Entries
  <2>1. PICK i \in s[1] .. s[2] : debugged_files[i] = name
    BY <1>6, <1>10
  <2>2. s[1] = i /\ s[2] = i
    BY <1>7, <1>8
  <2> QED
    BY <1>9, <1>10, <2>1, <2>2
<1>11. CASE name \notin Entries
  <2>1. s[1] = s[2] => s[1] \in 0 .. nb_debugged_files - 1
    BY <1>1, <1>7 DEF Bounds, N
  <2>2. ~ (s[1] = s[2] /\ debugged_files[s[1]] = name)
    BY <1>11, <2>1 DEF Entries
  <2> QED
    BY <1>9, <1>11, <2>2
<1> QED
  BY <1>10, <1>11

----------------------------------------------------------------------------

\* Where add_debug_to puts a name: after the smaller ones.
LEMMA PlaceFound ==
    ASSUME TableOK, NEW name \in Nat
    PROVE  /\ place(name) \in 0 .. nb_debugged_files
           /\ \A k \in 0 .. nb_debugged_files - 1 : k < place(name) => debugged_files[k] < name
           /\ place(name) < nb_debugged_files => debugged_files[place(name)] >= name
<1> DEFINE T == {MAX_FILES_NUMBER, nb_debugged_files}
                  \cup {i \in 0 .. MAX_FILES_NUMBER - 1 :
                          i < nb_debugged_files /\ debugged_files[i] >= name}
<1>1. /\ nb_debugged_files \in Nat /\ MAX_FILES_NUMBER \in Nat /\ nb_debugged_files <= MAX_FILES_NUMBER
      /\ \A k \in 0 .. nb_debugged_files - 1 : debugged_files[k] \in Nat
  BY OptionsAssumption DEF TableOK
<1>2. T \subseteq Nat /\ T # {}
  BY <1>1
<1>3. \E n \in T : \A k \in T : n <= k
  <2> HIDE DEF T
  <2> QED
    BY <1>2, LeastNumber
<1> DEFINE p == place(name)
<1>4. p \in T /\ \A k \in T : p <= k
  <2>1. p = CHOOSE n \in T : \A k \in T : n <= k
    BY DEF place, Min
  <2> HIDE DEF T, p
  <2> QED
    BY <1>3, <2>1
<1> HIDE DEF p
<1>5. p \in Nat /\ p <= nb_debugged_files
  BY <1>2, <1>4
<1>6. ASSUME NEW k \in 0 .. nb_debugged_files - 1, k < p PROVE debugged_files[k] < name
  BY <1>1, <1>4, <1>5, <1>6
<1>7. p < nb_debugged_files => debugged_files[p] >= name
  BY <1>1, <1>4
<1> QED
  BY <1>1, <1>5, <1>6, <1>7 DEF p

\* What add_debug_to does to a table with room: the names stay sorted, and the new
\* one joins them.
LEMMA Inserted ==
    ASSUME TableOK, Sorted, NEW name \in Nat, nb_debugged_files < MAX_FILES_NUMBER,
           add_debug_to(name)
    PROVE  /\ TableOK' /\ Sorted' /\ Entries' = Entries \cup {name}
           /\ nb_debugged_files' = nb_debugged_files + 1 /\ stage' = stage
<1> DEFINE p == place(name)
           n == nb_debugged_files
           t == debugged_files
<1>1. n \in Nat /\ MAX_FILES_NUMBER \in Nat /\ \A k \in 0 .. MAX_FILES_NUMBER - 1 : t[k] \in Nat
  BY OptionsAssumption DEF TableOK
<1>2. p \in 0 .. n /\ (\A k \in 0 .. n - 1 : k < p => t[k] < name) /\ (p < n => t[p] >= name)
  BY PlaceFound
<1>3. /\ t' = [j \in 0 .. MAX_FILES_NUMBER - 1 |->
                 CASE j < p \/ j > n -> t[j]
                   [] j = p -> name
                   [] OTHER -> t[j - 1]]
      /\ n' = n + 1 /\ stage' = stage
  BY <1>1, <1>2 DEF add_debug_to, TableOK
<1> DEFINE u == t'
<1> HIDE DEF p
<1>4. ASSUME NEW j \in 0 .. MAX_FILES_NUMBER - 1
      PROVE  /\ j < p \/ j > n => u[j] = t[j]
             /\ j = p => u[j] = name
             /\ p < j /\ j <= n => u[j] = t[j - 1]
  <2>1. CASE j < p \/ j > n
    BY <1>1, <1>2, <1>3, <2>1
  <2>2. CASE j = p
    BY <1>1, <1>2, <1>3, <2>2
  <2>3. CASE p < j /\ j <= n
    BY <1>1, <1>2, <1>3, <2>3
  <2> QED
    BY <1>1, <1>2, <2>1, <2>2, <2>3
<1>5. TableOK'
  <2>1. ASSUME NEW j \in 0 .. MAX_FILES_NUMBER - 1 PROVE u[j] \in Nat
    BY <1>1, <1>2, <1>4
  <2>2. u \in [0 .. MAX_FILES_NUMBER - 1 -> Nat]
    BY <2>1, <1>3
  <2> QED
    BY <1>1, <1>3, <2>2 DEF TableOK
<1>6. Sorted'
  <2> SUFFICES ASSUME NEW i \in 0 .. n, NEW j \in 0 .. n, i <= j PROVE u[i] <= u[j]
    <3>1. 0 .. n' - 1 = 0 .. n
      BY <1>1, <1>3
    <3> QED
      BY <3>1 DEF Sorted
  <2>0. \A k, l \in 0 .. n - 1 : k <= l => t[k] <= t[l]
    BY DEF Sorted
  <2>1. /\ i \in 0 .. MAX_FILES_NUMBER - 1 /\ j \in 0 .. MAX_FILES_NUMBER - 1
        /\ i < p => i \in 0 .. n - 1 /\ u[i] = t[i] /\ t[i] < name
        /\ j < p => j \in 0 .. n - 1 /\ u[j] = t[j] /\ t[j] < name
        /\ i = p => u[i] = name
        /\ j = p => u[j] = name
        /\ p < i => i - 1 \in 0 .. n - 1 /\ u[i] = t[i - 1]
        /\ p < j => j - 1 \in 0 .. n - 1 /\ u[j] = t[j - 1]
    BY <1>1, <1>2, <1>4
  <2>2. p < j => t[j - 1] >= name
    <3> SUFFICES ASSUME p < j PROVE t[j - 1] >= name
      OBVIOUS
    <3>1. p \in 0 .. n - 1 /\ j - 1 \in 0 .. n - 1 /\ p <= j - 1
      BY <1>1, <1>2
    <3> QED
      BY <1>1, <1>2, <2>0, <3>1
  <2>3. \A k \in 0 .. n - 1 : t[k] \in Nat
    BY <1>1
  <2> HIDE DEF u
  <2>4. CASE i < p
    BY <1>1, <1>2, <2>0, <2>1, <2>2, <2>3, <2>4
  <2>5. CASE i = p
    BY <1>1, <1>2, <2>1, <2>2, <2>3, <2>5
  <2>6. CASE p < i
    BY <1>1, <1>2, <2>0, <2>1, <2>3, <2>6
  <2> QED
    BY <1>1, <1>2, <2>4, <2>5, <2>6
<1>7. Entries' = Entries \cup {name}
  <2>1. Entries' = {u[j] : j \in 0 .. n}
    <3>1. 0 .. n' - 1 = 0 .. n
      BY <1>1, <1>3
    <3> QED
      BY <3>1 DEF Entries
  <2>2. ASSUME NEW j \in 0 .. n PROVE u[j] \in Entries \cup {name}
    <3>1. j < p => j \in 0 .. n - 1 /\ u[j] = t[j]
      BY <1>1, <1>2, <1>4
    <3>2. p < j => j - 1 \in 0 .. n - 1 /\ u[j] = t[j - 1]
      BY <1>1, <1>2, <1>4
    <3>3. j = p => u[j] = name
      BY <1>1, <1>2, <1>4
    <3>4. j < p \/ j = p \/ p < j
      BY <1>1, <1>2
    <3> HIDE DEF u
    <3> QED
      BY <3>1, <3>2, <3>3, <3>4 DEF Entries
  <2>3. name \in Entries'
    <3>1. p \in 0 .. n /\ u[p] = name
      BY <1>1, <1>2, <1>4
    <3> QED
      BY <2>1, <3>1
  <2>4. ASSUME NEW k \in 0 .. n - 1 PROVE t[k] \in Entries'
    <3>1. CASE k < p
      <4>1. k \in 0 .. n /\ u[k] = t[k]
        BY <1>1, <1>2, <1>4, <3>1
      <4> QED
        BY <2>1, <4>1
    <3>2. CASE p <= k
      <4>1. k + 1 \in 0 .. n /\ u[k + 1] = t[k]
        BY <1>1, <1>2, <1>4, <3>2
      <4> QED
        BY <2>1, <4>1
    <3> QED
      BY <1>1, <1>2, <3>1, <3>2
  <2>5. Entries' \subseteq Entries \cup {name}
    BY <2>1, <2>2
  <2>6. Entries \subseteq Entries'
    BY <2>4 DEF Entries
  <2> QED
    BY <2>3, <2>5, <2>6
<1> QED
  BY <1>3, <1>5, <1>6, <1>7

----------------------------------------------------------------------------

\* The table holds names that were given, all of them until it is full.
TableInv ==
    /\ TableOK
    /\ stage = "undefined" => Cardinality(Given("d")) > MAX_FILES_NUMBER
    /\ stage # "undefined" =>
         /\ Sorted /\ Entries \subseteq Arguments("d")
         /\ nb_debugged_files <= Cardinality(Given("d"))
         /\ nb_debugged_files < Cardinality(Given("d")) => nb_debugged_files = MAX_FILES_NUMBER
         /\ nb_debugged_files = Cardinality(Given("d")) => Arguments("d") \subseteq Entries

Ready == {"initialised", "output_set", "created", "threads"}

\* main reads the command line once, and goes on when it is at its end.
LineInv ==
    /\ argv \in CommandLines /\ optind \in 1 .. Len(argv) + 1
    /\ stage \in {"options", "exit", "undefined"} \cup Ready
    /\ stage \in Ready => optind > Len(argv)

\* Unless the program is about to end, the settings are those given so far, and the
\* trace file is set before the processor is created.
SettingsInv ==
    /\ stage # "exit" =>
         /\ Given("h") = {} /\ Given("?") = {}
         /\ PortAsked("g", gdb_port) /\ PortAsked("i", irq_port)
         /\ trace_file = LastArgument("t", stdout) /\ trace_file # no_file
         /\ trace_flags = {o \in {"r", "m", "s", "p"} : Given(o) # {}}
    /\ stage \in Ready \ {"initialised"} => output = trace_file

\* The cached flag is asked for after the last change of the table.
CacheInv ==
    /\ stage = "options" => is_debugged_first = 1
    /\ is_debugged_first = 0 /\ stage # "undefined" =>
         is_debugged_result = IF Own \in Entries THEN 1 ELSE 0

\* The inductive invariant of main up to the threads.
OInv == LineInv /\ TableInv /\ SettingsInv /\ CacheInv

\* main starts with nothing given and an empty table.
LEMMA OInitInv == OInit => OInv
<1> SUFFICES ASSUME OInit PROVE OInv
  OBVIOUS
<1>1. argv \in CommandLines /\ Len(argv) \in Nat /\ optind = 1 /\ stage = "options"
  BY OptionsAssumption DEF OInit
<1>2. \A o : Given(o) = {}
  BY <1>1 DEF Given
<1>3. LineInv
  BY <1>1 DEF LineInv, Ready
<1>4. TableInv
  <2>1. debugged_files = [i \in 0 .. MAX_FILES_NUMBER - 1 |-> 0] /\ nb_debugged_files = 0
    BY DEF OInit, NULL
  <2>2. TableOK /\ Sorted /\ Entries = {}
    BY <2>1, OptionsAssumption DEF TableOK, Sorted, Entries
  <2>3. Cardinality(Given("d")) = 0 /\ Arguments("d") = {}
    BY <1>2, FS_EmptySet DEF Arguments
  <2> QED
    BY <1>1, <2>1, <2>2, <2>3 DEF TableInv
<1>5. SettingsInv
  <2>1. gdb_port = 0 /\ irq_port = 0 /\ trace_file = stdout /\ trace_flags = {}
    BY DEF OInit
  <2>2. stdout # no_file
    BY DEF stdout, no_file
  <2>3. LastArgument("t", stdout) = stdout
    BY <1>2 DEF LastArgument
  <2>6. LastArgument("g", <<0>>) = <<0>> /\ LastArgument("i", <<0>>) = <<0>>
    BY <1>2, Zenon DEF LastArgument
  <2>7. IsPort(<<0>>, 0)
    BY DEF IsPort
  <2>8. PortAsked("g", gdb_port) /\ PortAsked("i", irq_port)
    BY <2>1, <2>6, <2>7, Zenon DEF PortAsked
  <2>4. {o \in {"r", "m", "s", "p"} : Given(o) # {}} = {}
    BY <1>2
  <2>5. stage \notin Ready
    BY <1>1 DEF Ready
  <2> QED
    BY <1>2, <2>1, <2>2, <2>3, <2>4, <2>5, <2>8 DEF SettingsInv
<1>6. CacheInv
  BY DEF CacheInv, OInit
<1> QED
  BY <1>3, <1>4, <1>5, <1>6 DEF OInv

\* The options consumed after a step of getopt_long.
LEMMA GivenStep ==
    ASSUME LineInv, optind <= Len(argv), optind' = optind + 1, argv' = argv, NEW o
    PROVE  Given(o)' = Given(o) \cup (IF argv[optind][1] = o THEN {optind} ELSE {})
<1>1. optind \in Nat /\ optind >= 1 /\ Len(argv) \in Nat
  BY OptionsAssumption DEF LineInv
<1>2. 1 .. optind' - 1 = (1 .. optind - 1) \cup {optind}
  BY <1>1
<1> QED
  BY <1>2 DEF Given

\* The last argument given for o changes when o is the option read.
LEMMA LastStep ==
    ASSUME LineInv, optind <= Len(argv), optind' = optind + 1, argv' = argv, NEW o, NEW default
    PROVE  LastArgument(o, default)' =
             IF argv[optind][1] = o THEN argv[optind][2] ELSE LastArgument(o, default)
<1>1. Given(o)' = Given(o) \cup (IF argv[optind][1] = o THEN {optind} ELSE {})
  BY GivenStep
<1>2. optind \in Nat /\ \A k \in Given(o) : k \in Nat /\ k < optind
  BY OptionsAssumption DEF LineInv, Given
<1>3. CASE argv[optind][1] = o
  <2> DEFINE G == Given(o)'
  <2>1. optind \in G /\ \A k \in G : k \in Nat /\ k <= optind
    BY <1>1, <1>2, <1>3
  <2> HIDE DEF G
  <2>2. Max(G) = optind
    <3>1. optind \in G /\ \A y \in G : optind >= y
      BY <1>2, <2>1
    <3>2. Max(G) \in G /\ \A y \in G : Max(G) >= y
      BY <3>1 DEF Max
    <3>3. Max(G) \in Nat /\ Max(G) <= optind /\ Max(G) >= optind
      BY <2>1, <3>1, <3>2
    <3> QED
      BY <1>2, <3>3
  <2>3. LastArgument(o, default)' = IF G = {} THEN default ELSE argv[Max(G)][2]
    BY DEF LastArgument, G
  <2> QED
    BY <1>3, <2>1, <2>2, <2>3
<1>4. CASE argv[optind][1] # o
  <2>1. Given(o)' = Given(o)
    BY <1>1, <1>4
  <2> QED
    BY <1>4, <2>1 DEF LastArgument
<1> QED
  BY <1>3, <1>4

\* A step that leaves the table and the d options alone keeps the table right.
LEMMA TableKept ==
    ASSUME TableInv, stage # "undefined", stage' # "undefined",
           UNCHANGED <<table, argv>>, Given("d")' = Given("d")
    PROVE  TableInv' /\ Entries' = Entries
<1>1. Entries' = Entries /\ (TableOK <=> TableOK') /\ (Sorted <=> Sorted')
  BY DEF table, Entries, TableOK, Sorted
<1>2. Arguments("d")' = Arguments("d")
  BY DEF Arguments
<1> QED
  BY <1>1, <1>2 DEF TableInv, table

\* What every option does before its own effect.
LEMMA Reads ==
    ASSUME LineInv, NEW o, Option(o), Consumed
    PROVE  /\ stage = "options" /\ optind <= Len(argv) /\ argv[optind][1] = o
           /\ argv \in CommandLines /\ optind \in 1 .. Len(argv)
           /\ optind' = optind + 1 /\ argv' = argv /\ output' = output
           /\ UNCHANGED cache
           /\ stage' \in {"options", "exit", "undefined"} => LineInv'
<1>1. /\ stage = "options" /\ optind <= Len(argv) /\ argv[optind][1] = o
      /\ argv \in CommandLines /\ optind \in 1 .. Len(argv) /\ Len(argv) \in Nat
      /\ optind' = optind + 1 /\ argv' = argv /\ output' = output /\ UNCHANGED cache
  BY OptionsAssumption DEF LineInv, Option, Consumed
<1>2. optind' \in 1 .. Len(argv') + 1
  BY <1>1
<1>3. stage' \in {"options", "exit", "undefined"} => stage' \notin Ready
  BY DEF Ready
<1> QED
  BY <1>1, <1>2, <1>3 DEF LineInv

\* A port number survives the two conversions.
LEMMA PortNumber == ASSUME NEW arg \in Seq(Int) PROVE IsPort(arg, in_port_t(atoi(arg)))
BY DEF IsPort, in_port_t, atoi

\* An option that has the effect it stands for keeps the settings right.
LEMMA SettingsStep ==
    ASSUME LineInv, SettingsInv, NEW o, Option(o), Consumed, o \notin {"h", "?"},
           stage' \in {"options", "undefined"},
           gdb_port' = IF o = "g" THEN in_port_t(atoi(optarg)) ELSE gdb_port,
           irq_port' = IF o = "i" THEN in_port_t(atoi(optarg)) ELSE irq_port,
           trace_file' = IF o = "t" THEN optarg ELSE trace_file,
           trace_flags' = trace_flags \cup ({"r", "m", "s", "p"} \cap {o})
    PROVE  SettingsInv'
<1>1. /\ stage = "options" /\ optind <= Len(argv) /\ argv[optind][1] = o
      /\ argv \in CommandLines /\ optind \in 1 .. Len(argv)
      /\ optind' = optind + 1 /\ argv' = argv
  BY Reads
<1>2. \A c : Given(c)' = Given(c) \cup (IF o = c THEN {optind} ELSE {})
  BY <1>1, GivenStep
<1>3. \A c, default : LastArgument(c, default)' = IF o = c THEN optarg ELSE LastArgument(c, default)
  BY <1>1, LastStep DEF optarg
<1>4. /\ Given("h") = {} /\ Given("?") = {}
      /\ PortAsked("g", gdb_port) /\ PortAsked("i", irq_port)
      /\ trace_file = LastArgument("t", stdout) /\ trace_file # no_file
      /\ trace_flags = {c \in {"r", "m", "s", "p"} : Given(c) # {}}
  BY <1>1 DEF SettingsInv
<1>5. Given("h")' = {} /\ Given("?")' = {}
  BY <1>2, <1>4
<1>6. trace_file' = LastArgument("t", stdout)'
  BY <1>3, <1>4
<1>10. o \in {"g", "i"} => IsPort(optarg, in_port_t(atoi(optarg)))
  <2>1. o \in {"g", "i"} => optarg \in Seq(Int)
    BY <1>1, OptionsAssumption DEF optarg
  <2> QED
    BY <2>1, PortNumber, Zenon
<1>11. PortAsked("g", gdb_port)'
  <2>1. CASE o = "g"
    <3>1. LastArgument("g", <<0>>)' = optarg /\ gdb_port' = in_port_t(atoi(optarg))
      BY <1>3, <2>1, Zenon
    <3> QED
      BY <1>10, <2>1, <3>1, Zenon DEF PortAsked
  <2>2. CASE o # "g"
    <3>1. LastArgument("g", <<0>>)' = LastArgument("g", <<0>>) /\ gdb_port' = gdb_port
      BY <1>3, <2>2, Zenon
    <3> QED
      BY <1>4, <3>1, Zenon DEF PortAsked
  <2> QED
    BY <2>1, <2>2
<1>12. PortAsked("i", irq_port)'
  <2>1. CASE o = "i"
    <3>1. LastArgument("i", <<0>>)' = optarg /\ irq_port' = in_port_t(atoi(optarg))
      BY <1>3, <2>1, Zenon
    <3> QED
      BY <1>10, <2>1, <3>1, Zenon DEF PortAsked
  <2>2. CASE o # "i"
    <3>1. LastArgument("i", <<0>>)' = LastArgument("i", <<0>>) /\ irq_port' = irq_port
      BY <1>3, <2>2, Zenon
    <3> QED
      BY <1>4, <3>1, Zenon DEF PortAsked
  <2> QED
    BY <2>1, <2>2
<1>7. trace_file' # no_file
  <2>1. o = "t" => optarg # no_file
    BY <1>1, OptionsAssumption DEF optarg
  <2> QED
    BY <1>4, <2>1
<1>8. trace_flags' = {c \in {"r", "m", "s", "p"} : Given(c)' # {}}
  BY <1>2, <1>4
<1>9. stage' \notin Ready
  BY DEF Ready
<1> QED
  BY <1>5, <1>6, <1>7, <1>8, <1>9, <1>11, <1>12 DEF SettingsInv

\* An option other than d keeps the table and the cached flag right.
LEMMA OtherOption ==
    ASSUME OInv, NEW o, Option(o), Consumed, o # "d", UNCHANGED table, stage' \in {"options", "exit"}
    PROVE  LineInv' /\ TableInv' /\ CacheInv'
<1>1. /\ stage = "options" /\ optind <= Len(argv) /\ argv[optind][1] = o
      /\ optind' = optind + 1 /\ argv' = argv /\ UNCHANGED cache /\ LineInv'
  BY Reads DEF OInv
<1>2. Given("d")' = Given("d")
  BY <1>1, GivenStep DEF OInv
<1>3. TableInv' /\ Entries' = Entries
  BY <1>1, <1>2, TableKept DEF OInv
<1>4. is_debugged_first' = 1
  BY <1>1 DEF OInv, CacheInv, cache
<1> QED
  BY <1>1, <1>3, <1>4 DEF CacheInv

\* One name more among those given.
LEMMA NameGiven ==
    ASSUME LineInv, Option("d"), Consumed
    PROVE  /\ optarg \in Nat /\ optarg \in Names
           /\ Cardinality(Given("d")) \in Nat
           /\ Cardinality(Given("d")') = Cardinality(Given("d")) + 1
           /\ Arguments("d")' = Arguments("d") \cup {optarg}
<1>1. /\ optind <= Len(argv) /\ argv[optind][1] = "d" /\ argv' = argv
      /\ argv \in CommandLines /\ optind \in 1 .. Len(argv) /\ optind' = optind + 1
  BY Reads
<1>2. optarg \in Names /\ optarg \in Nat
  BY <1>1, OptionsAssumption DEF optarg
<1>3. Given("d")' = Given("d") \cup {optind}
  BY <1>1, GivenStep
<1>4. IsFiniteSet(Given("d")) /\ optind \notin Given("d")
  <2>1. Given("d") \subseteq 1 .. optind - 1 /\ optind - 1 \in Int /\ optind \notin 1 .. optind - 1
    BY <1>1, OptionsAssumption DEF Given
  <2>2. IsFiniteSet(1 .. optind - 1)
    BY <2>1, FS_Interval
  <2> QED
    BY <2>1, <2>2, FS_Subset
<1>5. /\ Cardinality(Given("d")) \in Nat
      /\ Cardinality(Given("d") \cup {optind}) = Cardinality(Given("d")) + 1
  BY <1>4, FS_CardinalityType, FS_AddElement
<1>6. Arguments("d")' = Arguments("d") \cup {optarg}
  BY <1>1, <1>3 DEF Arguments, optarg
<1> QED
  BY <1>2, <1>3, <1>5, <1>6

\* add_debug_to keeps the table right, and leaves a full one only by a write past it.
LEMMA DebugOption == ASSUME OInv, Debug PROVE OInv'
<1> DEFINE card == Cardinality(Given("d"))
<1>1. LineInv /\ TableInv /\ SettingsInv /\ CacheInv /\ Option("d") /\ Consumed
        /\ add_debug_to(optarg) /\ UNCHANGED settings
  BY DEF OInv, Debug
<1>2. /\ stage = "options" /\ argv' = argv /\ UNCHANGED cache
      /\ stage' \in {"options", "exit", "undefined"} => LineInv'
  BY <1>1, Reads
<1>3. /\ optarg \in Nat /\ card \in Nat /\ card' = card + 1
      /\ Arguments("d")' = Arguments("d") \cup {optarg}
  BY <1>1, NameGiven
<1>4. /\ TableOK /\ Sorted /\ Entries \subseteq Arguments("d")
      /\ nb_debugged_files <= card
      /\ nb_debugged_files < card => nb_debugged_files = MAX_FILES_NUMBER
      /\ nb_debugged_files = card => Arguments("d") \subseteq Entries
      /\ nb_debugged_files \in Nat /\ nb_debugged_files <= MAX_FILES_NUMBER /\ MAX_FILES_NUMBER \in Nat
  BY <1>1, <1>2, OptionsAssumption DEF TableInv, TableOK
<1> HIDE DEF card
<1>5. ASSUME stage' \in {"options", "undefined"}, TableInv' PROVE OInv'
  <2>1. LineInv'
    BY <1>2, <1>5
  <2>2. SettingsInv'
    BY <1>1, <1>5, SettingsStep DEF settings
  <2>3. is_debugged_first' = 1
    BY <1>1, <1>2 DEF CacheInv, cache
  <2>4. CacheInv'
    BY <2>3 DEF CacheInv
  <2> QED
    BY <1>5, <2>1, <2>2, <2>4 DEF OInv
<1>6. CASE nb_debugged_files < MAX_FILES_NUMBER
  <2>1. /\ TableOK' /\ Sorted' /\ Entries' = Entries \cup {optarg}
        /\ nb_debugged_files' = nb_debugged_files + 1 /\ stage' = stage
    BY <1>1, <1>3, <1>4, <1>6, Inserted
  <2>2. nb_debugged_files = card
    BY <1>3, <1>4, <1>6
  <2>3. TableInv'
    BY <1>2, <1>3, <1>4, <2>1, <2>2 DEF TableInv, card
  <2> QED
    BY <1>2, <1>5, <2>1, <2>3
<1>7. CASE nb_debugged_files = MAX_FILES_NUMBER
  <2>1. UNCHANGED table /\ stage' \in {"options", "undefined"}
    BY <1>1, <1>2, <1>4, <1>7 DEF add_debug_to
  <2>2. Entries' = Entries /\ TableOK' /\ Sorted'
    BY <1>4, <2>1 DEF table, Entries, TableOK, Sorted
  <2>3. nb_debugged_files' < card' /\ nb_debugged_files' = MAX_FILES_NUMBER /\ card' > MAX_FILES_NUMBER
    BY <1>3, <1>4, <1>7, <2>1 DEF table
  <2>4. /\ nb_debugged_files' <= card' /\ nb_debugged_files' # card'
        /\ Entries' \subseteq Arguments("d")'
    BY <1>3, <1>4, <2>2, <2>3
  <2>5. TableInv'
    BY <2>2, <2>3, <2>4 DEF TableInv, card
  <2> QED
    BY <1>5, <2>1, <2>5
<1> QED
  BY <1>4, <1>6, <1>7

\* The steps of main after the options leave the table, the settings and the
\* consumed options alone.
LEMMA MainStep ==
    ASSUME OInv, UNCHANGED <<argv, optind, settings, table>>, stage' \in Ready,
           stage # "undefined", stage # "exit", optind > Len(argv),
           stage' # "initialised" => output' = trace_file,
           is_debugged_first' = 0 => is_debugged_result' = IF Own \in Entries THEN 1 ELSE 0
    PROVE  OInv'
<1>1. LineInv /\ TableInv /\ SettingsInv
  BY DEF OInv
<1>2. stage' # "undefined" /\ stage' # "exit" /\ stage' # "options"
  BY DEF Ready
<1>3. \A o : Given(o)' = Given(o)
  BY DEF Given
<1>4. LineInv'
  BY <1>1 DEF LineInv
<1>5. TableInv' /\ Entries' = Entries
  BY <1>1, <1>2, <1>3, TableKept
<1>6. SettingsInv'
  <2>1. \A o, default : LastArgument(o, default)' = LastArgument(o, default)
    BY <1>3 DEF LastArgument
  <2> QED
    BY <1>1, <1>2, <1>3, <2>1 DEF SettingsInv, PortAsked, settings
<1>7. CacheInv'
  BY <1>2, <1>5 DEF CacheInv
<1> QED
  BY <1>4, <1>5, <1>6, <1>7 DEF OInv

\* Every option and every step of main keeps the invariant.
LEMMA OInvKept == OInv /\ [ONext]_ovars => OInv'
<1> SUFFICES ASSUME OInv, [ONext]_ovars PROVE OInv'
  OBVIOUS
<1>0. LineInv /\ TableInv /\ SettingsInv /\ CacheInv
  BY DEF OInv
<1>1. CASE Port
  <2>1. PICK o \in {"g", "i"} :
          /\ Option(o) /\ Consumed /\ UNCHANGED <<stage, table, trace_file, trace_flags>>
          /\ gdb_port' = IF o = "g" THEN in_port_t(atoi(optarg)) ELSE gdb_port
          /\ irq_port' = IF o = "i" THEN in_port_t(atoi(optarg)) ELSE irq_port
    BY <1>1 DEF Port
  <2>2. stage = "options" /\ stage' = "options"
    BY <1>0, <2>1, Reads
  <2>3. LineInv' /\ TableInv' /\ CacheInv'
    BY <2>1, <2>2, OtherOption
  <2>4. SettingsInv'
    BY <1>0, <2>1, <2>2, SettingsStep
  <2> QED
    BY <2>3, <2>4 DEF OInv
<1>2. CASE TraceFile
  <2>1. /\ Option("t") /\ Consumed /\ UNCHANGED <<gdb_port, irq_port, trace_flags, table>>
        /\ \/ trace_file' = optarg /\ UNCHANGED stage
           \/ stage' = "exit"
    BY <1>2 DEF TraceFile
  <2>2. stage = "options"
    BY <1>0, <2>1, Reads
  <2>3. LineInv' /\ TableInv' /\ CacheInv'
    BY <2>1, <2>2, OtherOption
  <2>4. CASE stage' = "exit"
    BY <2>3, <2>4 DEF OInv, SettingsInv, Ready
  <2>5. CASE trace_file' = optarg /\ UNCHANGED stage
    <3>1. SettingsInv'
      BY <1>0, <2>1, <2>2, <2>5, SettingsStep
    <3> QED
      BY <2>3, <3>1 DEF OInv
  <2> QED
    BY <2>1, <2>4, <2>5
<1>3. CASE trace_add
  <2>1. PICK flag \in {"r", "m", "s", "p"} :
          /\ Option(flag) /\ Consumed
          /\ trace_flags' = trace_flags \cup {flag}
          /\ UNCHANGED <<stage, gdb_port, irq_port, trace_file, table>>
    BY <1>3 DEF trace_add
  <2>2. stage = "options" /\ stage' = "options"
    BY <1>0, <2>1, Reads
  <2>3. LineInv' /\ TableInv' /\ CacheInv'
    BY <2>1, <2>2, OtherOption
  <2>4. trace_flags' = trace_flags \cup ({"r", "m", "s", "p"} \cap {flag})
    BY <2>1
  <2>5. SettingsInv'
    BY <1>0, <2>1, <2>2, <2>4, SettingsStep
  <2> QED
    BY <2>3, <2>5 DEF OInv
<1>4. CASE Debug
  BY <1>4, DebugOption
<1>5. CASE UsageAndExit
  <2>1. PICK o \in {"h", "?"} : Option(o) /\ Consumed /\ stage' = "exit" /\ UNCHANGED table
    BY <1>5 DEF UsageAndExit
  <2>2. LineInv' /\ TableInv' /\ CacheInv'
    BY <2>1, OtherOption
  <2> QED
    BY <2>1, <2>2 DEF OInv, SettingsInv, Ready
<1>6. CASE InitParts
  <2>1. /\ stage = "options" /\ optind > Len(argv) /\ debug /\ stage' = "initialised"
        /\ UNCHANGED <<argv, optind, settings, output, table>>
    BY <1>6 DEF InitParts
  <2>2. is_debugged_result' = __is_debugged(Own)
    BY <1>0, <2>1 DEF CacheInv, debug
  <2>3. __is_debugged(Own) = IF Own \in Entries THEN 1 ELSE 0
    <3>1. TableOK /\ Sorted /\ Own \in Nat
      BY <1>0, <2>1, OptionsAssumption DEF TableInv
    <3> QED
      BY <3>1, SearchFinds
  <2> QED
    BY <2>1, <2>2, <2>3, MainStep DEF Ready
<1>7. CASE set_trace_file
  <2>1. /\ stage = "initialised" /\ stage' = "output_set" /\ output' = trace_file
        /\ UNCHANGED <<argv, optind, settings, table, cache>>
    BY <1>7 DEF set_trace_file
  <2> QED
    BY <1>0, <2>1, MainStep DEF Ready, LineInv, CacheInv, cache
<1>8. CASE Create
  <2>1. /\ stage = "output_set"
        /\ stage' = IF "r" \in trace_flags /\ output = no_file THEN "crashed" ELSE "created"
        /\ UNCHANGED <<argv, optind, settings, output, table, cache>>
    BY <1>8 DEF Create
  <2>2. output = trace_file /\ output # no_file
    BY <1>0, <2>1 DEF SettingsInv, Ready
  <2>3. stage' = "created" /\ output' = trace_file
    BY <2>1, <2>2
  <2> QED
    BY <1>0, <2>1, <2>3, MainStep DEF Ready, LineInv, CacheInv, cache
<1>9. CASE StartThreads
  <2>1. /\ stage = "created" /\ stage' = "threads"
        /\ UNCHANGED <<argv, optind, settings, output, table, cache>>
    BY <1>9 DEF StartThreads
  <2>2. output' = trace_file
    BY <1>0, <2>1 DEF SettingsInv, Ready
  <2> QED
    BY <1>0, <2>1, <2>2, MainStep DEF Ready, LineInv, CacheInv, cache
<1>10. CASE UNCHANGED ovars
  <2>1. UNCHANGED <<argv, optind, stage, settings, output, table, cache>>
    BY <1>10 DEF ovars
  <2>2. \A o : Given(o)' = Given(o)
    BY <2>1 DEF Given
  <2>3. Arguments("d")' = Arguments("d") /\ Entries' = Entries
    BY <2>1, <2>2 DEF Arguments, Entries, table
  <2>4. TableInv'
    BY <1>0, <2>1, <2>2, <2>3 DEF TableInv, TableOK, Sorted, table
  <2>5. LineInv'
    BY <1>0, <2>1 DEF LineInv
  <2>6. \A o, default : LastArgument(o, default)' = LastArgument(o, default)
    BY <2>1, <2>2 DEF LastArgument
  <2>7. SettingsInv'
    BY <1>0, <2>1, <2>2, <2>6 DEF SettingsInv, PortAsked, settings
  <2>8. CacheInv'
    BY <1>0, <2>1, <2>3 DEF CacheInv, cache
  <2> QED
    BY <2>4, <2>5, <2>7, <2>8 DEF OInv
<1> QED
  BY <1>1, <1>2, <1>3, <1>4, <1>5, <1>6, <1>7, <1>8, <1>9, <1>10 DEF ONext

\* So it holds from the start of main on.
LEMMA OInvAlways == OSpec => []OInv
BY OInitInv, OInvKept, PTL DEF OSpec

\* DebugLookup for every table and every command line: see the comment of the
\* property in Options.
THEOREM DebugAlwaysLookedUp == OSpec => []DebugLookup
<1>1. OInv => DebugLookup
  <2> SUFFICES ASSUME OInv PROVE DebugLookup
    OBVIOUS
  <2>1. TableInv
    BY DEF OInv
  <2>2. ASSUME stage # "undefined", NEW name \in Names
        PROVE  /\ __is_debugged(name) = 1 => name \in Arguments("d")
               /\ name \in Arguments("d") /\ Cardinality(Given("d")) <= MAX_FILES_NUMBER
                    => __is_debugged(name) = 1
    <3> DEFINE card == Cardinality(Given("d"))
    <3>1. /\ TableOK /\ Sorted /\ Entries \subseteq Arguments("d") /\ name \in Nat
          /\ nb_debugged_files <= card
          /\ nb_debugged_files < card => nb_debugged_files = MAX_FILES_NUMBER
          /\ nb_debugged_files = card => Arguments("d") \subseteq Entries
      BY <2>1, <2>2, OptionsAssumption DEF TableInv
    <3>2. __is_debugged(name) = IF name \in Entries THEN 1 ELSE 0
      BY <3>1, SearchFinds
    <3>3. card \in Nat /\ nb_debugged_files \in Nat /\ MAX_FILES_NUMBER \in Nat
      <4>1. IsFiniteSet(Given("d"))
        <5>1. Given("d") \subseteq 1 .. optind - 1 /\ optind - 1 \in Int
          BY OptionsAssumption DEF OInv, LineInv, Given
        <5> QED
          BY <5>1, FS_Interval, FS_Subset
      <4> QED
        BY <4>1, <3>1, FS_CardinalityType, OptionsAssumption DEF TableOK
    <3> HIDE DEF card
    <3>4. card <= MAX_FILES_NUMBER => nb_debugged_files = card
      BY <3>1, <3>3
    <3> QED
      BY <3>1, <3>2, <3>4 DEF card
  <2> QED
    BY <2>1, <2>2 DEF DebugLookup, TableInv
<1> QED
  BY <1>1, OInvAlways, PTL

\* StartsAsAsked for every command line: see the comment of the property in Options.
THEOREM AlwaysStartsAsAsked == OSpec => []StartsAsAsked
<1>1. OInv => StartsAsAsked
  <2> SUFFICES ASSUME OInv PROVE StartsAsAsked
    OBVIOUS
  <2>1. LineInv /\ SettingsInv
    BY DEF OInv
  <2>2. stage # "crashed"
    BY <2>1 DEF LineInv, Ready
  <2>3. stage = "threads" => stage \in Ready /\ stage \in Ready \ {"initialised"} /\ stage # "exit"
    BY DEF Ready
  <2> QED
    BY <2>1, <2>2, <2>3 DEF StartsAsAsked, LineInv, SettingsInv
<1> QED
  BY <1>1, OInvAlways, PTL

\* CacheAgrees for every command line: see the comment of the property in Options.
THEOREM CacheAlwaysAgrees == OSpec => []CacheAgrees
<1>1. OInv => CacheAgrees
  <2> SUFFICES ASSUME OInv, is_debugged_first = 0, stage # "undefined"
               PROVE  is_debugged_result = __is_debugged(Own)
    BY DEF CacheAgrees
  <2>1. TableOK /\ Sorted /\ Own \in Nat
    BY OptionsAssumption DEF OInv, TableInv
  <2>2. __is_debugged(Own) = IF Own \in Entries THEN 1 ELSE 0
    BY <2>1, SearchFinds
  <2> QED
    BY <2>2 DEF OInv, CacheInv
<1> QED
  BY <1>1, OInvAlways, PTL

----------------------------------------------------------------------------
(* The threads (module Simulator).                                         *)

USE SimAssumption DEF Running, system, link, core, locals, trace, irqs,
    trace_disable, trace_enable, trace_start_location, trace_end_location

\* IInv holds when main has started the threads.
LEMMA InitInv == Init => IInv
<1> SUFFICES ASSUME Init PROVE IInv
  OBVIOUS
<1>1. /\ proc \in {"running"} \cup Ends /\ heap = {"arm", "mem"} /\ gdb \in GdbStates
      /\ irq \in IrqStates /\ cmd = "none" /\ rep = "none" /\ reported \in Replies
  BY DEF Init, GdbStates, IrqStates, Replies
<1>2. pc \in Pc /\ text \in [Addr -> Kinds] /\ r15 \in Pc /\ instruction \in Kinds
  BY DEF Init, Pc, Kinds
<1>3. pending \in 0 .. MaxPending /\ fds \in 0 .. MaxFds /\ latch \in Requests \cup {0}
  BY DEF Init
<1>4. TypeOK
  BY <1>1, <1>2, <1>3 DEF Init, TypeOK
<1>5. LockInv
  BY DEF Init, LockInv, GdbHolds, IrqHolds, GdbInCore, IrqInCore
<1>6. TraceInv /\ LatchInv
  BY DEF Init, TraceInv, LatchInv
<1>7. ContInv
  BY DEF Init, ContInv, GdbHolds, GdbInCore, BreakpointsNotExecuted, ReportsWhereItStopped,
     InCont, stop_reply, UNDEFINED_INSTRUCTION, DATA_ABORT
<1>8. HeapInv /\ FdsInv
  BY DEF Init, HeapInv, FdsInv
<1> QED
  BY <1>4, <1>5, <1>6, <1>7, <1>8 DEF IInv

\* A write to the client leaves a reply in the socket or ends the process.
LEMMA TransmitType ==
    ASSUME TypeOK, NEW d \in Replies, Transmit(d)
    PROVE  proc' \in {"running"} \cup Ends /\ rep' \in Replies \cup {"none"}
BY DEF Transmit, TypeOK, Ends

\* Every step keeps the types.
LEMMA TypePreserved == IInv /\ [Next]_vars => TypeOK'
<1> SUFFICES ASSUME IInv, [Next]_vars PROVE TypeOK'
  OBVIOUS
<1> USE DEF IInv, TypeOK
<1>1. CASE ClientConnect
  BY <1>1 DEF ClientConnect
<1>2. CASE ClientSend
  BY <1>2 DEF ClientSend
<1>3. CASE ClientReceive
  BY <1>3 DEF ClientReceive
<1>4. CASE ClientClose
  BY <1>4 DEF ClientClose
<1>5. CASE SenderConnect
  BY <1>5 DEF SenderConnect
<1>6. CASE GdbCreate \/ GdbAccept
  <2>1. CASE GdbCreate
    BY <2>1 DEF GdbCreate, GdbStates, Ends
  <2>2. CASE GdbAccept
    BY <2>2 DEF GdbAccept, GdbStates, Ends
  <2> QED
    BY <1>6, <2>1, <2>2
<1>7. CASE GdbPacket
  BY <1>7 DEF GdbPacket, gdb_send_ack, GdbStates, Ends
<1>8. CASE GdbUnsupported
  <2>1. Transmit("")
    BY <1>8 DEF GdbUnsupported
  <2>2. proc' \in {"running"} \cup Ends /\ rep' \in Replies \cup {"none"}
    BY <2>1, TransmitType DEF Replies
  <2> QED
    BY <1>8, <2>2 DEF IInv, GdbUnsupported
<1>9. CASE GdbEof
  BY <1>9 DEF GdbEof, GdbStates
<1>10. CASE GdbClose
  BY <1>10 DEF GdbClose, GdbStates, FdsInv
<1>11. CASE GdbLock
  BY <1>11 DEF GdbLock, GdbStates
<1>12. CASE GdbEnter \/ GdbAssertion
  <2>1. CASE GdbEnter
    BY <2>1 DEF GdbEnter, GdbStates, Kinds
  <2>2. CASE GdbAssertion
    BY <2>2 DEF GdbAssertion, Ends
  <2> QED
    BY <1>12, <2>1, <2>2
<1>13. CASE ContReadPc
  BY <1>13 DEF ContReadPc, GdbStates
<1>14. CASE ContReadWord
  BY <1>14 DEF ContReadWord, GdbStates, Kinds, Pc, Addr, Outside
<1>15. CASE ContStep
  BY <1>15 DEF ContStep, arm_step, GdbStates, Ends, Pc, Addr, Outside, Vector,
     UNDEFINED_INSTRUCTION, DATA_ABORT
<1>16. CASE Step
  BY <1>16 DEF Step, arm_step, GdbStates, Ends, Pc, Addr, Outside, Vector,
     UNDEFINED_INSTRUCTION, DATA_ABORT
<1>17. CASE SendStopReason
  <2>1. \E d \in Replies : Transmit(d)
    BY <1>17 DEF SendStopReason, gdb_send_stop_reason, stop_reply, Replies
  <2>2. proc' \in {"running"} \cup Ends /\ rep' \in Replies \cup {"none"}
    BY <2>1, TransmitType DEF Replies
  <2> QED
    <3>1. reported' \in Replies
      BY <1>17 DEF SendStopReason, gdb_send_stop_reason, stop_reply, Replies
    <3> QED
      BY <1>17, <2>2, <3>1 DEF SendStopReason, GdbStates
<1>18. CASE Access
  <2>1. Transmit("data")
    BY <1>18 DEF Access, AccessBody
  <2>2. proc' \in {"running"} \cup Ends /\ rep' \in Replies \cup {"none"}
    BY <2>1, TransmitType DEF Replies
  <2> QED
    BY <1>18, <2>2 DEF IInv, Access, AccessBody, GdbStates, Kinds
<1>19. CASE GdbUnlock
  BY <1>19 DEF GdbUnlock, HandlerReturn, GdbStates, Kinds, Pc
<1>20. CASE IrqCreate \/ IrqAccept
  <2>1. CASE IrqCreate
    BY <2>1 DEF IrqCreate, IrqStates, Ends
  <2>2. CASE IrqAccept
    BY <2>2 DEF IrqAccept, IrqStates, Ends
  <2> QED
    BY <1>20, <2>1, <2>2
<1>21. CASE IrqRead
  BY <1>21 DEF IrqRead, IrqStates, Ends
<1>22. CASE IrqLock
  BY <1>22 DEF IrqLock, IrqLockStep, IrqStates
<1>23. CASE IrqEnter
  BY <1>23 DEF IrqEnter, IrqStates, Ends, TraceInv
<1>24. CASE IrqVector
  BY <1>24 DEF IrqVector, IrqStates, Ends, TraceInv, LatchInv, Vector, Pc
<1>25. CASE IrqUnlock
  BY <1>25 DEF IrqUnlock, IrqStates
<1>26. CASE MainJoin
  BY <1>26 DEF MainJoin
<1>27. CASE MainFree
  <2>1. main' \in {"mem", "return"} /\ heap' \subseteq heap
    BY <1>27 DEF MainFree
  <2>2. heap' \subseteq {"arm", "mem"}
    BY <2>1
  <2>3. UNCHANGED <<proc, gdb, lock, cmd, ports, link, core, locals, trace, irqs>>
    BY <1>27 DEF MainFree
  <2> QED
    BY <2>1, <2>2, <2>3
<1>28. CASE MainReturn
  BY <1>28 DEF MainReturn, Ends
<1>29. CASE UNCHANGED vars
  BY <1>29 DEF vars
<1> QED
  BY <1>1, <1>2, <1>3, <1>4, <1>5, <1>6, <1>7, <1>8, <1>9, <1>10, <1>11, <1>12,
     <1>13, <1>14, <1>15, <1>16, <1>17, <1>18, <1>19, <1>20, <1>21, <1>22, <1>23,
     <1>24, <1>25, <1>26, <1>27, <1>28, <1>29
     DEF Next, Ended, Environment, GdbThread, IrqThread, MainThread

\* Every step keeps the relation between the mutex and the places of the threads.
LEMMA LockPreserved == IInv /\ [Next]_vars => LockInv'
<1> SUFFICES ASSUME IInv, [Next]_vars PROVE LockInv'
  OBVIOUS
<1> USE DEF IInv, LockInv, GdbHolds, IrqHolds, GdbInCore, IrqInCore
<1>1. CASE Environment
  BY <1>1 DEF Environment, ClientConnect, ClientSend, ClientReceive, ClientClose,
     SenderConnect
<1>2. CASE GdbThread
  BY <1>2 DEF GdbThread, GdbCreate, GdbAccept, GdbPacket, GdbUnsupported,
     GdbEof, GdbClose, GdbLock, GdbEnter, GdbAssertion, ContReadPc, ContReadWord,
     ContStep, Step, SendStopReason, Access,
     AccessBody, GdbUnlock, HandlerReturn
<1>3. CASE IrqThread
  BY <1>3 DEF IrqThread, IrqCreate, IrqAccept, IrqRead, IrqLock, IrqLockStep, IrqEnter,
     IrqVector, IrqUnlock
<1>4. CASE MainThread
  BY <1>4 DEF MainThread, MainJoin, MainFree, MainReturn
<1>5. CASE UNCHANGED vars
  BY <1>5 DEF vars
<1> QED
  BY <1>1, <1>2, <1>3, <1>4, <1>5
     DEF Next, Ended, Environment, GdbThread, IrqThread, MainThread

\* Every step keeps the trace balanced.
LEMMA TracePreserved == IInv /\ [Next]_vars => TraceInv'
<1> SUFFICES ASSUME IInv, [Next]_vars PROVE TraceInv'
  OBVIOUS
<1> USE DEF IInv, TypeOK, LockInv, TraceInv, GdbHolds, IrqHolds, GdbInCore, IrqInCore
<1>1. CASE Environment
  BY <1>1 DEF Environment, ClientConnect, ClientSend, ClientReceive, ClientClose,
     SenderConnect
<1>2. CASE GdbCreate \/ GdbAccept
  BY <1>2 DEF GdbCreate, GdbAccept
<1>3. CASE GdbPacket
  BY <1>3 DEF GdbPacket
<1>4. CASE GdbUnsupported
  BY <1>4 DEF GdbUnsupported
<1>5. CASE GdbEof
  BY <1>5 DEF GdbEof
<1>6. CASE GdbClose
  BY <1>6 DEF GdbClose
<1>7. CASE GdbLock
  BY <1>7 DEF GdbLock
<1>8. CASE GdbEnter \/ GdbAssertion
  BY <1>8 DEF GdbEnter, GdbAssertion
<1>9. CASE ContReadPc
  BY <1>9 DEF ContReadPc
<1>10. CASE ContReadWord
  BY <1>10 DEF ContReadWord
<1>11. CASE ContStep
  BY <1>11 DEF ContStep
<1>12. CASE Step
  BY <1>12 DEF Step
<1>13. CASE SendStopReason
  BY <1>13 DEF SendStopReason
<1>14. CASE Access
  BY <1>14 DEF Access, AccessBody
<1>15. CASE GdbUnlock
  BY <1>15 DEF GdbUnlock, HandlerReturn
<1>16. CASE IrqThread
  <2>1. CASE IrqCreate \/ IrqAccept \/ IrqRead
    BY <2>1 DEF IrqCreate, IrqAccept, IrqRead
  <2>2. CASE IrqLock \/ IrqEnter
    BY <2>2 DEF IrqLock, IrqLockStep, IrqEnter
  <2>3. CASE IrqVector \/ IrqUnlock
    BY <2>3 DEF IrqVector, IrqUnlock
  <2> QED
    BY <1>16, <2>1, <2>2, <2>3 DEF IrqThread
<1>17. CASE MainThread
  BY <1>17 DEF MainThread, MainJoin, MainFree, MainReturn
<1>18. CASE UNCHANGED vars
  BY <1>18 DEF vars
<1> QED
  BY <1>1, <1>2, <1>3, <1>4, <1>5, <1>6, <1>7, <1>8, <1>9, <1>10, <1>11, <1>12, <1>13,
     <1>14, <1>15, <1>16, <1>17, <1>18
     DEF Next, Ended, GdbThread

\* Every step keeps the byte that the irq thread is about to use.
LEMMA LatchPreserved == IInv /\ [Next]_vars => LatchInv'
<1> SUFFICES ASSUME IInv, [Next]_vars PROVE LatchInv'
  OBVIOUS
<1> USE DEF IInv, LatchInv
<1>1. CASE Environment
  BY <1>1 DEF Environment, ClientConnect, ClientSend, ClientReceive, ClientClose,
     SenderConnect
<1>2. CASE GdbThread
  BY <1>2 DEF GdbThread, GdbCreate, GdbAccept, GdbPacket, GdbUnsupported,
     GdbEof, GdbClose, GdbLock, GdbEnter, GdbAssertion, ContReadPc, ContReadWord,
     ContStep, Step, SendStopReason, Access,
     AccessBody, GdbUnlock, HandlerReturn
<1>3. CASE IrqThread
  BY <1>3 DEF IrqThread, IrqCreate, IrqAccept, IrqRead, IrqLock, IrqLockStep, IrqEnter,
     IrqVector, IrqUnlock
<1>4. CASE MainThread
  BY <1>4 DEF MainThread, MainJoin, MainFree, MainReturn
<1>5. CASE UNCHANGED vars
  BY <1>5 DEF vars
<1> QED
  BY <1>1, <1>2, <1>3, <1>4, <1>5
     DEF Next, Ended, Environment, GdbThread, IrqThread, MainThread

\* Every step keeps what cont knows of the next instruction.
LEMMA ContPreserved == IInv /\ [Next]_vars => ContInv'
<1> SUFFICES ASSUME IInv, [Next]_vars PROVE ContInv'
  OBVIOUS
<1> USE DEF IInv, TypeOK, LockInv, ContInv, BreakpointsNotExecuted,
        ReportsWhereItStopped, GdbHolds, IrqHolds, GdbInCore, IrqInCore, Kinds, Pc,
        Addr, Outside, Commands, stop_reply, InCont
<1>1. CASE Environment
  BY <1>1 DEF Environment, ClientConnect, ClientSend, ClientReceive, ClientClose,
     SenderConnect
<1>2. CASE GdbCreate \/ GdbAccept
  BY <1>2 DEF GdbCreate, GdbAccept
<1>3. CASE GdbPacket
  BY <1>3 DEF GdbPacket
<1>4. CASE GdbUnsupported
  BY <1>4 DEF GdbUnsupported
<1>5. CASE GdbEof
  BY <1>5 DEF GdbEof
<1>6. CASE GdbClose
  BY <1>6 DEF GdbClose
<1>7. CASE GdbLock
  BY <1>7 DEF GdbLock
<1>8. CASE GdbEnter \/ GdbAssertion
  BY <1>8 DEF GdbEnter, GdbAssertion
<1>9. CASE ContReadPc
  BY <1>9 DEF ContReadPc
<1>10. CASE ContReadWord
  BY <1>10 DEF ContReadWord
<1>11. CASE ContStep
  BY <1>11 DEF ContStep, arm_step
<1>12. CASE Step
  BY <1>12 DEF Step, arm_step
<1>13. CASE SendStopReason
  BY <1>13 DEF SendStopReason, gdb_send_stop_reason
<1>14. CASE Access
  BY <1>14 DEF Access, AccessBody
<1>15. CASE GdbUnlock
  BY <1>15 DEF GdbUnlock, HandlerReturn
<1>16. CASE IrqThread
  BY <1>16 DEF IrqThread, IrqCreate, IrqAccept, IrqRead, IrqLock, IrqLockStep, IrqEnter,
     IrqVector, IrqUnlock
<1>17. CASE MainThread
  BY <1>17 DEF MainThread, MainJoin, MainFree, MainReturn
<1>18. CASE UNCHANGED vars
  BY <1>18 DEF vars
<1> QED
  BY <1>1, <1>2, <1>3, <1>4, <1>5, <1>6, <1>7, <1>8, <1>9, <1>10, <1>11, <1>12,
     <1>13, <1>14, <1>15, <1>16, <1>17, <1>18
     DEF Next, Ended, Environment, GdbThread, IrqThread, MainThread

\* Every step keeps the core allocated until the gdb thread has ended.
LEMMA HeapPreserved == IInv /\ [Next]_vars => HeapInv'
<1> SUFFICES ASSUME IInv, [Next]_vars PROVE HeapInv'
  OBVIOUS
<1> USE DEF IInv, TypeOK, HeapInv
<1>1. CASE Environment
  BY <1>1 DEF Environment, ClientConnect, ClientSend, ClientReceive, ClientClose,
     SenderConnect
<1>2. CASE GdbThread
  BY <1>2 DEF GdbThread, GdbCreate, GdbAccept, GdbPacket, GdbUnsupported,
     GdbEof, GdbClose, GdbLock, GdbEnter, GdbAssertion, ContReadPc, ContReadWord,
     ContStep, Step, SendStopReason, Access,
     AccessBody, GdbUnlock, HandlerReturn
<1>3. CASE IrqThread
  BY <1>3 DEF IrqThread, IrqCreate, IrqAccept, IrqRead, IrqLock, IrqLockStep, IrqEnter,
     IrqVector, IrqUnlock
<1>4. CASE MainThread
  BY <1>4 DEF MainThread, MainJoin, MainFree, MainReturn
<1>5. CASE UNCHANGED vars
  BY <1>5 DEF vars
<1> QED
  BY <1>1, <1>2, <1>3, <1>4, <1>5
     DEF Next, Ended, Environment, GdbThread, IrqThread, MainThread

\* Every step keeps the descriptors of the gdb thread counted.
LEMMA FdsPreserved == IInv /\ [Next]_vars => FdsInv'
<1> SUFFICES ASSUME IInv, [Next]_vars PROVE FdsInv'
  OBVIOUS
<1> USE DEF IInv, TypeOK, FdsInv
<1>1. CASE Environment
  BY <1>1 DEF Environment, ClientConnect, ClientSend, ClientReceive, ClientClose,
     SenderConnect
<1>2. CASE GdbCreate \/ GdbAccept \/ GdbClose
  BY <1>2 DEF GdbCreate, GdbAccept, GdbClose
<1>3. CASE GdbPacket \/ GdbUnsupported \/ GdbEof \/ GdbLock \/ GdbEnter \/ GdbAssertion
  BY <1>3 DEF GdbPacket, GdbUnsupported, GdbEof, GdbLock, GdbEnter, GdbAssertion
<1>4. CASE ContReadPc \/ ContReadWord \/ ContStep \/ Step
  BY <1>4 DEF ContReadPc, ContReadWord, ContStep, Step
<1>5. CASE SendStopReason \/ Access \/ GdbUnlock
  BY <1>5 DEF SendStopReason, Access, AccessBody, GdbUnlock, HandlerReturn
<1>6. CASE IrqCreate \/ IrqAccept
  BY <1>6 DEF IrqCreate, IrqAccept
<1>7. CASE IrqRead \/ IrqLock \/ IrqEnter \/ IrqVector \/ IrqUnlock
  BY <1>7 DEF IrqRead, IrqLock, IrqLockStep, IrqEnter, IrqVector, IrqUnlock
<1>8. CASE MainThread
  BY <1>8 DEF MainThread, MainJoin, MainFree, MainReturn
<1>9. CASE UNCHANGED vars
  BY <1>9 DEF vars
<1> QED
  BY <1>1, <1>2, <1>3, <1>4, <1>5, <1>6, <1>7, <1>8, <1>9
     DEF Next, Ended, GdbThread, IrqThread

----------------------------------------------------------------------------

\* IInv is an invariant of the simulator.
THEOREM Inductive == Spec => []IInv
<1>1. IInv /\ [Next]_vars => IInv'
  BY TypePreserved, LockPreserved, TracePreserved, LatchPreserved, ContPreserved,
     HeapPreserved, FdsPreserved DEF IInv
<1> QED
  BY InitInv, <1>1, PTL DEF Spec

\* Every variable of the simulator keeps its type; in particular the location stack
\* of the trace holds at most one location between two accesses.
THEOREM SimulatorTyped == Spec => []TypeOK
<1>1. IInv => TypeOK
  BY DEF IInv
<1> QED
  BY Inductive, <1>1, PTL

\* The gdb thread and the irq thread are never both inside the core.
THEOREM MutualExclusion == Spec => []OneInCore
<1>1. IInv => OneInCore
  BY DEF IInv, LockInv, OneInCore, GdbHolds, IrqHolds
<1> QED
  BY Inductive, <1>1, PTL

\* The continue command never executes a breakpoint, whatever interrupts arrive.
THEOREM BreakpointSafety == Spec => []BreakpointsNotExecuted
<1>1. IInv => BreakpointsNotExecuted
  BY DEF IInv, ContInv
<1> QED
  BY Inductive, <1>1, PTL

\* A stop is reported with the processor on a breakpoint word or outside memory.
THEOREM StopIsReal == Spec => []ReportsWhereItStopped
<1>1. IInv => ReportsWhereItStopped
  BY DEF IInv, ContInv
<1> QED
  BY Inductive, <1>1, PTL

\* The trace is on and its location stack empty whenever the mutex is free.
THEOREM TraceAlwaysBalanced == Spec => []TraceBalanced
<1>1. IInv => TraceBalanced
  BY DEF IInv, TypeOK, LockInv, TraceInv, TraceBalanced, GdbHolds, IrqHolds, GdbInCore, IrqInCore
<1> QED
  BY Inductive, <1>1, PTL

\* The gdb thread uses the core only while it is allocated.
THEOREM GdbNeverUsesFreedCore == Spec => []GdbUsesLiveCore
<1>1. IInv => GdbUsesLiveCore
  BY DEF IInv, HeapInv, GdbUsesLiveCore, GdbInCore
<1> QED
  BY Inductive, <1>1, PTL

\* A ? packet repeats the stop that was last reported.
THEOREM ReasonAlwaysRepeated == Spec => []ReasonRepeated
<1>1. IInv => ReasonRepeated
  BY DEF IInv, ContInv, ReasonRepeated, InCont
<1> QED
  BY Inductive, <1>1, PTL
=============================================================================
