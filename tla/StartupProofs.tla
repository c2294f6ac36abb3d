---------------------------- MODULE StartupProofs ---------------------------
(* Theorems about Startup for any delay, chunk size, reorganisation depth   *)
(* within the delay and height.                                             *)
EXTENDS Startup, SequenceTheorems, TLAPS

USE StartupAssumption

-----------------------------------------------------------------------------
(* Facts about the operators *)

\* The logs of a chain, with the chain as a parameter: so that what a step does
\* to the chain and what it does to the mirror can be told apart.
LogOn(chain, i) == [at |-> i, content |-> chain[i], logs |-> "all"]

LogsOn(chain, from, to) ==
    [i \in 1 .. to - from + 1 |-> LogOn(chain, from + i - 1)]

CutOn(chain, n, k) ==
    Append(LogsOn(chain, n + 1, k - 1),
           [at |-> k, content |-> chain[k], logs |-> "part"])

\* What holds of a replay of n blocks whether update raised or not: Exact and
\* Assigned together.
RightOn(chain, applied, n) ==
    /\ n <= Len(chain)
    /\ Uncut(applied) => /\ Len(applied) = n
                         /\ \A i \in 1..n : applied[i] = LogOn(chain, i)
    /\ \A i \in 1..n : \E j \in 1..Len(applied) :
          /\ applied[j] = LogOn(chain, i)
          /\ \A l \in j + 1 .. Len(applied) : applied[l].at > i

\* The definitions of the model, for the chain of the model.
LEMMA LogsOnBlocks ==
    /\ \A from, to : Logs(from, to) = LogsOn(blocks, from, to)
    /\ \A n, k : Append(Logs(n + 1, k - 1), CutLog(k)) = CutOn(blocks, n, k)
<1>1. \A i : Log(i) = LogOn(blocks, i)
  BY DEF Log, LogOn
<1>2. \A from, to : Logs(from, to) = LogsOn(blocks, from, to)
  BY <1>1, Zenon DEF Logs, LogsOn
<1>3. \A k : CutLog(k) = [at |-> k, content |-> blocks[k], logs |-> "part"]
  BY DEF CutLog, Log
<1>4. \A n, k : Append(Logs(n + 1, k - 1), CutLog(k)) = CutOn(blocks, n, k)
  BY <1>2, <1>3, Zenon DEF CutOn
<1>5. QED
  BY <1>2, <1>4

LEMMA RightOnBlocks ==
    ASSUME NEW applied, NEW n
    PROVE  RightOn(blocks, applied, n)
        <=> (Uncut(applied) => Exact(applied, n)) /\ Assigned(applied, n)
<1>1. \A i : Log(i) = LogOn(blocks, i)
  BY DEF Log, LogOn
<1>2. QED
  BY <1>1 DEF RightOn, Exact, Assigned

\* The logs of a range of blocks of the chain.
LEMMA LogsFacts ==
    ASSUME NEW chain \in Seq(Contents), NEW n \in Nat, NEW to \in Int,
           to <= Len(chain)
    PROVE  /\ LogsOn(chain, n + 1, to) \in Seq(Applied)
           /\ n <= to => Len(LogsOn(chain, n + 1, to)) = to - n
           /\ \A i \in 1..Len(LogsOn(chain, n + 1, to)) :
                 /\ LogsOn(chain, n + 1, to)[i] = LogOn(chain, n + i)
                 /\ LogsOn(chain, n + 1, to)[i].at = n + i
                 /\ LogsOn(chain, n + 1, to)[i].logs = "all"
<1> DEFINE logs == LogsOn(chain, n + 1, to)
           m == IF n <= to THEN to - n ELSE 0
<1>1. m \in Nat /\ 1 .. to - (n + 1) + 1 = 1 .. m
  OBVIOUS
<1> HIDE DEF m
<1>2. logs = [i \in 1..m |-> LogOn(chain, n + i)]
  <2>1. logs = [i \in 1..m |-> LogOn(chain, n + 1 + i - 1)]
    BY <1>1 DEF LogsOn
  <2>2. \A i \in 1..m : n + 1 + i - 1 = n + i
    BY <1>1
  <2>3. QED
    BY <2>1, <2>2
<1>3. \A i \in 1..m : LogOn(chain, n + i) \in Applied
  <2> SUFFICES ASSUME NEW i \in 1..m PROVE LogOn(chain, n + i) \in Applied
    OBVIOUS
  <2>1. n + i \in 1..Len(chain)
    BY <1>1 DEF m
  <2>2. chain[n + i] \in Contents /\ n + i \in Nat
    BY <2>1
  <2>3. QED
    BY <2>2 DEF LogOn, Applied
<1> HIDE DEF logs
<1>4. logs \in Seq(Applied) /\ Len(logs) = m
  BY <1>1, <1>2, <1>3
<1>5. ASSUME NEW i \in 1..Len(logs)
      PROVE  logs[i] = LogOn(chain, n + i) /\ logs[i].at = n + i /\ logs[i].logs = "all"
  BY <1>2, <1>4 DEF LogOn
<1>6. n <= to => m = to - n
  BY DEF m
<1>7. /\ logs \in Seq(Applied)
      /\ n <= to => Len(logs) = to - n
      /\ \A i \in 1..Len(logs) : /\ logs[i] = LogOn(chain, n + i)
                                 /\ logs[i].at = n + i
                                 /\ logs[i].logs = "all"
  BY <1>4, <1>5, <1>6
<1>8. QED
  BY <1>7, Zenon DEF logs

\* Replaying a range of blocks on top of a right mirror gives a right one.
LEMMA ReplayIsRight ==
    ASSUME NEW chain \in Seq(Contents), NEW s \in Seq(Applied),
           NEW n \in Nat, NEW to \in Nat,
           RightOn(chain, s, n), n <= to, to <= Len(chain)
    PROVE  RightOn(chain, s \o LogsOn(chain, n + 1, to), to)
<1> DEFINE logs == LogsOn(chain, n + 1, to)
           t == s \o logs
           m == Len(s)
<1>1. /\ logs \in Seq(Applied) /\ Len(logs) = to - n
      /\ \A i \in 1 .. to - n : /\ logs[i] = LogOn(chain, n + i)
                                /\ logs[i].at = n + i
                                /\ logs[i].logs = "all"
  <2>1. /\ logs \in Seq(Applied) /\ (n <= to => Len(logs) = to - n)
        /\ \A i \in 1..Len(logs) : /\ logs[i] = LogOn(chain, n + i)
                                   /\ logs[i].at = n + i
                                   /\ logs[i].logs = "all"
    <3>1. to \in Int
      OBVIOUS
    <3>2. QED
      BY <3>1, LogsFacts, Zenon
  <2> HIDE DEF logs
  <2>2. QED
    BY <2>1
<1> HIDE DEF logs
<1>2. /\ m \in Nat /\ t \in Seq(Applied) /\ Len(t) = m + (to - n)
      /\ \A i \in 1 .. m + (to - n) : t[i] = IF i <= m THEN s[i] ELSE logs[i - m]
  <2>1. /\ t \in Seq(Applied) /\ Len(t) = Len(s) + Len(logs)
        /\ \A i \in 1..Len(s) + Len(logs) :
              t[i] = IF i <= Len(s) THEN s[i] ELSE logs[i - Len(s)]
    BY <1>1, ConcatProperties
  <2>2. Len(s) \in Nat
    OBVIOUS
  <2> HIDE DEF t
  <2>3. QED
    BY <1>1, <2>1, <2>2
<1>3. \A i \in 1..m : t[i] = s[i]
  BY <1>2
<1>4. ASSUME NEW i \in m + 1 .. m + (to - n)
      PROVE  /\ t[i] = LogOn(chain, n + (i - m))
             /\ t[i].at = n + (i - m)
  <2>1. i - m \in 1 .. to - n /\ i \in 1 .. m + (to - n) /\ ~(i <= m)
    BY <1>2
  <2>2. t[i] = logs[i - m]
    BY <1>2, <2>1
  <2>3. QED
    BY <1>1, <2>1, <2>2
<1> HIDE DEF t, m
<1>5. ASSUME Uncut(t)
      PROVE  Len(t) = to /\ \A i \in 1..to : t[i] = LogOn(chain, i)
  <2>1. \A i \in 1..m : s[i].logs = "all"
    <3>1. \A i \in 1..m : i \in 1..Len(t)
      BY <1>2
    <3>2. QED
      BY <1>3, <1>5, <3>1 DEF Uncut
  <2>2. m = n /\ \A i \in 1..n : s[i] = LogOn(chain, i)
    BY <2>1 DEF RightOn, Uncut, m
  <2>3. ASSUME NEW i \in 1..to PROVE t[i] = LogOn(chain, i)
    <3>1. CASE i <= n
      BY <1>3, <2>2, <3>1
    <3>2. CASE ~(i <= n)
      <4>1. i \in m + 1 .. m + (to - n) /\ n + (i - m) = i
        BY <2>2, <3>2
      <4>2. QED
        BY <1>4, <4>1
    <3>3. QED
      BY <3>1, <3>2
  <2>4. QED
    BY <1>2, <2>2, <2>3
<1>6. ASSUME NEW i \in 1..to
      PROVE  \E j \in 1..Len(t) : /\ t[j] = LogOn(chain, i)
                                  /\ \A l \in j + 1 .. Len(t) : t[l].at > i
  <2>1. CASE i <= n
    <3>1. PICK j \in 1..m : /\ s[j] = LogOn(chain, i)
                            /\ \A l \in j + 1 .. m : s[l].at > i
      BY <2>1 DEF RightOn, m
    <3>2. j \in 1..Len(t) /\ t[j] = LogOn(chain, i)
      BY <1>2, <1>3, <3>1
    <3>3. ASSUME NEW l \in j + 1 .. Len(t) PROVE t[l].at > i
      <4>1. CASE l <= m
        <5>1. l \in 1..m /\ l \in j + 1 .. m
          BY <1>2, <4>1
        <5>2. QED
          BY <1>3, <3>1, <5>1
      <4>2. CASE ~(l <= m)
        <5>1. l \in m + 1 .. m + (to - n) /\ n + (l - m) > i
          BY <1>2, <2>1, <4>2
        <5>2. t[l].at = n + (l - m)
          BY <1>4, <5>1
        <5>3. QED
          BY <5>1, <5>2
      <4>3. QED
        BY <4>1, <4>2
    <3>4. QED
      BY <3>2, <3>3
  <2>2. CASE ~(i <= n)
    <3>1. PICK j : j = m + (i - n)
      OBVIOUS
    <3>2. j \in m + 1 .. m + (to - n) /\ n + (j - m) = i /\ j \in 1..Len(t)
      BY <1>2, <2>2, <3>1
    <3>3. t[j] = LogOn(chain, i)
      BY <1>4, <3>2
    <3>4. ASSUME NEW l \in j + 1 .. Len(t) PROVE t[l].at > i
      <4>1. l \in m + 1 .. m + (to - n) /\ n + (l - m) > i
        BY <1>2, <3>2
      <4>2. t[l].at = n + (l - m)
        BY <1>4, <4>1
      <4>3. QED
        BY <4>1, <4>2
    <3>5. QED
      BY <3>2, <3>3, <3>4
  <2>3. QED
    BY <2>1, <2>2
<1>7. RightOn(chain, t, to)
  BY <1>5, <1>6 DEF RightOn
<1>8. QED
  BY <1>7 DEF t, logs

\* A chunk that is cut short leaves a mirror that is right for the old height.
LEMMA CutIsRight ==
    ASSUME NEW chain \in Seq(Contents), NEW s \in Seq(Applied),
           NEW n \in Nat, NEW k \in Nat,
           RightOn(chain, s, n), n < k, k <= Len(chain)
    PROVE  RightOn(chain, s \o CutOn(chain, n, k), n)
<1> DEFINE cut == [at |-> k, content |-> chain[k], logs |-> "part"]
           logs == LogsOn(chain, n + 1, k - 1)
           a == Append(logs, cut)
           t == s \o a
           m == Len(s)
<1>0. cut \in Applied /\ cut.at = k /\ cut.logs = "part"
  <2>1. chain[k] \in Contents
    OBVIOUS
  <2>2. QED
    BY <2>1 DEF Applied
<1> HIDE DEF cut
<1>1. /\ logs \in Seq(Applied) /\ Len(logs) = k - n - 1
      /\ \A i \in 1 .. k - n - 1 : logs[i].at = n + i
  <2>1. k - 1 \in Int /\ k - 1 <= Len(chain) /\ n <= k - 1 /\ k - 1 - n = k - n - 1
    OBVIOUS
  <2>2. PICK e \in Int : e = k - 1
    OBVIOUS
  <2>3. /\ LogsOn(chain, n + 1, e) \in Seq(Applied)
        /\ n <= e => Len(LogsOn(chain, n + 1, e)) = e - n
        /\ \A i \in 1..Len(LogsOn(chain, n + 1, e)) :
              LogsOn(chain, n + 1, e)[i].at = n + i
    <3>1. e <= Len(chain)
      BY <2>1, <2>2
    <3>2. QED
      BY <3>1, LogsFacts
  <2>4. logs = LogsOn(chain, n + 1, e)
    BY <2>2
  <2> HIDE DEF logs
  <2>5. QED
    BY <2>1, <2>2, <2>3, <2>4
<1> HIDE DEF logs
<1>2. /\ a \in Seq(Applied) /\ Len(a) = k - n /\ a[k - n] = cut
      /\ \A i \in 1 .. k - n - 1 : a[i] = logs[i]
  BY <1>0, <1>1, AppendProperties
<1>3. ASSUME NEW i \in 1 .. k - n PROVE a[i].at > n
  <2>1. CASE i = k - n
    BY <1>0, <1>2, <2>1
  <2>2. CASE i # k - n
    <3>1. i \in 1 .. k - n - 1
      BY <2>2
    <3>2. a[i].at = n + i
      BY <1>1, <1>2, <3>1
    <3>3. QED
      BY <3>1, <3>2
  <2>3. QED
    BY <2>1, <2>2
<1> HIDE DEF a
<1>4. /\ m \in Nat /\ Len(t) = m + (k - n)
      /\ \A i \in 1 .. m + (k - n) : t[i] = IF i <= m THEN s[i] ELSE a[i - m]
  <2>1. /\ Len(t) = Len(s) + Len(a)
        /\ \A i \in 1..Len(s) + Len(a) :
              t[i] = IF i <= Len(s) THEN s[i] ELSE a[i - Len(s)]
    BY <1>2, ConcatProperties
  <2>2. Len(s) \in Nat
    OBVIOUS
  <2> HIDE DEF t
  <2>3. QED
    BY <1>2, <2>1, <2>2
<1>5. \A i \in 1..m : t[i] = s[i]
  BY <1>4
<1>6. ASSUME NEW l \in m + 1 .. m + (k - n) PROVE t[l] = a[l - m] /\ l - m \in 1 .. k - n
  <2>1. l \in 1 .. m + (k - n) /\ ~(l <= m) /\ l - m \in 1 .. k - n
    BY <1>4
  <2>2. QED
    BY <1>4, <2>1
<1> HIDE DEF t, m
<1>7. ~Uncut(t)
  <2>1. PICK l : l = m + (k - n)
    OBVIOUS
  <2>2. l \in m + 1 .. m + (k - n) /\ l \in 1..Len(t) /\ l - m = k - n
    BY <1>4, <2>1
  <2>3. t[l] = cut
    BY <1>2, <1>6, <2>2
  <2>4. QED
    BY <1>0, <2>2, <2>3 DEF Uncut
<1>8. ASSUME NEW i \in 1..n
      PROVE  \E j \in 1..Len(t) : /\ t[j] = LogOn(chain, i)
                                  /\ \A l \in j + 1 .. Len(t) : t[l].at > i
  <2>1. PICK j \in 1..m : /\ s[j] = LogOn(chain, i)
                          /\ \A l \in j + 1 .. m : s[l].at > i
    BY DEF RightOn, m
  <2>2. j \in 1..Len(t) /\ t[j] = LogOn(chain, i)
    BY <1>4, <1>5, <2>1
  <2>3. ASSUME NEW l \in j + 1 .. Len(t) PROVE t[l].at > i
    <3>1. CASE l <= m
      <4>1. l \in 1..m /\ l \in j + 1 .. m
        BY <1>4, <3>1
      <4>2. QED
        BY <1>5, <2>1, <4>1
    <3>2. CASE ~(l <= m)
      <4>1. l \in m + 1 .. m + (k - n)
        BY <1>4, <3>2
      <4>2. t[l] = a[l - m] /\ l - m \in 1 .. k - n
        BY <1>6, <4>1
      <4>3. PICK r : r = a[l - m].at
        OBVIOUS
      <4>4. \E o \in 1 .. k - n : t[l] = a[o]
        BY <4>2
      <4>5. a[l - m].at > n
        BY <1>3, <4>2
      <4>6. a[l - m].at \in Nat
        <5>1. a[l - m] \in Applied
          BY <1>2, <4>2
        <5>2. QED
          BY <5>1 DEF Applied
      <4>7. QED
        BY <4>2, <4>5, <4>6
    <3>3. QED
      BY <3>1, <3>2
  <2>4. QED
    BY <2>2, <2>3
<1>9. n <= Len(chain)
  OBVIOUS
<1>10. t = s \o CutOn(chain, n, k)
  BY DEF t, a, logs, cut, CutOn
<1>11. RightOn(chain, t, n)
  BY <1>7, <1>8, <1>9 DEF RightOn
<1>12. QED
  BY <1>10, <1>11

\* What is right about blocks that do not change stays right.
LEMMA RightStable ==
    ASSUME NEW chain, NEW other, NEW s, NEW n \in Nat, RightOn(chain, s, n),
           n <= Len(other), \A i \in 1..n : other[i] = chain[i]
    PROVE  RightOn(other, s, n)
<1>1. \A i \in 1..n : LogOn(other, i) = LogOn(chain, i)
  BY DEF LogOn
<1>2. QED
  BY <1>1 DEF RightOn

\* Nothing applied is right for the empty prefix of the chain.
LEMMA NothingIsRight ==
    ASSUME NEW chain \in Seq(Contents)
    PROVE  RightOn(chain, <<>>, 0)
BY DEF RightOn

\* The chunk of a round ends within the target.
LEMMA ChunkEnd ==
    ASSUME NEW n \in Nat, NEW t \in Int, n < t
    PROVE  /\ min(n + ChunkSize, t) \in Nat
           /\ n <= min(n + ChunkSize, t)
           /\ min(n + ChunkSize, t) <= t
BY DEF min

\* What a replay adds is a sequence of logs, whatever the range, cut or not.
LEMMA LogsType ==
    ASSUME blocks \in Seq(Contents), NEW n \in Nat, NEW t \in Nat
    PROVE  /\ Logs(n + 1, min(t, Len(blocks))) \in Seq(Applied)
           /\ \A k \in n + 1 .. min(t, Len(blocks)) :
                 Append(Logs(n + 1, k - 1), CutLog(k)) \in Seq(Applied)
<1>1. min(t, Len(blocks)) \in Int /\ min(t, Len(blocks)) <= Len(blocks)
  BY DEF min
<1>2. Logs(n + 1, min(t, Len(blocks))) \in Seq(Applied)
  BY <1>1, LogsFacts, LogsOnBlocks
<1>3. ASSUME NEW k \in n + 1 .. min(t, Len(blocks))
      PROVE  Append(Logs(n + 1, k - 1), CutLog(k)) \in Seq(Applied)
  <2>1. k - 1 \in Int /\ k - 1 <= Len(blocks) /\ k \in 1..Len(blocks) /\ k \in Nat
    BY <1>1
  <2>2. Logs(n + 1, k - 1) \in Seq(Applied)
    <3>1. LogsOn(blocks, n + 1, k - 1) \in Seq(Applied)
      BY <2>1, LogsFacts, Zenon
    <3>2. QED
      BY <3>1, LogsOnBlocks, Zenon
  <2>3. CutLog(k) = [at |-> k, content |-> blocks[k], logs |-> "part"]
    BY DEF CutLog, Log
  <2>4. CutLog(k) \in Applied
    BY <2>1, <2>3 DEF Applied
  <2>5. QED
    BY <2>2, <2>4, AppendProperties
<1>4. QED
  BY <1>2, <1>3

-----------------------------------------------------------------------------
(* Types *)

\* The bot is down and has no files.
LEMMA InitTypes == Init => TypeOK
<1> SUFFICES ASSUME Init PROVE TypeOK
  OBVIOUS
<1>1. NoFile \in File
  BY EmptySeq DEF NoFile, File
<1>2. reorged \in BOOLEAN
  BY DEF Init
<1>3. QED
  BY <1>1, <1>2, EmptySeq DEF Init, TypeOK, Points

\* Every step keeps the types.
LEMMA StepTypes == TypeOK /\ [Next]_vars => TypeOK'
<1> SUFFICES ASSUME TypeOK, [Next]_vars PROVE TypeOK'
  OBVIOUS
<1> USE DEF TypeOK
<1>1. ASSUME NEW c \in Contents, Mine(c) PROVE TypeOK'
  BY <1>1, AppendProperties DEF Mine
<1>2. ASSUME NEW k \in 0..MaxHeight, Reorg(k) PROVE TypeOK'
  <2>1. \A i \in 1..k : blocks[i] \in Contents
    BY <1>2 DEF Reorg
  <2>2. QED
    BY <1>2, <2>1, SubSeqProperties DEF Reorg
<1>3. ASSUME reload_states PROVE TypeOK'
  <2>1. \A p \in Files : disk[p] \in File
    OBVIOUS
  <2>2. /\ \A p \in Files : disk[p].applied \in Seq(Applied)
        /\ disk["users"].last_update \in Nat
    BY <2>1 DEF File, Files
  <2>3. mem' \in [Parts -> Seq(Applied)]
    BY <1>3, <2>2, EmptySeq DEF reload_states
  <2>4. QED
    BY <1>3, <2>2, <2>3 DEF reload_states, chainVars, Points, SyncPoints
<1>4. ASSUME reload_from_init PROVE TypeOK'
  BY <1>4, EmptySeq DEF reload_from_init, chainVars, Points, SyncPoints
<1>5. ASSUME NEW p \in SyncPoints, sync_states(p) PROVE TypeOK'
  <2>1. LoopOf[p] \in Points
    BY DEF SyncPoints, LoopOf, Points, Loops
  <2>2. QED
    BY <1>5, <2>1 DEF sync_states, chainVars
<1>6. ASSUME NEW p \in Loops, query_events_loop_liq(p) PROVE TypeOK'
  <2> DEFINE to_block == min(last_update + ChunkSize, target)
             logs == Logs(last_update + 1, min(to_block, Len(blocks)))
  <2>1. to_block \in Nat
    <3>1. last_update < target /\ last_update \in Nat /\ target \in Int
      BY <1>6 DEF query_events_loop_liq
    <3>2. min(last_update + ChunkSize, target) \in Nat
      BY <3>1, ChunkEnd
    <3>3. QED
      BY <3>1, <3>2
  <2>2. logs \in Seq(Applied)
    BY <2>1, LogsType
  <2> HIDE DEF to_block, logs
  <2>3. /\ mem' = [q \in Parts |-> mem[q] \o logs]
        /\ storage' = storage \cup (last_update + 1 .. to_block)
        /\ last_update' = to_block
        /\ UNCHANGED <<chainVars, pc, target, disk, reorged>>
    BY <1>6 DEF query_events_loop_liq, to_block, logs
  <2>4. mem' \in [Parts -> Seq(Applied)]
    BY <2>2, <2>3, ConcatProperties
  <2>5. storage' \subseteq Nat
    BY <2>1, <2>3
  <2>6. QED
    BY <2>1, <2>3, <2>4, <2>5 DEF chainVars
<1>7. ASSUME NEW p \in Loops, sync_done(p) PROVE TypeOK'
  <2>1. AfterLoop[p] \in Points
    BY DEF Loops, AfterLoop, Points, SyncPoints
  <2>2. QED
    BY <1>7, <2>1 DEF sync_done, chainVars
<1>14. ASSUME update_raises PROVE TypeOK'
  <2> DEFINE to_block == min(last_update + ChunkSize, target)
  <2>1. to_block \in Nat
    <3>1. last_update < target /\ last_update \in Nat /\ target \in Int
      BY <1>14 DEF update_raises
    <3>2. QED
      BY <3>1, ChunkEnd
  <2>2. PICK k \in last_update + 1 .. min(to_block, Len(blocks)) :
          /\ mem' = [q \in Parts |->
                       mem[q] \o Append(Logs(last_update + 1, k - 1), CutLog(k))]
          /\ storage' = storage \cup (last_update + 1 .. k)
    BY <1>14 DEF update_raises
  <2>3. Append(Logs(last_update + 1, k - 1), CutLog(k)) \in Seq(Applied)
    BY <2>1, LogsType
  <2>4. mem' \in [Parts -> Seq(Applied)]
    BY <2>2, <2>3, ConcatProperties
  <2>5. storage' \subseteq Nat
    BY <2>2
  <2>6. QED
    BY <1>14, <2>4, <2>5 DEF update_raises, chainVars, Points
<1>8. ASSUME sync_failed PROVE TypeOK'
  BY <1>8 DEF sync_failed, chainVars, Points
<1>9. ASSUME vai_repay PROVE TypeOK'
  BY <1>9 DEF vai_repay, chainVars, Points, Files
<1>10. ASSUME NEW p \in Files, cache(p) PROVE TypeOK'
  <2>1. AfterFile[p] \in Points
    BY DEF Files, AfterFile, Points, SyncPoints
  <2>2. [intact |-> TRUE, applied |-> mem[p],
         last_update |-> last_update, stale |-> storage] \in File
    BY DEF File, Parts
  <2>3. QED
    BY <1>10, <2>1, <2>2 DEF cache, chainVars
<1>11. ASSUME main PROVE TypeOK'
  BY <1>11 DEF main, chainVars, Points
<1>12. ASSUME Crash PROVE TypeOK'
  <2>1. NoFile \in File
    BY EmptySeq DEF NoFile, File
  <2>2. disk' \in [Files -> File]
    BY <1>12, <2>1 DEF Crash
  <2>3. reorged' \in BOOLEAN
    BY <1>12 DEF Crash
  <2>4. QED
    BY <1>12, <2>2, <2>3, EmptySeq DEF Crash, chainVars, Points
<1>13. CASE UNCHANGED vars
  BY <1>13 DEF vars
<1>15. QED
  BY <1>1, <1>2, <1>3, <1>4, <1>5, <1>6, <1>7, <1>8, <1>9, <1>10, <1>11,
     <1>12, <1>13, <1>14 DEF Next

\* Every reachable state of the chain, the process and its files is well typed.
THEOREM TypeCorrect == Spec => []TypeOK
BY InitTypes, StepTypes, PTL DEF Spec

-----------------------------------------------------------------------------
(* The files hold the canonical chain *)

\* The final blocks are part of the chain, and no more than ReorgDepth blocks
\* are not final.
FinalKnown ==
    /\ final <= Len(blocks)
    /\ Len(blocks) - ReorgDepth <= final

\* Until the files are written the mirror, and what it is about to replay, is
\* final; so is what the files hold.
BehindFinal ==
    /\ pc \in Loading => last_update <= final
    /\ pc = "loop1" => target <= final
    /\ \A p \in Files : disk[p].intact => disk[p].last_update <= final

\* The VAI users have been asked for when the files are written.
Refreshed == pc \in Files => storage = {}

\* Every file that can be read is right, and so is the mirror while it loads.
FilesRight ==
    \A p \in Files : disk[p].intact
                       => RightOn(blocks, disk[p].applied, disk[p].last_update)

LoadedRight ==
    pc \in Loading => \A p \in Files : RightOn(blocks, mem[p], last_update)

\* The inductive invariant.  That a file is right is inductive only along with
\* its being final, and what is written is final only because the sync before it
\* stays Delay blocks behind the head, also when that sync was cut short.
IInv ==
    /\ TypeOK
    /\ FinalKnown
    /\ FilesRight
    /\ LoadedRight
    /\ BehindFinal
    /\ Refreshed
    /\ DiskVaiFresh

\* The chain may only grow beyond what is final.
LEMMA ChainStep ==
    ASSUME TypeOK, FinalKnown,
           \/ \E c \in Contents : Mine(c)
           \/ \E k \in 0..MaxHeight : Reorg(k)
    PROVE  /\ FinalKnown'
           /\ final <= final'
           /\ \A i \in 1..final : blocks'[i] = blocks[i]
<1> USE DEF TypeOK, FinalKnown
<1>1. ASSUME NEW c \in Contents, Mine(c)
      PROVE  /\ FinalKnown'
             /\ final <= final'
             /\ \A i \in 1..final : blocks'[i] = blocks[i]
  <2>1. /\ Len(blocks') = Len(blocks) + 1
        /\ \A i \in 1..Len(blocks) : blocks'[i] = blocks[i]
    BY <1>1, AppendProperties DEF Mine
  <2>2. QED
    BY <1>1, <2>1 DEF Mine
<1>2. ASSUME NEW k \in 0..MaxHeight, Reorg(k)
      PROVE  /\ FinalKnown'
             /\ final <= final'
             /\ \A i \in 1..final : blocks'[i] = blocks[i]
  <2>1. \A i \in 1..k : blocks[i] \in Contents
    BY <1>2 DEF Reorg
  <2>2. /\ Len(SubSeq(blocks, 1, k)) = k
        /\ \A i \in 1..k : SubSeq(blocks, 1, k)[i] = blocks[i]
    BY <2>1, SubSeqProperties
  <2>3. QED
    BY <1>2, <2>2 DEF Reorg
<1>3. QED
  BY <1>1, <1>2

\* What is right and final stays right while the chain changes.
LEMMA FinalStable ==
    ASSUME TypeOK, FinalKnown', final <= final', TypeOK',
           \A i \in 1..final : blocks'[i] = blocks[i],
           NEW s, NEW n \in Nat, RightOn(blocks, s, n), n <= final
    PROVE  RightOn(blocks', s, n)
<1>1. final \in Nat /\ final' \in Nat /\ Len(blocks') \in Nat
  BY DEF TypeOK
<1>2. n <= Len(blocks')
  BY <1>1 DEF FinalKnown
<1>3. \A i \in 1..n : i \in 1..final
  BY <1>1
<1>4. QED
  BY <1>2, <1>3, RightStable

\* Nothing is loaded and nothing written when the bot is first started.
LEMMA InitIInv == Init => IInv
<1> SUFFICES ASSUME Init PROVE IInv
  OBVIOUS
<1>1. TypeOK
  BY InitTypes
<1>2. Len(blocks) = 0
  BY DEF Init
<1>3. FinalKnown
  BY <1>2 DEF Init, FinalKnown
<1>4. pc \notin Loading /\ pc \notin Files /\ pc # "loop1"
  BY DEF Init, Loading, Files
<1>5. \A p \in Files : ~disk[p].intact /\ disk[p].stale = {}
  BY DEF Init, NoFile
<1>6. QED
  BY <1>1, <1>3, <1>4, <1>5
     DEF IInv, FilesRight, LoadedRight, BehindFinal, Refreshed, DiskVaiFresh

\* Every step keeps the inductive invariant.
LEMMA StepIInv == IInv /\ [Next]_vars => IInv'
<1> SUFFICES ASSUME IInv, [Next]_vars PROVE IInv'
  OBVIOUS
<1>t. TypeOK /\ TypeOK' /\ FinalKnown
  BY StepTypes DEF IInv
<1> DEFINE Rest == /\ FinalKnown /\ FilesRight /\ LoadedRight
                   /\ BehindFinal /\ Refreshed /\ DiskVaiFresh
<1>r. Rest
  BY DEF IInv
<1>s. Files \subseteq Parts /\ Files \subseteq Loading
  BY DEF Parts, Loading
<1>1. ASSUME \/ \E c \in Contents : Mine(c)
             \/ \E k \in 0..MaxHeight : Reorg(k)
      PROVE  Rest'
  <2>1. /\ FinalKnown'
        /\ final <= final'
        /\ \A i \in 1..final : blocks'[i] = blocks[i]
    BY <1>t, <1>1, ChainStep
  <2>2. UNCHANGED <<pc, mem, last_update, target, storage, disk>>
    BY <1>1 DEF Mine, Reorg
  <2>3. FilesRight'
    <3>1. ASSUME NEW p \in Files, disk[p].intact
          PROVE  RightOn(blocks', disk[p].applied, disk[p].last_update)
      <4>1. disk[p].last_update \in Nat
        BY <1>t DEF TypeOK, File
      <4>2. /\ RightOn(blocks, disk[p].applied, disk[p].last_update)
            /\ disk[p].last_update <= final
        BY <1>r, <3>1 DEF FilesRight, BehindFinal
      <4>3. QED
        BY <1>t, <2>1, <4>1, <4>2, FinalStable
    <3>2. QED
      BY <2>2, <3>1 DEF FilesRight
  <2>4. LoadedRight'
    <3>1. ASSUME pc \in Loading, NEW p \in Files
          PROVE  RightOn(blocks', mem[p], last_update)
      <4>1. last_update \in Nat
        BY <1>t DEF TypeOK
      <4>2. RightOn(blocks, mem[p], last_update) /\ last_update <= final
        BY <1>r, <3>1 DEF LoadedRight, BehindFinal
      <4>3. QED
        BY <1>t, <2>1, <4>1, <4>2, FinalStable
    <3>2. QED
      BY <2>2, <3>1 DEF LoadedRight
  <2>5. BehindFinal'
    <3>1. \A p \in Files : disk[p].last_update \in Int
      BY <1>t DEF TypeOK, File
    <3>2. QED
      BY <1>t, <1>r, <2>1, <2>2, <3>1 DEF BehindFinal, TypeOK
  <2>6. QED
    BY <1>r, <2>1, <2>2, <2>3, <2>4, <2>5 DEF Refreshed, DiskVaiFresh
<1>2. ASSUME UNCHANGED <<chainVars, disk>>, pc' \notin Loading PROVE Rest'
  <2>1. pc' # "loop1" /\ pc' \notin Files
    BY <1>2, <1>s DEF Loading
  <2>2. QED
    BY <1>r, <1>2, <2>1
       DEF FinalKnown, FilesRight, LoadedRight, BehindFinal, Refreshed,
           DiskVaiFresh, chainVars
<1>3. ASSUME reload_states PROVE Rest'
  <2>1. \A p \in Files : /\ disk[p].intact
                         /\ disk[p].last_update = disk["users"].last_update
    BY <1>3 DEF reload_states, Files
  <2>2. /\ \A p \in Files : mem'[p] = disk[p].applied
        /\ last_update' = disk["users"].last_update
        /\ pc' = "sync1"
        /\ UNCHANGED <<chainVars, disk>>
    BY <1>3, <1>s DEF reload_states
  <2>3. LoadedRight'
    <3>1. ASSUME NEW p \in Files PROVE RightOn(blocks', mem'[p], last_update')
      <4>1. RightOn(blocks, disk[p].applied, disk[p].last_update)
        BY <1>r, <2>1 DEF FilesRight
      <4>2. blocks' = blocks
        BY <2>2 DEF chainVars
      <4>3. QED
        BY <2>1, <2>2, <4>1, <4>2
    <3>2. QED
      BY <3>1 DEF LoadedRight
  <2>4. last_update' <= final
    <3>1. "users" \in Files
      BY DEF Files
    <3>2. QED
      BY <1>r, <2>1, <2>2, <3>1 DEF BehindFinal
  <2>5. QED
    BY <1>r, <2>2, <2>3, <2>4
       DEF FinalKnown, FilesRight, BehindFinal, Refreshed, DiskVaiFresh,
           chainVars, Files
<1>4. ASSUME reload_from_init PROVE Rest'
  <2>1. /\ \A p \in Files : mem'[p] = <<>>
        /\ last_update' = 0
        /\ pc' = "sync1"
        /\ UNCHANGED <<chainVars, disk>>
    BY <1>4, <1>s DEF reload_from_init
  <2>2. RightOn(blocks, <<>>, 0) /\ 0 <= final
    BY <1>t, NothingIsRight DEF TypeOK
  <2>3. LoadedRight'
    BY <2>1, <2>2 DEF LoadedRight, chainVars
  <2>4. QED
    BY <1>r, <2>1, <2>2, <2>3
       DEF FinalKnown, FilesRight, BehindFinal, Refreshed, DiskVaiFresh,
           chainVars, Files
<1>5. ASSUME NEW p \in SyncPoints, sync_states(p) PROVE Rest'
  <2>1. CASE p = "sync1"
    <3>1. /\ pc = "sync1" /\ pc' = "loop1" /\ target' = Len(blocks) - Delay
          /\ UNCHANGED <<chainVars, mem, last_update, storage, disk>>
      BY <1>5, <2>1 DEF sync_states, LoopOf
    <3>2. Len(blocks) - Delay <= final
      BY <1>t DEF TypeOK, FinalKnown
    <3>3. pc \in Loading /\ pc' \notin Files
      BY <3>1 DEF Loading, Files
    <3>4. LoadedRight' /\ last_update' <= final'
      BY <1>r, <3>1, <3>3 DEF LoadedRight, BehindFinal, chainVars
    <3>5. QED
      BY <1>r, <3>1, <3>2, <3>3, <3>4
         DEF FinalKnown, FilesRight, BehindFinal, Refreshed, DiskVaiFresh,
             chainVars
  <2>2. CASE p # "sync1"
    <3>1. LoopOf[p] \notin Loading
      BY <2>2 DEF SyncPoints, LoopOf, Loading, Files
    <3>2. QED
      BY <1>2, <1>5, <3>1 DEF sync_states
  <2>3. QED
    BY <2>1, <2>2
<1>6. ASSUME NEW p \in Loops, query_events_loop_liq(p) PROVE Rest'
  <2>1. CASE p = "loop1"
    <3> DEFINE to_block == min(last_update + ChunkSize, target)
    <3>1. /\ last_update \in Nat /\ target \in Int /\ final \in Nat
          /\ blocks \in Seq(Contents) /\ Len(blocks) \in Nat
      BY <1>t DEF TypeOK
    <3>2. pc = "loop1" /\ last_update < target
      BY <1>6, <2>1 DEF query_events_loop_liq
    <3>3. target <= final /\ final <= Len(blocks)
      BY <1>r, <3>2 DEF BehindFinal, FinalKnown
    <3>4. to_block \in Nat /\ last_update <= to_block /\ to_block <= target
      BY <3>1, <3>2, ChunkEnd
    <3>5. to_block <= Len(blocks) /\ min(to_block, Len(blocks)) = to_block
      <4> HIDE DEF to_block
      <4>1. to_block <= Len(blocks)
        BY <3>1, <3>3, <3>4
      <4>2. QED
        BY <3>1, <3>4, <4>1 DEF min
    <3> HIDE DEF to_block
    <3>6. /\ \A q \in Parts : mem'[q] = mem[q] \o Logs(last_update + 1, to_block)
          /\ last_update' = to_block
          /\ UNCHANGED <<chainVars, pc, target, disk>>
      BY <1>6, <3>5 DEF query_events_loop_liq, to_block
    <3>7. LoadedRight'
      <4>1. ASSUME NEW q \in Files PROVE RightOn(blocks', mem'[q], last_update')
        <5>1. mem[q] \in Seq(Applied)
          BY <1>s, <1>t DEF TypeOK
        <5>2. RightOn(blocks, mem[q], last_update)
          BY <1>r, <3>2 DEF LoadedRight, Loading
        <5>3. RightOn(blocks, mem[q] \o LogsOn(blocks, last_update + 1, to_block),
                      to_block)
          BY <3>1, <3>4, <3>5, <5>1, <5>2, ReplayIsRight
        <5>4. mem'[q] = mem[q] \o LogsOn(blocks, last_update + 1, to_block)
          BY <1>s, <3>6, LogsOnBlocks, Zenon DEF Parts
        <5>5. QED
          BY <3>6, <5>3, <5>4 DEF chainVars
      <4>2. QED
        BY <4>1 DEF LoadedRight
    <3>8. BehindFinal'
      BY <1>r, <3>1, <3>3, <3>4, <3>6 DEF BehindFinal, chainVars
    <3>9. pc' \notin Files
      BY <3>2, <3>6 DEF Files
    <3>10. QED
      BY <1>r, <3>6, <3>7, <3>8, <3>9
         DEF FinalKnown, FilesRight, Refreshed, DiskVaiFresh, chainVars
  <2>2. CASE p # "loop1"
    <3>1. pc' \notin Loading
      BY <1>6, <2>2 DEF query_events_loop_liq, Loops, Loading, Files
    <3>2. UNCHANGED <<chainVars, disk>>
      BY <1>6 DEF query_events_loop_liq
    <3>3. QED
      BY <1>2, <3>1, <3>2
  <2>3. QED
    BY <2>1, <2>2
<1>14. ASSUME update_raises PROVE Rest'
  <2> DEFINE to_block == min(last_update + ChunkSize, target)
  <2>1. /\ last_update \in Nat /\ target \in Int
        /\ blocks \in Seq(Contents) /\ Len(blocks) \in Nat
    BY <1>t DEF TypeOK
  <2>2. /\ pc = "loop1" /\ pc' = "vai" /\ last_update < target
        /\ UNCHANGED <<chainVars, last_update, disk>>
    BY <1>14 DEF update_raises
  <2>3. to_block \in Nat
    BY <2>1, <2>2, ChunkEnd
  <2>4. PICK k \in last_update + 1 .. min(to_block, Len(blocks)) :
          mem' = [q \in Parts |->
                   mem[q] \o Append(Logs(last_update + 1, k - 1), CutLog(k))]
    BY <1>14 DEF update_raises
  <2>5. k \in Nat /\ last_update < k /\ k <= Len(blocks)
    <3> HIDE DEF to_block
    <3>1. min(to_block, Len(blocks)) <= Len(blocks)
          /\ min(to_block, Len(blocks)) \in Int
      BY <2>1, <2>3 DEF min
    <3>2. QED
      BY <2>1, <3>1
  <2>6. LoadedRight'
    <3>1. ASSUME NEW q \in Files PROVE RightOn(blocks', mem'[q], last_update')
      <4>1. mem[q] \in Seq(Applied)
        BY <1>s, <1>t DEF TypeOK
      <4>2. RightOn(blocks, mem[q], last_update)
        BY <1>r, <2>2 DEF LoadedRight, Loading
      <4>3. RightOn(blocks, mem[q] \o CutOn(blocks, last_update, k), last_update)
        BY <2>1, <2>5, <4>1, <4>2, CutIsRight
      <4>4. mem'[q] = mem[q] \o CutOn(blocks, last_update, k)
        BY <1>s, <2>1, <2>4, <2>5, LogsOnBlocks, Zenon DEF Parts
      <4>5. QED
        BY <2>2, <4>3, <4>4 DEF chainVars
    <3>2. QED
      BY <3>1 DEF LoadedRight
  <2>7. pc \in Loading /\ pc' \notin Files
    BY <2>2 DEF Loading, Files
  <2>8. QED
    BY <1>r, <2>2, <2>6, <2>7
       DEF FinalKnown, FilesRight, BehindFinal, Refreshed, DiskVaiFresh,
           chainVars
<1>7. ASSUME \/ sync_done("loop1")
             \/ sync_failed
      PROVE  Rest'
  <2>1. /\ pc \in Loading /\ pc' = "vai"
        /\ UNCHANGED <<chainVars, mem, last_update, storage, disk>>
    BY <1>7 DEF sync_done, sync_failed, AfterLoop, Loading
  <2>2. pc' \notin Files /\ pc' # "loop1"
    BY <2>1 DEF Files
  <2>3. LoadedRight' /\ last_update' <= final'
    BY <1>r, <2>1 DEF LoadedRight, BehindFinal, chainVars
  <2>4. QED
    BY <1>r, <2>1, <2>2, <2>3
       DEF FinalKnown, FilesRight, BehindFinal, Refreshed, DiskVaiFresh,
           chainVars
<1>8. ASSUME NEW p \in Loops, p # "loop1", sync_done(p) PROVE Rest'
  <2>1. AfterLoop[p] \notin Loading
    BY <1>8 DEF Loops, AfterLoop, Loading, Files
  <2>2. QED
    BY <1>2, <1>8, <2>1 DEF sync_done
<1>9. ASSUME vai_repay PROVE Rest'
  <2>1. /\ pc \in Loading /\ pc' = "users" /\ storage' = {}
        /\ UNCHANGED <<chainVars, mem, last_update, disk>>
    BY <1>9 DEF vai_repay, Loading
  <2>2. LoadedRight' /\ last_update' <= final'
    BY <1>r, <2>1 DEF LoadedRight, BehindFinal, chainVars
  <2>3. QED
    BY <1>r, <2>1, <2>2
       DEF FinalKnown, FilesRight, BehindFinal, Refreshed, DiskVaiFresh,
           chainVars
<1>10. ASSUME NEW p \in Files, cache(p) PROVE Rest'
  <2>1. /\ pc = p /\ pc \in Loading /\ pc' = AfterFile[p]
        /\ UNCHANGED <<chainVars, mem, last_update, storage>>
    BY <1>10 DEF cache, Loading
  <2>2. pc' # "loop1" /\ storage = {}
    BY <1>r, <2>1 DEF Refreshed, AfterFile, Files
  <2>3. /\ disk'[p].intact /\ disk'[p].applied = mem[p]
        /\ disk'[p].last_update = last_update /\ disk'[p].stale = {}
        /\ \A q \in Files \ {p} : disk'[q] = disk[q]
    BY <1>t, <1>10, <2>2 DEF cache, TypeOK
  <2>4. RightOn(blocks, mem[p], last_update) /\ last_update <= final
    BY <1>r, <2>1 DEF LoadedRight, BehindFinal
  <2>5. FilesRight'
    <3>1. \A q \in Files : disk'[q].intact =>
                   RightOn(blocks, disk'[q].applied, disk'[q].last_update)
      BY <1>r, <2>3, <2>4 DEF FilesRight
    <3>2. QED
      BY <2>1, <3>1 DEF FilesRight, chainVars
  <2>6. LoadedRight'
    BY <1>r, <2>1 DEF LoadedRight, chainVars
  <2>7. BehindFinal'
    BY <1>r, <2>1, <2>2, <2>3, <2>4 DEF BehindFinal, chainVars
  <2>8. DiskVaiFresh'
    BY <1>r, <2>3 DEF DiskVaiFresh
  <2>9. QED
    BY <1>r, <2>1, <2>2, <2>5, <2>6, <2>7, <2>8
       DEF FinalKnown, Refreshed, chainVars
<1>11. ASSUME main PROVE Rest'
  <2>1. "live" \notin Loading
    BY DEF Loading, Files
  <2>2. QED
    BY <1>2, <1>11, <2>1 DEF main
<1>12. ASSUME Crash PROVE Rest'
  <2>1. pc' = "down" /\ pc' \notin Loading /\ pc' \notin Files
    BY <1>12 DEF Crash, Loading, Files
  <2>2. \A p \in Files : disk'[p] = disk[p] \/ disk'[p] = NoFile
    BY <1>t, <1>12 DEF Crash, TypeOK
  <2>3. UNCHANGED chainVars
    BY <1>12 DEF Crash
  <2>4. ~NoFile.intact /\ NoFile.stale = {}
    BY DEF NoFile
  <2>5. \A p \in Files : disk'[p].intact => disk'[p] = disk[p]
    BY <2>2, <2>4
  <2>6. FilesRight'
    BY <1>r, <2>3, <2>5 DEF FilesRight, chainVars
  <2>7. BehindFinal'
    BY <1>r, <2>1, <2>3, <2>5 DEF BehindFinal, chainVars
  <2>8. DiskVaiFresh'
    BY <1>r, <2>2, <2>4 DEF DiskVaiFresh
  <2>9. QED
    BY <1>r, <2>1, <2>3, <2>6, <2>7, <2>8
       DEF FinalKnown, LoadedRight, Refreshed, chainVars
<1>13. ASSUME UNCHANGED vars PROVE Rest'
  BY <1>r, <1>13
     DEF vars, FinalKnown, FilesRight, LoadedRight, BehindFinal, Refreshed,
         DiskVaiFresh
<1>15. Rest'
  BY <1>1, <1>3, <1>4, <1>5, <1>6, <1>7, <1>8, <1>9, <1>10, <1>11, <1>12,
     <1>13, <1>14 DEF Next
<1>16. QED
  BY <1>t, <1>15 DEF IInv

\* The inductive invariant holds throughout.
LEMMA Invariance == Spec => []IInv
BY InitIInv, StepIInv, PTL DEF Spec

\* Whatever crashes, failed queries and reorganisations there were, a file
\* that reload_states can read holds the canonical chain up to its lastUpdate,
\* unless an exception of update was swallowed in a run that it comes from.
THEOREM FilesCanonical == Spec => []DiskCanonical
<1>1. IInv => DiskCanonical
  BY RightOnBlocks DEF IInv, FilesRight, DiskCanonical
<1>2. QED
  BY <1>1, Invariance, PTL

\* Every VAI event in a file's blocks was followed by a query before the file
\* was written.
THEOREM FilesVaiFresh == Spec => []DiskVaiFresh
BY Invariance, PTL DEF IInv

-----------------------------------------------------------------------------
(* Until the chain reorganises the mirror stays right *)

\* The mirror of a process under which the chain has only grown.
MirrorRight ==
    pc # "down" /\ ~reorged
        => \A p \in Files : RightOn(blocks, mem[p], last_update)

\* A running sync never looks beyond the head.
TargetInChain == pc \in Loops /\ ~reorged => target <= Len(blocks)

\* Every step keeps the mirror right while the chain only grows.
LEMMA StepMirror ==
    IInv /\ IInv' /\ MirrorRight /\ TargetInChain /\ [Next]_vars
        => MirrorRight' /\ TargetInChain'
<1> SUFFICES ASSUME IInv, IInv', MirrorRight, TargetInChain, [Next]_vars
             PROVE  MirrorRight' /\ TargetInChain'
  OBVIOUS
<1>t. /\ TypeOK /\ TypeOK' /\ blocks \in Seq(Contents)
      /\ Len(blocks) \in Nat /\ last_update \in Nat /\ target \in Int
      /\ Files \subseteq Parts
  BY DEF IInv, TypeOK, Parts
<1>0. ASSUME pc' = "down" PROVE MirrorRight' /\ TargetInChain'
  BY <1>0 DEF MirrorRight, TargetInChain, Loops
<1>r. ASSUME reorged' PROVE MirrorRight' /\ TargetInChain'
  BY <1>r DEF MirrorRight, TargetInChain
<1>1. ASSUME NEW c \in Contents, Mine(c) PROVE MirrorRight' /\ TargetInChain'
  <2>1. UNCHANGED <<pc, mem, last_update, target, reorged>>
    BY <1>1 DEF Mine
  <2>2. /\ Len(blocks') = Len(blocks) + 1
        /\ \A i \in 1..Len(blocks) : blocks'[i] = blocks[i]
    BY <1>1, AppendProperties DEF Mine, IInv, TypeOK
  <2>3. ASSUME pc # "down", ~reorged, NEW p \in Files
        PROVE  RightOn(blocks', mem[p], last_update)
    <3>1. RightOn(blocks, mem[p], last_update)
      BY <2>3 DEF MirrorRight
    <3>2. last_update <= Len(blocks)
      BY <3>1 DEF RightOn
    <3>3. /\ last_update <= Len(blocks')
          /\ \A i \in 1..last_update : blocks'[i] = blocks[i]
      BY <1>t, <2>2, <3>2
    <3>4. QED
      BY <1>t, <3>1, <3>3, RightStable
  <2>4. MirrorRight'
    BY <2>1, <2>3 DEF MirrorRight
  <2>5. pc \in Loops /\ ~reorged => target <= Len(blocks')
    BY <1>t, <2>2 DEF TargetInChain
  <2>6. TargetInChain'
    BY <2>1, <2>5 DEF TargetInChain
  <2>7. QED
    BY <2>4, <2>6
<1>R. ASSUME NEW k \in 0..MaxHeight, Reorg(k)
      PROVE  MirrorRight' /\ TargetInChain'
  <2>1. reorged' \/ pc' = "down"
    BY <1>R DEF Reorg
  <2>2. QED
    BY <1>0, <1>r, <2>1
<1>2. ASSUME pc' \in Loading \ Loops PROVE MirrorRight' /\ TargetInChain'
  BY <1>2 DEF IInv, LoadedRight, MirrorRight, TargetInChain
<1>3. ASSUME UNCHANGED <<chainVars, mem, last_update, reorged>>, pc # "down",
             pc' \notin Loops
      PROVE  MirrorRight' /\ TargetInChain'
  BY <1>3 DEF MirrorRight, TargetInChain, chainVars
<1>4. ASSUME reload_states \/ reload_from_init \/ update_raises
      PROVE  MirrorRight' /\ TargetInChain'
  <2>1. pc' \in Loading \ Loops
    BY <1>4 DEF reload_states, reload_from_init, update_raises, Loading, Loops
  <2>2. QED
    BY <1>2, <2>1
<1>5. ASSUME NEW p \in SyncPoints, sync_states(p)
      PROVE  MirrorRight' /\ TargetInChain'
  <2>1. /\ pc # "down" /\ target' <= Len(blocks)
        /\ UNCHANGED <<chainVars, mem, last_update, reorged>>
    BY <1>t, <1>5 DEF sync_states, SyncPoints
  <2>2. QED
    BY <2>1 DEF MirrorRight, TargetInChain, chainVars
<1>6. ASSUME NEW p \in Loops, query_events_loop_liq(p)
      PROVE  MirrorRight' /\ TargetInChain'
  <2> DEFINE to_block == min(last_update + ChunkSize, target)
  <2>1. /\ pc \in Loops /\ pc # "down" /\ last_update < target
        /\ UNCHANGED <<chainVars, pc, target, reorged>>
    BY <1>6 DEF query_events_loop_liq, Loops
  <2> SUFFICES ASSUME ~reorged PROVE MirrorRight' /\ TargetInChain'
    BY <1>r, <2>1
  <2>2. target <= Len(blocks)
    BY <2>1 DEF TargetInChain
  <2>3. to_block \in Nat /\ last_update <= to_block /\ to_block <= target
    BY <1>t, <2>1, ChunkEnd
  <2>4. to_block <= Len(blocks) /\ min(to_block, Len(blocks)) = to_block
    <3> HIDE DEF to_block
    <3>1. to_block <= Len(blocks)
      BY <1>t, <2>2, <2>3
    <3>2. QED
      BY <1>t, <2>3, <3>1 DEF min
  <2> HIDE DEF to_block
  <2>5. /\ \A q \in Parts : mem'[q] = mem[q] \o Logs(last_update + 1, to_block)
        /\ last_update' = to_block
    BY <1>6, <2>4 DEF query_events_loop_liq, to_block
  <2>6. ASSUME NEW q \in Files PROVE RightOn(blocks', mem'[q], last_update')
    <3>1. mem[q] \in Seq(Applied)
      BY <1>t DEF TypeOK
    <3>2. RightOn(blocks, mem[q], last_update)
      BY <2>1 DEF MirrorRight
    <3>3. RightOn(blocks, mem[q] \o LogsOn(blocks, last_update + 1, to_block),
                  to_block)
      BY <1>t, <2>3, <2>4, <3>1, <3>2, ReplayIsRight
    <3>4. mem'[q] = mem[q] \o LogsOn(blocks, last_update + 1, to_block)
      BY <2>5, LogsOnBlocks, Zenon DEF Parts
    <3>5. QED
      BY <2>1, <2>5, <3>3, <3>4 DEF chainVars
  <2>7. QED
    BY <2>1, <2>2, <2>6 DEF MirrorRight, TargetInChain, chainVars
<1>7. ASSUME NEW p \in Loops, sync_done(p) PROVE MirrorRight' /\ TargetInChain'
  <2>1. /\ pc # "down" /\ pc' \notin Loops
        /\ UNCHANGED <<chainVars, mem, last_update, reorged>>
    BY <1>7 DEF sync_done, AfterLoop, Loops
  <2>2. QED
    BY <1>3, <2>1
<1>8. ASSUME \/ sync_failed
             \/ vai_repay
             \/ main
      PROVE  MirrorRight' /\ TargetInChain'
  <2>1. /\ pc # "down" /\ pc' \notin Loops
        /\ UNCHANGED <<chainVars, mem, last_update, reorged>>
    BY <1>8 DEF sync_failed, vai_repay, main, Loops
  <2>2. QED
    BY <1>3, <2>1
<1>9. ASSUME NEW p \in Files, cache(p) PROVE MirrorRight' /\ TargetInChain'
  <2>1. /\ pc # "down" /\ pc' \notin Loops
        /\ UNCHANGED <<chainVars, mem, last_update, reorged>>
    BY <1>9 DEF cache, AfterFile, Files, Loops
  <2>2. QED
    BY <1>3, <2>1
<1>10. ASSUME Crash PROVE MirrorRight' /\ TargetInChain'
  BY <1>0, <1>10 DEF Crash
<1>11. ASSUME UNCHANGED vars PROVE MirrorRight' /\ TargetInChain'
  BY <1>11 DEF vars, MirrorRight, TargetInChain
<1>12. QED
  BY <1>1, <1>R, <1>4, <1>5, <1>6, <1>7, <1>8, <1>9, <1>10, <1>11 DEF Next

\* The mirror stays right for the whole of a run.
LEMMA MirrorInvariance == Spec => [](MirrorRight /\ TargetInChain)
<1>1. Init => MirrorRight /\ TargetInChain
  BY DEF Init, MirrorRight, TargetInChain, Loops
<1>2. QED
  BY <1>1, StepMirror, Invariance, PTL DEF Spec

\* Until the files are written, and after that as long as the chain does not
\* reorganise under the running process, the parts of the mirror that have a file
\* are exact at last_update unless an exception of update was swallowed.
THEOREM MirrorStaysExact == Spec => []MirrorExact
<1>1. IInv /\ MirrorRight => MirrorExact
  BY RightOnBlocks DEF IInv, LoadedRight, MirrorRight, MirrorExact
<1>2. QED
  BY <1>1, Invariance, MirrorInvariance, PTL

\* Also when exceptions were swallowed, and logs applied again after them, what
\* logs assign is right: in every file, and in the mirror.
THEOREM AssignedDataRight == Spec => []AssignedRight
<1>1. IInv /\ MirrorRight => AssignedRight
  BY RightOnBlocks DEF IInv, FilesRight, LoadedRight, MirrorRight, AssignedRight
<1>2. QED
  BY <1>1, Invariance, MirrorInvariance, PTL

-----------------------------------------------------------------------------
(* Why StartupEnds holds, without the fairness it needs: a start cannot      *)
(* chase the head                                                            *)

\* The program points in the order in which a start comes to them.
Ahead == [sync1 |-> 12, loop1 |-> 11, vai |-> 10, users |-> 9, risks |-> 8,
          balances |-> 7, sync2 |-> 6, loop2 |-> 5, sync3 |-> 4, loop3 |-> 3,
          main |-> 2, live |-> 1, down |-> 0]

\* The blocks that the loop at hand has still to ask for.
ToAsk == IF pc \in Loops /\ last_update < target THEN target - last_update ELSE 0

\* A step of a process that has started comes nearer to its end: it goes on to a
\* later point or asks for blocks of a range that does not grow.  A step of the
\* chain takes nothing away from that.
NearsEnd ==
    pc # "down" =>
        \/ Ahead[pc'] < Ahead[pc]
        \/ pc' = pc /\ ToAsk' < ToAsk
        \/ pc' = pc /\ ToAsk' = ToAsk /\ blocks' # blocks

\* The measure is one of naturals.
LEMMA MeasureNat == TypeOK => Ahead[pc] \in Nat /\ ToAsk \in Nat
<1> SUFFICES ASSUME TypeOK PROVE Ahead[pc] \in Nat /\ ToAsk \in Nat
  OBVIOUS
<1>1. Ahead[pc] \in Nat
  BY DEF TypeOK, Points, Files, SyncPoints, Loops, Ahead
<1>2. ToAsk \in Nat
  BY DEF TypeOK, ToAsk
<1> QED
  BY <1>1, <1>2

\* Every step of the process lowers it.
LEMMA StepNears == TypeOK /\ Next => NearsEnd
<1> SUFFICES ASSUME TypeOK, Next, pc # "down" PROVE NearsEnd
  BY DEF NearsEnd
<1>1. ASSUME NEW c \in Contents, Mine(c) PROVE NearsEnd
  <2>1. blocks' = Append(blocks, c) /\ blocks \in Seq(Contents)
    BY <1>1 DEF Mine, TypeOK
  <2>2. blocks' # blocks
    <3>1. Len(blocks') = Len(blocks) + 1 /\ Len(blocks) \in Nat
      BY <2>1
    <3> QED
      BY <3>1
  <2> QED
    BY <1>1, <2>2 DEF Mine, NearsEnd, ToAsk
<1>2. ASSUME NEW k \in 0..MaxHeight, Reorg(k) PROVE NearsEnd
  <2>1. blocks' = SubSeq(blocks, 1, k) /\ blocks \in Seq(Contents) /\ k < Len(blocks)
        /\ k \in Nat
    BY <1>2 DEF Reorg, TypeOK
  <2>2. Len(blocks') = k
    BY <2>1, SubSeqProperties
  <2>3. blocks' # blocks
    BY <2>1, <2>2
  <2> QED
    BY <1>2, <2>3 DEF Reorg, NearsEnd, ToAsk
<1>3. CASE reload_states \/ reload_from_init
  BY <1>3 DEF reload_states, reload_from_init
<1>4. ASSUME NEW p \in SyncPoints, sync_states(p) PROVE NearsEnd
  BY <1>4 DEF sync_states, SyncPoints, LoopOf, Ahead, NearsEnd
<1>5. ASSUME NEW p \in Loops, query_events_loop_liq(p) PROVE NearsEnd
  <2>1. /\ pc = p /\ pc' = p /\ last_update < target /\ target' = target
        /\ last_update' = min(last_update + ChunkSize, target)
    BY <1>5 DEF query_events_loop_liq
  <2>2. last_update \in Nat /\ target \in Int
    BY DEF TypeOK
  <2>3. PICK n : n = last_update'
    OBVIOUS
  <2>4. n \in Int /\ n > last_update /\ n <= target
    BY <2>1, <2>2, <2>3 DEF min
  <2>5. ToAsk = target - last_update /\ ToAsk' = IF n < target THEN target - n ELSE 0
    BY <2>1, <2>3 DEF ToAsk
  <2>6. ToAsk' < ToAsk
    <3>1. CASE n < target
      <4>1. ToAsk' = target - n
        BY <2>5, <3>1
      <4> QED
        BY <4>1, <2>2, <2>4, <2>5
    <3>2. CASE ~ (n < target)
      <4>1. ToAsk' = 0
        BY <2>5, <3>2
      <4>2. target - last_update > 0
        BY <2>1, <2>2
      <4> QED
        BY <4>1, <4>2, <2>5
    <3> QED
      BY <3>1, <3>2
  <2> QED
    BY <2>1, <2>6 DEF NearsEnd
<1>6. ASSUME NEW p \in Loops, sync_done(p) PROVE NearsEnd
  BY <1>6 DEF sync_done, Loops, AfterLoop, Ahead, NearsEnd
<1>12. CASE update_raises
  BY <1>12 DEF update_raises, Ahead, NearsEnd
<1>7. CASE sync_failed
  BY <1>7 DEF sync_failed, Ahead, NearsEnd
<1>8. CASE vai_repay
  BY <1>8 DEF vai_repay, Ahead, NearsEnd
<1>9. ASSUME NEW p \in Files, cache(p) PROVE NearsEnd
  BY <1>9 DEF cache, Files, AfterFile, Ahead, NearsEnd
<1>10. CASE main
  BY <1>10 DEF main, Ahead, NearsEnd
<1>11. CASE Crash
  BY <1>11 DEF Crash, TypeOK, Points, Files, SyncPoints, Loops, Ahead, NearsEnd
<1> QED
  BY <1>1, <1>2, <1>3, <1>4, <1>5, <1>6, <1>7, <1>8, <1>9, <1>10, <1>11, <1>12
     DEF Next

\* However the chain grows or reorganises meanwhile, a start has a bounded number of
\* steps left at every point: the height is asked for once per sync_states
\* (users.py:605), so that no loop of query_events_loop_liq runs after the head.
THEOREM StartBounded ==
    /\ Spec => [](Ahead[pc] \in Nat /\ ToAsk \in Nat)
    /\ Spec => [][NearsEnd]_vars
<1>1. TypeOK /\ [Next]_vars => [NearsEnd]_vars
  BY StepNears
<1> QED
  BY <1>1, MeasureNat, TypeCorrect, PTL DEF Spec
=============================================================================
