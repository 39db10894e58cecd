----------------------------- MODULE LoopProofs -----------------------------
(***************************************************************************)
(* Proof that the loop of the PIM scheduler, which compares a candidate    *)
(* with one request after the other, finds the request that module         *)
(* PIMScheduler names, whatever the buffer holds and whatever is ready.    *)
(***************************************************************************)
EXTENDS PIMSchedulerLoop, SequenceTheorems, Induction

-----------------------------------------------------------------------------
(* The loop. *)

\* The candidate after request n, if it was c before.
Advance(b, c, n) ==
  IF \/ ~ \E k \in 2 .. n : b[k].cmd = "BARRIER"
     \/ get_preq_command(Open, b[n]) \in Opening \cup Closing
  THEN compare(b, c, n) ELSE c

\* f gives the candidates after each of the first m requests.
Candidates(f, b, m) ==
  f = [n \in 1 .. m |-> IF n = 1 THEN 1 ELSE Advance(b, f[n - 1], n)]

LEMMA CandidatesExist ==
  ASSUME NEW b
  PROVE  \A m \in Nat : \E f : Candidates(f, b, m)
<1> DEFINE T == {m \in Nat : \E f : Candidates(f, b, m)}
<1>1. 0 \in T
  <2>1. Candidates([n \in 1 .. 0 |-> 1], b, 0)
    BY DEF Candidates
  <2> QED BY <2>1
<1>2. ASSUME NEW m \in Nat, m \in T PROVE m + 1 \in T
  <2>1. PICK f : Candidates(f, b, m)
    BY <1>2
  <2> DEFINE value(n) == IF n = 1 THEN 1 ELSE Advance(b, f[n - 1], n)
             g == [n \in 1 .. m + 1 |-> value(n)]
  <2>2. \A n \in 1 .. m : g[n] = f[n]
    BY <2>1 DEF Candidates
  <2>3. ASSUME NEW n \in 1 .. m + 1 PROVE g[n] = IF n = 1 THEN 1 ELSE Advance(b, g[n - 1], n)
    <3>1. CASE n = 1
      BY <3>1
    <3>2. CASE n # 1
      <4>1. n - 1 \in 1 .. m
        BY <3>2
      <4>2. g[n - 1] = f[n - 1]
        BY <2>2, <4>1
      <4>3. g[n] = Advance(b, f[n - 1], n)
        BY <3>2
      <4> HIDE DEF g
      <4> QED BY <3>2, <4>2, <4>3
    <3> QED BY <3>1, <3>2
  <2>4. g = [n \in 1 .. m + 1 |-> g[n]]
    OBVIOUS
  <2> HIDE DEF g
  <2>5. Candidates(g, b, m + 1)
    BY <2>3, <2>4 DEF Candidates
  <2> QED BY <2>5
<1> HIDE DEF T
<1>3. Nat \subseteq T
  BY <1>1, <1>2, SetInduction
<1> QED BY <1>3 DEF T

LEMMA CandidateOfLoop ==
  ASSUME NEW b, Len(b) \in Nat
  PROVE  \E f : Candidates(f, b, Len(b)) /\ candidate(b) = f[Len(b)]
<1> DEFINE after == CHOOSE f : Candidates(f, b, Len(b))
<1>1. Candidates(after, b, Len(b))
  BY CandidatesExist
<1>2. candidate(b) = after[Len(b)]
  BY DEF candidate, Candidates, Advance
<1> QED BY <1>1, <1>2

-----------------------------------------------------------------------------
(* What the loop has found after n requests: those that take over among    *)
(* them, and the first of those that compete with the candidate c.         *)

Ready(b, k) == check_ready(Open, ready, b[k])
Taken(b, n) == {t \in TakesOver(Open, ready, b) : t <= n}

Found(b, n, c) ==
  /\ c \in Compared(Open, b) /\ c <= n
  /\ Taken(b, n) = {} =>
       /\ ~ Ready(b, c)
       /\ \A k \in Compared(Open, b) : k <= n /\ ~ Ready(b, k) => Wins(b, c, k)
  /\ Taken(b, n) # {} =>
       /\ Ready(b, c)
       /\ \E t \in Taken(b, n) : t <= c
       /\ \A k \in Compared(Open, b) :
            k <= n /\ Ready(b, k) /\ (\E t \in Taken(b, n) : t <= k) => Wins(b, c, k)

\* Requests are compared by the cycle in which they arrived.
Timed(b) ==
  /\ Len(b) \in Nat /\ DOMAIN b = 1 .. Len(b)
  /\ \A k \in 1 .. Len(b) : b[k].arrive \in Int

LEMMA WinsOrder ==
  ASSUME NEW b, Timed(b), NEW x \in 1 .. Len(b), NEW y \in 1 .. Len(b), NEW z \in 1 .. Len(b)
  PROVE  /\ Wins(b, x, x)
         /\ Wins(b, x, y) /\ Wins(b, y, z) => Wins(b, x, z)
         /\ Wins(b, x, y) /\ Wins(b, y, x) => x = y
         /\ x < y => Wins(b, IF b[x].arrive <= b[y].arrive THEN x ELSE y, x)
                     /\ Wins(b, IF b[x].arrive <= b[y].arrive THEN x ELSE y, y)
<1>1. b[x].arrive \in Int /\ b[y].arrive \in Int /\ b[z].arrive \in Int
  BY DEF Timed
<1> QED BY <1>1 DEF Wins

LEMMA FirstFound ==
  ASSUME NEW b, Timed(b), 1 \in 1 .. Len(b)
  PROVE  Found(b, 1, 1)
<1>1. 1 \in Compared(Open, b)
  BY DEF Timed, Compared
<1>2. \A k \in Compared(Open, b) : k <= 1 => k = 1
  BY DEF Timed, Compared
<1>3. Taken(b, 1) = IF Ready(b, 1) THEN {1} ELSE {}
  BY <1>1, <1>2 DEF Taken, TakesOver, Ready
<1>4. Wins(b, 1, 1)
  BY WinsOrder
<1>5. CASE Ready(b, 1)
  BY <1>1, <1>2, <1>3, <1>4, <1>5 DEF Found
<1>6. CASE ~ Ready(b, 1)
  BY <1>1, <1>2, <1>3, <1>4, <1>6 DEF Found
<1> QED BY <1>5, <1>6

LEMMA NextFound ==
  ASSUME NEW b, Timed(b), NEW n \in 2 .. Len(b), NEW c, Found(b, n - 1, c)
  PROVE  Found(b, n, Advance(b, c, n))
<1> DEFINE C == Compared(Open, b)
           guarded == ~ IsHit(Open, b[n]) /\ b[n].bank \in rowhit_list(Open, b)
<1>1. /\ C \subseteq 1 .. Len(b) /\ TakesOver(Open, ready, b) \subseteq C
      /\ c \in C /\ c < n /\ c \in 1 .. Len(b)
  BY DEF Found, Compared, TakesOver, Timed
<1>2. \A k \in C : k <= n <=> k <= n - 1 \/ k = n
  BY <1>1
<1>3. n \in C <=> \/ ~ \E k \in 2 .. n : b[k].cmd = "BARRIER"
                  \/ get_preq_command(Open, b[n]) \in Opening \cup Closing
  BY DEF Compared, Timed
<1>4. n \in TakesOver(Open, ready, b) <=> n \in C /\ Ready(b, n) /\ ~ guarded
  BY DEF TakesOver, Ready
<1>5. /\ \A t \in Taken(b, n - 1) : t \in Taken(b, n)
      /\ \A t \in Taken(b, n) : t \in Taken(b, n - 1) \/ (t = n /\ n \in TakesOver(Open, ready, b))
      /\ n \in TakesOver(Open, ready, b) => n \in Taken(b, n)
      /\ \A t \in Taken(b, n) : t \in C
      /\ \A t \in Taken(b, n - 1) : t < n
  BY <1>1, <1>2 DEF Taken
<1>6. Advance(b, c, n) =
        IF n \notin C THEN c
        ELSE IF Ready(b, c) # Ready(b, n) THEN (IF Ready(b, c) \/ guarded THEN c ELSE n)
        ELSE IF b[c].arrive <= b[n].arrive THEN c ELSE n
  BY <1>3 DEF Advance, compare, Ready
<1> HIDE DEF C, guarded
<1>7. Ready(b, c) \in BOOLEAN /\ Ready(b, n) \in BOOLEAN
  BY DEF Ready, check_ready
<1>8. CASE n \notin C
  <2>1. Taken(b, n) = Taken(b, n - 1) /\ Advance(b, c, n) = c
    BY <1>4, <1>5, <1>6, <1>8
  <2> QED BY <1>1, <1>2, <1>8, <2>1 DEF Found, C
<1>9. CASE n \in C /\ Taken(b, n - 1) = {} /\ ~ Ready(b, n)
  <2>1. Taken(b, n) = {} /\ ~ Ready(b, c)
    BY <1>4, <1>5, <1>9 DEF Found
  <2>2. Advance(b, c, n) = IF b[c].arrive <= b[n].arrive THEN c ELSE n
    BY <1>6, <1>7, <1>9, <2>1
  <2> DEFINE d == Advance(b, c, n)
  <2>3. d \in {c, n} /\ Wins(b, d, c) /\ Wins(b, d, n)
    BY <1>1, <2>2, WinsOrder
  <2> HIDE DEF d
  <2>4. ASSUME NEW k \in C, k <= n, ~ Ready(b, k) PROVE Wins(b, d, k)
    <3>1. CASE k = n
      BY <2>3, <3>1
    <3>2. CASE k <= n - 1
      <4>1. Wins(b, c, k)
        BY <1>9, <2>4, <3>2 DEF Found, C
      <4> QED BY <1>1, <2>3, <4>1, WinsOrder
    <3> QED BY <1>2, <2>4, <3>1, <3>2
  <2> QED BY <1>1, <1>9, <2>1, <2>3, <2>4 DEF Found, C, d
<1>10. CASE n \in C /\ Taken(b, n - 1) = {} /\ Ready(b, n) /\ guarded
  <2>1. Taken(b, n) = {} /\ ~ Ready(b, c)
    BY <1>4, <1>5, <1>10 DEF Found
  <2>2. Advance(b, c, n) = c
    BY <1>6, <1>7, <1>10, <2>1
  <2> QED BY <1>1, <1>2, <1>10, <2>1, <2>2 DEF Found, C
<1>11. CASE n \in C /\ Taken(b, n - 1) = {} /\ Ready(b, n) /\ ~ guarded
  <2>1. Taken(b, n) = {n} /\ ~ Ready(b, c)
    BY <1>4, <1>5, <1>11 DEF Found
  <2>2. Advance(b, c, n) = n
    BY <1>6, <1>7, <1>11, <2>1
  <2>3. \A k \in C : k <= n /\ n <= k => k = n
    BY <1>1
  <2>4. Wins(b, n, n)
    BY WinsOrder
  <2> QED BY <1>1, <1>11, <2>1, <2>2, <2>3, <2>4 DEF Found, C
<1>12. CASE n \in C /\ Taken(b, n - 1) # {} /\ ~ Ready(b, n)
  <2>1. Taken(b, n) = Taken(b, n - 1) /\ Ready(b, c)
    BY <1>4, <1>5, <1>12 DEF Found
  <2>2. Advance(b, c, n) = c
    BY <1>6, <1>7, <1>12, <2>1
  <2> QED BY <1>1, <1>2, <1>12, <2>1, <2>2 DEF Found, C
<1>13. CASE n \in C /\ Taken(b, n - 1) # {} /\ Ready(b, n)
  <2>1. PICK t \in Taken(b, n - 1) : t <= c
    BY <1>13 DEF Found
  <2>2. /\ Taken(b, n) # {} /\ Ready(b, c)
        /\ t \in Taken(b, n) /\ t <= c
    BY <1>5, <1>13, <2>1 DEF Found
  <2>3. Advance(b, c, n) = IF b[c].arrive <= b[n].arrive THEN c ELSE n
    BY <1>6, <1>7, <1>13, <2>2
  <2> DEFINE d == Advance(b, c, n)
  <2>4. d \in {c, n} /\ Wins(b, d, c) /\ Wins(b, d, n)
    BY <1>1, <2>3, WinsOrder
  <2> HIDE DEF d
  <2>5. t <= d /\ d <= n
    <3>1. t \in C
      BY <1>5, <2>2
    <3>2. t \in 1 .. Len(b) /\ c \in 1 .. Len(b) /\ c < n
      BY <1>1, <3>1
    <3>3. t <= c
      BY <2>2
    <3> QED BY <2>4, <3>2, <3>3
  <2>6. ASSUME NEW k \in C, k <= n, Ready(b, k), NEW u \in Taken(b, n), u <= k
        PROVE  Wins(b, d, k)
    <3>1. CASE k = n
      BY <2>4, <3>1
    <3>2. CASE k <= n - 1
      <4>1. u \in Taken(b, n - 1)
        BY <1>1, <1>5, <2>6, <3>2
      <4>2. Wins(b, c, k)
        BY <1>13, <2>6, <3>2, <4>1 DEF Found, C
      <4> QED BY <1>1, <2>4, <4>2, WinsOrder
    <3> QED BY <1>2, <2>6, <3>1, <3>2
  <2> QED BY <1>1, <1>13, <2>2, <2>4, <2>5, <2>6 DEF Found, C, d
<1> QED BY <1>8, <1>9, <1>10, <1>11, <1>12, <1>13

LEMMA AllFound ==
  ASSUME NEW b, Timed(b), Len(b) > 0
  PROVE  Found(b, Len(b), candidate(b))
<1>1. Len(b) \in Nat
  BY DEF Timed
<1>2. PICK f : Candidates(f, b, Len(b)) /\ candidate(b) = f[Len(b)]
  BY <1>1, CandidateOfLoop
<1>3. \A n \in 1 .. Len(b) : f[n] = IF n = 1 THEN 1 ELSE Advance(b, f[n - 1], n)
  BY <1>2 DEF Candidates
<1> DEFINE T == {m \in Nat : m \in 1 .. Len(b) => Found(b, m, f[m])}
<1>4. 0 \in T
  OBVIOUS
<1>5. ASSUME NEW m \in Nat, m \in T PROVE m + 1 \in T
  <2> SUFFICES ASSUME m + 1 \in 1 .. Len(b) PROVE Found(b, m + 1, f[m + 1])
    OBVIOUS
  <2>1. CASE m = 0
    <3>1. m + 1 = 1 /\ f[1] = 1 /\ 1 \in 1 .. Len(b)
      BY <1>1, <1>3, <2>1
    <3> QED BY <3>1, FirstFound
  <2>2. CASE m # 0
    <3>1. m \in 1 .. Len(b) /\ m + 1 \in 2 .. Len(b) /\ m + 1 # 1 /\ (m + 1) - 1 = m
      BY <1>1, <2>2
    <3>2. Found(b, (m + 1) - 1, f[m])
      BY <1>5, <3>1
    <3>3. f[m + 1] = Advance(b, f[m], m + 1)
      BY <1>3, <3>1
    <3> QED BY <3>1, <3>2, <3>3, NextFound
  <2> QED BY <2>1, <2>2
<1> HIDE DEF T
<1>6. Nat \subseteq T
  BY <1>4, <1>5, SetInduction
<1>7. Len(b) \in 1 .. Len(b)
  BY <1>1
<1> QED BY <1>1, <1>2, <1>6, <1>7 DEF T

-----------------------------------------------------------------------------
(* The buffer. *)

Entry == {[cmd |-> t.cmd, bank |-> t.bank, row |-> t.row, arrive |-> time] :
            t \in Templates, time \in 0 .. MaxArrive}

LEMMA EntryArrives ==
  ASSUME NEW e \in Entry
  PROVE  e.arrive \in Int
BY DEF Entry

BufferTyped == q \in Seq(Entry)

LEMMA BufferType == Spec => []BufferTyped
<1>1. Init => BufferTyped
  BY DEF Init, BufferTyped
<1>2. BufferTyped /\ [Next]_vars => BufferTyped'
  <2> SUFFICES ASSUME q \in Seq(Entry), [Next]_vars PROVE q' \in Seq(Entry)
    BY DEF BufferTyped
  <2>1. ASSUME NEW t \in Templates, NEW time \in 0 .. MaxArrive, Enqueue(t, time)
        PROVE  q' \in Seq(Entry)
    <3>1. [cmd |-> t.cmd, bank |-> t.bank, row |-> t.row, arrive |-> time] \in Entry
      BY DEF Entry
    <3> QED BY <2>1, <3>1, AppendProperties DEF Enqueue
  <2> QED BY <2>1 DEF Next, vars
<1> QED BY <1>1, <1>2, PTL DEF Spec

\* The loop that compares the candidate with one request after the other
\* finds the request that the choice of PIMScheduler names, although compare
\* is no order: the request that takes over depends on the one that held the
\* place, and a guarded one that is ready is passed over.
THEOREM LoopIsChoice == Spec => []LoopAgrees
<1>1. ASSUME BufferTyped PROVE LoopAgrees
  <2> DEFINE b == DropBarrier(q)
  <2>1. b \in Seq(Entry)
    BY <1>1, HeadTailProperties DEF DropBarrier, BufferTyped
  <2> HIDE DEF b
  <2>2. Timed(b)
    BY <2>1, LenProperties, ElementOfSeq, EntryArrives DEF Timed
  <2>3. CASE b = <<>>
    <3>1. Competing(Open, ready, b) = {}
      BY <2>3 DEF Competing, Compared
    <3> QED BY <2>3, <3>1 DEF LoopAgrees, get_best_request, b
  <2>4. CASE b # <<>>
    <3>1. Len(b) > 0
      BY <2>1, <2>4, EmptySeq, LenProperties
    <3> DEFINE c == candidate(b)
               K == Competing(Open, ready, b)
    <3>2. Found(b, Len(b), c)
      BY <2>2, <3>1, AllFound
    <3> HIDE DEF c
    <3>3. Taken(b, Len(b)) = TakesOver(Open, ready, b)
      BY <2>2 DEF Taken, TakesOver, Compared, Timed
    <3>4. \A k \in Compared(Open, b) : k <= Len(b) /\ k \in 1 .. Len(b)
      BY <2>2 DEF Compared, Timed
    <3>5. c \in K /\ \A k \in K : Wins(b, c, k)
      <4>1. CASE TakesOver(Open, ready, b) = {}
        BY <3>2, <3>3, <3>4, <4>1 DEF Found, Competing, Ready
      <4>2. CASE TakesOver(Open, ready, b) # {}
        BY <3>2, <3>3, <3>4, <4>2 DEF Found, Competing, Ready
      <4> QED BY <4>1, <4>2
    <3>6. K \subseteq 1 .. Len(b)
      BY <3>4 DEF Competing
    <3> HIDE DEF K
    <3>7. {k \in K : \A l \in K : Wins(b, k, l)} = {c}
      BY <2>2, <3>5, <3>6, WinsOrder
    <3> QED BY <2>4, <3>7 DEF LoopAgrees, get_best_request, b, c, K
  <2> QED BY <2>3, <2>4
<1> QED BY <1>1, BufferType, PTL
=============================================================================
