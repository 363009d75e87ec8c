---------------------------- MODULE RqFleetProofs ----------------------------
(***************************************************************************)
(* Proofs about RqFleet, for any jobs, workers and repairs.                *)
(*                                                                         *)
(* NeverLost is inductive once a repair in progress is known to have ids   *)
(* left to reclaim.  That a job runs twice only when a repair doubled it   *)
(* needs OnceInv: a job nobody doubled is in the queue or in the hands of  *)
(* one worker, and once only.                                              *)
(***************************************************************************)
EXTENDS RqFleet, SequenceTheorems, WellFoundedInduction, TLAPS

USE FleetAssumption

-----------------------------------------------------------------------------
(* Sequences.                                                              *)

\* Natural numbers are well-founded.
LEMMA LeastNatural ==
  ASSUME NEW T \in SUBSET Nat, T # {}
  PROVE  \E m \in T : \A n \in T : m <= n
<1> DEFINE R == {ss \in Nat \X Nat : ss[1] < ss[2]}
<1>1. PICK m \in T : \A n \in T : <<n, m>> \notin R
  <2>1. IsWellFoundedOn(R, Nat)
    BY NatLessThanWellFounded, Zenon DEF OpToRel
  <2> HIDE DEF R
  <2>2. QED  BY <2>1, WFMin
<1>2. ASSUME NEW n \in T PROVE m <= n
  <2>1. n \in Nat /\ m \in Nat
    OBVIOUS
  <2>2. <<n, m>> \in Nat \X Nat /\ <<n, m>>[1] = n /\ <<n, m>>[2] = m
    BY <2>1
  <2>3. ~(n < m)
    BY <1>1, <2>2
  <2>4. QED  BY <2>1, <2>3
<1> HIDE DEF R
<1>3. QED  BY <1>2

\* Where an element is in a sequence.
LEMMA InSequence ==
  ASSUME NEW S, NEW s \in Seq(S), NEW e
  PROVE  e \in ToSet(s) <=> \E i \in 1 .. Len(s) : s[i] = e
BY LenProperties DEF ToSet

\* LREM with count 1: everything but one occurrence of the id stays.
LEMMA RemoveFirstProperties ==
  ASSUME NEW S, NEW s \in Seq(S), NEW e
  PROVE  /\ RemoveFirst(s, e) \in Seq(S)
         /\ ToSet(RemoveFirst(s, e)) \subseteq ToSet(s)
         /\ ToSet(s) \ {e} \subseteq ToSet(RemoveFirst(s, e))
<1>1. CASE ~\E i \in 1 .. Len(s) : s[i] = e
  BY <1>1, Zenon DEF RemoveFirst
<1>2. CASE \E i \in 1 .. Len(s) : s[i] = e
  <2> DEFINE I == {i \in 1 .. Len(s) : s[i] = e}
             k == Min(I)
             a == SubSeq(s, 1, k - 1)
             b == SubSeq(s, k + 1, Len(s))
  <2>1. I # {} /\ I \in SUBSET Nat /\ Len(s) \in Nat
    BY <1>2, LenProperties
  <2>2. SelectInSeq(s, LAMBDA v : v = e) = k
    BY <2>1, Zenon DEF SelectInSeq
  <2>3. RemoveFirst(s, e) = RemoveAt(s, SelectInSeq(s, LAMBDA v : v = e))
    BY <1>2, Zenon DEF RemoveFirst
  <2>4. RemoveFirst(s, e) = a \o b
    BY <2>2, <2>3, Zenon DEF RemoveAt
  <2>5. k \in I
    <3> HIDE DEF I
    <3>1. \E m \in I : \A n \in I : m <= n
      BY <2>1, LeastNatural
    <3>2. QED  BY <3>1 DEF Min
  <2> HIDE DEF k
  <2>6. k \in 1 .. Len(s) /\ s[k] = e
    BY <2>5
  <2>7. \A i \in 1 .. Len(s) : s[i] \in S
    BY ElementOfSeq
  <2>8. /\ a \in Seq(S) /\ Len(a) = k - 1
        /\ \A i \in 1 .. k - 1 : a[i] = s[i]
    <3>1. k - 1 \in Int /\ \A i \in 1 .. k - 1 : s[i] \in S
      BY <2>1, <2>6, <2>7
    <3>2. QED  BY <2>6, <3>1, SubSeqProperties
  <2>9. /\ b \in Seq(S) /\ Len(b) = Len(s) - k
        /\ \A i \in 1 .. Len(s) - k : b[i] = s[k + i]
    <3>1. k + 1 \in Int /\ Len(s) \in Int /\ \A i \in k + 1 .. Len(s) : s[i] \in S
      BY <2>1, <2>6, <2>7
    <3>2. QED  BY <2>1, <2>6, <3>1, SubSeqProperties
  <2> HIDE DEF a, b
  <2>10. /\ a \o b \in Seq(S) /\ Len(a \o b) = Len(s) - 1
         /\ \A i \in 1 .. Len(s) - 1 : (a \o b)[i] = IF i < k THEN s[i] ELSE s[i + 1]
    <3>1. Len(a) + Len(b) = Len(s) - 1
      BY <2>1, <2>6, <2>8, <2>9
    <3>2. \A i \in 1 .. Len(s) - 1 : (a \o b)[i] = IF i <= k - 1 THEN a[i] ELSE b[i - (k - 1)]
      BY <2>8, <2>9, <3>1, ConcatProperties
    <3>3. ASSUME NEW i \in 1 .. Len(s) - 1 PROVE (a \o b)[i] = IF i < k THEN s[i] ELSE s[i + 1]
      <4>1. CASE i < k
        BY <2>1, <2>6, <2>8, <3>2, <4>1
      <4>2. CASE ~(i < k)
        <5>1. i - (k - 1) \in 1 .. Len(s) - k /\ k + (i - (k - 1)) = i + 1
          BY <2>1, <2>6, <4>2
        <5>2. (a \o b)[i] = b[i - (k - 1)]
          <6>1. ~(i <= k - 1)
            BY <2>1, <2>6, <4>2
          <6>2. QED  BY <3>2, <6>1
        <5>3. b[i - (k - 1)] = s[k + (i - (k - 1))]
          BY <2>9, <5>1
        <5>4. QED  BY <4>2, <5>1, <5>2, <5>3
      <4>3. QED  BY <4>1, <4>2
    <3>4. QED  BY <2>8, <2>9, <3>1, <3>3, ConcatProperties
  <2>11. ASSUME NEW x \in ToSet(a \o b) PROVE x \in ToSet(s)
    <3>1. PICK i \in 1 .. Len(s) - 1 : (a \o b)[i] = x
      BY <2>10, InSequence
    <3>2. i \in 1 .. Len(s) /\ i + 1 \in 1 .. Len(s)
      BY <2>1
    <3>3. QED  BY <2>10, <3>1, <3>2, InSequence
  <2>12. ASSUME NEW x \in ToSet(s) \ {e} PROVE x \in ToSet(a \o b)
    <3>1. PICK i \in 1 .. Len(s) : s[i] = x
      BY InSequence
    <3>2. i # k
      BY <2>6, <3>1
    <3>3. CASE i < k
      <4>1. i \in 1 .. Len(s) - 1
        BY <2>1, <2>6, <3>3
      <4>2. QED  BY <2>10, <3>1, <3>3, <4>1, InSequence
    <3>4. CASE i > k
      <4>1. i - 1 \in 1 .. Len(s) - 1 /\ ~(i - 1 < k) /\ (i - 1) + 1 = i
        BY <2>1, <2>6, <3>4
      <4>2. QED  BY <2>10, <3>1, <4>1, InSequence
    <3>5. QED  BY <2>1, <2>6, <3>2, <3>3, <3>4
  <2>13. QED  BY <2>4, <2>10, <2>11, <2>12
<1>3. QED  BY <1>1, <1>2

\* Enqueueing, dequeueing and pushing an id, as far as membership goes.
LEMMA QueueProperties ==
  ASSUME NEW S, NEW s \in Seq(S)
  PROVE  /\ \A e \in S : Append(s, e) \in Seq(S) /\ ToSet(Append(s, e)) = ToSet(s) \cup {e}
         /\ \A e \in S : <<e>> \o s \in Seq(S) /\ ToSet(<<e>> \o s) = ToSet(s) \cup {e}
         /\ s # <<>> => /\ Head(s) \in S /\ Tail(s) \in Seq(S)
                        /\ ToSet(s) = {Head(s)} \cup ToSet(Tail(s))
         /\ ToSet(s) \subseteq S
<1>1. ASSUME NEW e \in S PROVE Append(s, e) \in Seq(S) /\ ToSet(Append(s, e)) = ToSet(s) \cup {e}
  <2>1. /\ Append(s, e) \in Seq(S) /\ Len(Append(s, e)) = Len(s) + 1 /\ Len(s) \in Nat
        /\ \A i \in 1 .. Len(s) : Append(s, e)[i] = s[i]
        /\ Append(s, e)[Len(s) + 1] = e
    BY AppendProperties, LenProperties
  <2> DEFINE t == Append(s, e)
  <2> HIDE DEF t
  <2>2. \A x : (\E i \in 1 .. Len(t) : t[i] = x) <=> x = e \/ \E i \in 1 .. Len(s) : s[i] = x
    BY <2>1 DEF t
  <2>3. \A x : x \in ToSet(t) <=> x \in ToSet(s) \cup {e}
    BY <2>1, <2>2, InSequence DEF t
  <2>4. QED  BY <2>1, <2>3 DEF t
<1>2. ASSUME NEW e \in S PROVE <<e>> \o s \in Seq(S) /\ ToSet(<<e>> \o s) = ToSet(s) \cup {e}
  <2> DEFINE t == <<e>> \o s
  <2>1. /\ t \in Seq(S) /\ Len(t) = Len(s) + 1 /\ Len(s) \in Nat
        /\ t[1] = e /\ \A i \in 1 .. Len(s) : t[i + 1] = s[i]
    <3>1. <<e>> \in Seq(S) /\ Len(<<e>>) = 1 /\ <<e>>[1] = e /\ Len(s) \in Nat
      BY LenProperties
    <3>2. t \in Seq(S) /\ Len(t) = 1 + Len(s)
          /\ \A i \in 1 .. 1 + Len(s) : t[i] = IF i <= 1 THEN <<e>>[i] ELSE s[i - 1]
      BY <3>1, ConcatProperties
    <3> HIDE DEF t
    <3>3. QED  BY <3>1, <3>2
  <2> HIDE DEF t
  <2>2. \A x : (\E i \in 1 .. Len(t) : t[i] = x) <=> x = e \/ \E i \in 1 .. Len(s) : s[i] = x
    <3>1. \A i \in 1 .. Len(t) : i = 1 \/ (i - 1 \in 1 .. Len(s) /\ t[i] = s[i - 1])
      BY <2>1
    <3>2. \A i \in 1 .. Len(s) : i + 1 \in 1 .. Len(t) /\ t[i + 1] = s[i]
      BY <2>1
    <3>3. 1 \in 1 .. Len(t) /\ t[1] = e
      BY <2>1
    <3>4. ASSUME NEW i \in 1 .. Len(t) PROVE t[i] = e \/ \E n \in 1 .. Len(s) : s[n] = t[i]
      BY <3>1, <3>3
    <3>5. ASSUME NEW i \in 1 .. Len(s) PROVE \E n \in 1 .. Len(t) : t[n] = s[i]
      BY <3>2
    <3>6. QED  BY <3>3, <3>4, <3>5, Zenon
  <2>3. \A x : x \in ToSet(t) <=> x \in ToSet(s) \cup {e}
    BY <2>1, <2>2, InSequence
  <2>4. QED  BY <2>1, <2>3 DEF t
<1>3. ASSUME s # <<>> PROVE /\ Head(s) \in S /\ Tail(s) \in Seq(S)
                            /\ ToSet(s) = {Head(s)} \cup ToSet(Tail(s))
  <2> DEFINE t == Tail(s)
  <2>1. /\ t \in Seq(S) /\ Len(t) = Len(s) - 1 /\ Len(s) \in Nat \ {0}
        /\ Head(s) \in S /\ Head(s) = s[1] /\ \A i \in 1 .. Len(t) : t[i] = s[i + 1]
    <3>1. Len(s) \in Nat \ {0}
      BY <1>3, EmptySeq
    <3>2. Head(s) \in S /\ t \in Seq(S) /\ Len(t) = Len(s) - 1 /\ \A i \in 1 .. Len(t) : t[i] = s[i + 1]
      BY <1>3, HeadTailProperties
    <3>3. Head(s) = s[1]
      BY <1>3
    <3>4. QED  BY <3>1, <3>2, <3>3
  <2> HIDE DEF t
  <2>2. \A x : (\E i \in 1 .. Len(s) : s[i] = x) <=> x = Head(s) \/ \E i \in 1 .. Len(t) : t[i] = x
    <3>1. \A i \in 1 .. Len(s) : i = 1 \/ (i - 1 \in 1 .. Len(t) /\ s[i] = t[i - 1])
      BY <2>1
    <3>2. \A i \in 1 .. Len(t) : i + 1 \in 1 .. Len(s) /\ s[i + 1] = t[i]
      BY <2>1
    <3>3. 1 \in 1 .. Len(s)
      BY <2>1
    <3>4. QED  BY <2>1, <3>1, <3>2, <3>3
  <2>3. \A x : x \in ToSet(s) <=> x \in {Head(s)} \cup ToSet(t)
    BY <2>1, <2>2, InSequence
  <2>4. QED  BY <2>1, <2>3 DEF t
<1>4. ToSet(s) \subseteq S
  BY RangeOfSeq DEF ToSet, Range
<1>5. QED  BY <1>1, <1>2, <1>3, <1>4

\* An element is in a sequence once at most.
Once(s, e) == \A i, k \in 1 .. Len(s) : s[i] = e /\ s[k] = e => i = k

\* An id that is queued once is not queued any more when it has been dequeued,
\* and an id that is not queued is queued once when it has been pushed.
LEMMA OnceProperties ==
  ASSUME NEW S, NEW s \in Seq(S), NEW x
  PROVE  /\ \A e \in S : Once(s, x) /\ (x = e => x \notin ToSet(s)) => Once(Append(s, e), x)
         /\ \A e \in S : Once(s, x) /\ (x = e => x \notin ToSet(s)) => Once(<<e>> \o s, x)
         /\ s # <<>> /\ Once(s, x) => Once(Tail(s), x) /\ (x = Head(s) => x \notin ToSet(Tail(s)))
<1>1. ASSUME NEW e \in S, Once(s, x), x = e => x \notin ToSet(s) PROVE Once(Append(s, e), x)
  <2> DEFINE t == Append(s, e)
  <2>1. /\ t \in Seq(S) /\ Len(t) = Len(s) + 1 /\ Len(s) \in Nat
        /\ \A i \in 1 .. Len(s) : t[i] = s[i]
        /\ t[Len(s) + 1] = e
    BY AppendProperties, LenProperties
  <2> HIDE DEF t
  <2>2. x = e => \A i \in 1 .. Len(s) : s[i] # x
    BY <1>1, InSequence
  <2>3. Once(t, x)
    BY <1>1, <2>1, <2>2 DEF Once
  <2>4. QED  BY <2>3 DEF t
<1>2. ASSUME NEW e \in S, Once(s, x), x = e => x \notin ToSet(s) PROVE Once(<<e>> \o s, x)
  <2> DEFINE t == <<e>> \o s
  <2>1. <<e>> \in Seq(S) /\ Len(<<e>>) = 1 /\ <<e>>[1] = e /\ Len(s) \in Nat
    BY LenProperties
  <2>2. t \in Seq(S) /\ Len(t) = 1 + Len(s)
        /\ \A i \in 1 .. 1 + Len(s) : t[i] = IF i <= 1 THEN <<e>>[i] ELSE s[i - 1]
    BY <2>1, ConcatProperties
  <2> HIDE DEF t
  <2>3. \A i \in 1 .. Len(t) : (i = 1 /\ t[i] = e) \/ (i - 1 \in 1 .. Len(s) /\ t[i] = s[i - 1])
    BY <2>1, <2>2
  <2>4. x = e => \A i \in 1 .. Len(s) : s[i] # x
    BY <1>2, InSequence
  <2>5. ASSUME NEW i \in 1 .. Len(t), NEW k \in 1 .. Len(t), t[i] = x, t[k] = x PROVE i = k
    <3>1. (i = 1 /\ k = 1) \/ (i - 1 \in 1 .. Len(s) /\ s[i - 1] = x /\ k - 1 \in 1 .. Len(s) /\ s[k - 1] = x)
      BY <1>2, <2>3, <2>4, <2>5
    <3>2. i \in Int /\ k \in Int
      BY <2>2
    <3>3. QED  BY <1>2, <3>1, <3>2 DEF Once
  <2>6. QED  BY <2>5 DEF Once, t
<1>3. ASSUME s # <<>>, Once(s, x) PROVE Once(Tail(s), x) /\ (x = Head(s) => x \notin ToSet(Tail(s)))
  <2> DEFINE t == Tail(s)
  <2>1. Len(s) \in Nat \ {0}
    BY <1>3, EmptySeq
  <2>2. t \in Seq(S) /\ Len(t) = Len(s) - 1 /\ \A i \in 1 .. Len(t) : t[i] = s[i + 1]
    BY <1>3, HeadTailProperties
  <2>3. Head(s) = s[1]
    BY <1>3
  <2> HIDE DEF t
  <2>4. 1 \in 1 .. Len(s) /\ \A i \in 1 .. Len(t) : i + 1 \in 1 .. Len(s) /\ i + 1 # 1
    BY <2>1, <2>2
  <2>5. Once(t, x)
    BY <1>3, <2>2, <2>4 DEF Once
  <2>6. x = Head(s) => ~\E i \in 1 .. Len(t) : t[i] = x
    BY <1>3, <2>2, <2>3, <2>4 DEF Once
  <2>7. QED  BY <2>2, <2>5, <2>6, InSequence DEF t
<1>4. QED  BY <1>1, <1>2, <1>3

-----------------------------------------------------------------------------
(* No queued job is lost.                                                  *)

\* A repair in progress has ids left to reclaim.
RepairsInv ==
  /\ repair \in [Repairs -> [at : {"off", "remove", "push"}, todo : Seq(Jobs)]]
  /\ \A r \in Repairs : repair[r].at # "off" => repair[r].todo # <<>>

LostInv == NeverLost /\ RepairsInv

\* Nothing is queued at the start.
LEMMA LostInit == Init => LostInv
<1> SUFFICES ASSUME Init PROVE LostInv
  OBVIOUS
<1> USE DEF Init
<1>1. RepairsInv
  BY DEF RepairsInv, Off
<1>2. worker \in [Workers -> [at : {"free", "taken", "running"}, job : Jobs \cup {NoJob}]]
  BY DEF Free
<1>3. \A r \in Repairs : repair[r].at \in {"off", "remove", "push"} /\ repair[r].todo \in Seq(Jobs)
  BY <1>1 DEF RepairsInv
<1>4. TypeOK
  BY <1>2, <1>3 DEF TypeOK
<1>5. QED  BY <1>1, <1>4 DEF LostInv, NeverLost

\* Every step of RQ keeps the queued jobs in its queues.
LEMMA LostRqStep ==
  ASSUME LostInv,
         \/ \E j \in Jobs : Enqueue(j) \/ Reap(j) \/ Expires(j)
         \/ \E w \in Workers : Dequeue(w) \/ PrepareExecution(w) \/ JobEnds(w) \/ WorkerDies(w)
  PROVE  LostInv'
<1> USE DEF LostInv, NeverLost, TypeOK
<1>0. repair' = repair /\ RepairsInv'
  BY DEF Enqueue, Reap, Expires, Dequeue, PrepareExecution, JobEnds, WorkerDies, RepairsInv
<1>1. \A j \in Jobs : InHand(j)' <=> InHand(j)
  BY <1>0 DEF InHand
<1>2. ASSUME NEW j \in Jobs, Enqueue(j) PROVE LostInv'
  BY <1>0, <1>1, <1>2, QueueProperties DEF Enqueue, Listed
<1>3. ASSUME NEW j \in Jobs, Reap(j) \/ Expires(j) PROVE LostInv'
  BY <1>0, <1>1, <1>3 DEF Reap, Expires, Listed
<1>4. ASSUME NEW w \in Workers, Dequeue(w) PROVE LostInv'
  <2>1. /\ queue # <<>> /\ intermediate' = Append(intermediate, Head(queue)) /\ queue' = Tail(queue)
        /\ UNCHANGED <<status, repair, lost, doubled>>
    BY <1>4 DEF Dequeue
  <2>2. Head(queue) \in Jobs /\ queue' \in Seq(Jobs) /\ ToSet(queue) = {Head(queue)} \cup ToSet(queue')
    BY <2>1, QueueProperties
  <2>3. intermediate' \in Seq(Jobs) /\ ToSet(intermediate') = ToSet(intermediate) \cup {Head(queue)}
    BY <2>1, <2>2, QueueProperties
  <2>4. worker' \in [Workers -> [at : {"free", "taken", "running"}, job : Jobs \cup {NoJob}]]
    BY <1>4, <2>2 DEF Dequeue
  <2>5. QED  BY <1>0, <1>1, <2>1, <2>2, <2>3, <2>4 DEF Listed
<1>5. ASSUME NEW w \in Workers, PrepareExecution(w) PROVE LostInv'
  <2>1. /\ worker[w].at = "taken"
        /\ worker' = [worker EXCEPT ![w].at = "running"]
        /\ status' = [status EXCEPT ![worker[w].job] = "started"]
        /\ intermediate' = RemoveFirst(intermediate, worker[w].job)
        /\ UNCHANGED <<queue, repair, lost, doubled>>
    BY <1>5 DEF PrepareExecution
  <2>2. /\ intermediate' \in Seq(Jobs)
        /\ ToSet(intermediate) \ {worker[w].job} \subseteq ToSet(intermediate')
    BY <2>1, RemoveFirstProperties
  <2>3. worker' \in [Workers -> [at : {"free", "taken", "running"}, job : Jobs \cup {NoJob}]]
    BY <2>1
  <2>4. \A j \in Jobs : status'[j] = "queued" => status[j] = "queued" /\ j # worker[w].job
    BY <2>1
  <2>5. QED  BY <1>0, <1>1, <2>1, <2>2, <2>3, <2>4 DEF Listed
<1>6. ASSUME NEW w \in Workers, JobEnds(w) \/ WorkerDies(w) PROVE LostInv'
  <2>1. worker' = [worker EXCEPT ![w] = Free]
    BY <1>6 DEF JobEnds, WorkerDies
  <2>2. worker' \in [Workers -> [at : {"free", "taken", "running"}, job : Jobs \cup {NoJob}]]
    BY <2>1 DEF Free
  <2>3. QED  BY <1>0, <1>1, <1>6, <2>2 DEF JobEnds, WorkerDies, Listed
<1>7. QED  BY <1>2, <1>3, <1>4, <1>5, <1>6

\* An id that a repair takes off a queue is in its hands until it is pushed.
LEMMA LostRepairStep ==
  ASSUME LostInv, NEW r \in Repairs,
         RepairReads(r) \/ RepairRemoves(r) \/ RepairPushes(r) \/ RepairDies(r)
  PROVE  LostInv'
<1> DEFINE h == Head(repair[r].todo)
<1> USE DEF LostInv, NeverLost, TypeOK, RepairsInv
<1>1. repair[r].at # "off" => h \in Jobs /\ Tail(repair[r].todo) \in Seq(Jobs)
  BY QueueProperties
<1>2. \A q \in Repairs \ {r} : repair'[q] = repair[q]
  BY DEF RepairReads, RepairRemoves, RepairPushes, Advance, RepairDies
<1>3. ASSUME NEW t \in [at : {"off", "remove", "push"}, todo : Seq(Jobs)],
             repair' = [repair EXCEPT ![r] = t], t.at # "off" => t.todo # <<>>
      PROVE  /\ RepairsInv' /\ repair'[r] = t
             /\ \A q \in Repairs : repair'[q].at \in {"off", "remove", "push"} /\ repair'[q].todo \in Seq(Jobs)
  BY <1>3
<1>4. CASE RepairReads(r)
  <2> DEFINE t == [at |-> "remove", todo |-> intermediate]
  <2>1. t \in [at : {"off", "remove", "push"}, todo : Seq(Jobs)] /\ t.at = "remove" /\ t.todo = intermediate
    OBVIOUS
  <2>2. /\ repair' = [repair EXCEPT ![r] = t] /\ intermediate # <<>> /\ repair[r].at = "off"
        /\ UNCHANGED <<queue, intermediate, status, worker, lost, doubled>>
    BY <1>4 DEF RepairReads
  <2> HIDE DEF t
  <2>3. \A j \in Jobs : InHand(j) => InHand(j)'
    BY <1>2, <2>2 DEF InHand
  <2>4. QED  BY <1>3, <2>1, <2>2, <2>3 DEF Listed
<1>5. CASE RepairRemoves(r)
  <2> DEFINE t == [repair[r] EXCEPT !.at = "push"]
  <2>1. t \in [at : {"off", "remove", "push"}, todo : Seq(Jobs)] /\ t.at = "push" /\ t.todo = repair[r].todo
    OBVIOUS
  <2>2. /\ repair' = [repair EXCEPT ![r] = t] /\ repair[r].at = "remove"
        /\ intermediate' = RemoveFirst(intermediate, h)
        /\ UNCHANGED <<queue, status, worker, lost>>
        /\ doubled' = doubled
    BY <1>5 DEF RepairRemoves
  <2> HIDE DEF t
  <2>3. \A j \in Jobs : InHand(j) \/ j = h => InHand(j)'
    BY <1>2, <1>3, <2>1, <2>2 DEF InHand
  <2>4. intermediate' \in Seq(Jobs) /\ ToSet(intermediate) \ {h} \subseteq ToSet(intermediate')
    BY <2>2, RemoveFirstProperties
  <2>5. QED  BY <1>3, <2>1, <2>2, <2>3, <2>4 DEF Listed
<1>6. ASSUME RepairPushes(r) \/ RepairDies(r)
      PROVE  /\ RepairsInv'
             /\ \A q \in Repairs : repair'[q].at \in {"off", "remove", "push"} /\ repair'[q].todo \in Seq(Jobs)
             /\ \A j \in Jobs : InHand(j) => InHand(j)' \/ (repair[r].at = "push" /\ j = h)
  <2> DEFINE rest == Tail(repair[r].todo)
             t == IF RepairPushes(r) /\ rest # <<>> THEN [at |-> "remove", todo |-> rest] ELSE Off
  <2>1. repair[r].at # "off" /\ rest \in Seq(Jobs)
    BY <1>1, <1>6 DEF RepairPushes, RepairDies
  <2>2. t \in [at : {"off", "remove", "push"}, todo : Seq(Jobs)] /\ (t.at # "off" => t.todo # <<>>)
    BY <2>1 DEF Off
  <2>3. RepairPushes(r) => repair' = [repair EXCEPT ![r] = t]
    BY DEF RepairPushes, Advance
  <2>4. ~RepairPushes(r) => repair' = [repair EXCEPT ![r] = t]
    BY <1>6 DEF RepairDies
  <2> HIDE DEF t
  <2>5. \A j \in Jobs : InHand(j) => InHand(j)' \/ (repair[r].at = "push" /\ j = h)
    BY <1>2 DEF InHand
  <2>6. QED  BY <1>3, <2>2, <2>3, <2>4, <2>5
<1>7. CASE RepairPushes(r)
  <2>1. /\ repair[r].at = "push" /\ Push(h, <<h>>)
        /\ intermediate' = intermediate /\ status' = status /\ worker' = worker /\ lost' = lost
    BY <1>7 DEF RepairPushes
  <2>2. CASE status[h] = "expired"
    BY <1>1, <1>6, <1>7, <2>1, <2>2 DEF Push, Listed
  <2>3. CASE status[h] # "expired"
    <3>1. queue' \in Seq(Jobs) /\ ToSet(queue') = ToSet(queue) \cup {h}
      <4>1. queue' = <<h>> \o queue
        BY <2>1, <2>3 DEF Push
      <4> HIDE DEF h
      <4>2. QED  BY <1>1, <2>1, <4>1, QueueProperties
    <3>2. doubled' \subseteq Jobs
      BY <1>1, <2>1, <2>3 DEF Push
    <3>3. QED  BY <1>6, <1>7, <2>1, <3>1, <3>2 DEF Listed
  <2>4. QED  BY <2>2, <2>3
<1>8. CASE RepairDies(r)
  BY <1>1, <1>6, <1>8 DEF RepairDies, Listed
<1>9. QED  BY <1>4, <1>5, <1>7, <1>8

\* Every step keeps the queued jobs.
LEMMA LostStep == ASSUME LostInv, [Next]_vars PROVE LostInv'
<1>1. CASE UNCHANGED vars
  BY <1>1 DEF vars, LostInv, NeverLost, TypeOK, RepairsInv, Listed, InHand
<1>2. QED  BY <1>1, LostRqStep, LostRepairStep DEF Next

\* A job that counts as queued is in a queue or in the hands of a repair,
\* however many workers die and however many repairs work on the same ids: only
\* a repair_rq_fleet that dies between its LREM and its push loses one.
THEOREM QueuedIsFound == Spec => []NeverLost
<1>1. LostInv => NeverLost
  BY DEF LostInv
<1>2. QED  BY <1>1, LostInit, LostStep, PTL DEF Spec

-----------------------------------------------------------------------------
(* No job runs twice unless a repair has doubled it.                       *)

\* A job that no repair has doubled is queued once or held by one worker, and
\* a job that has no record yet is nowhere.
OnceInv ==
  /\ LostInv
  /\ \A w \in Workers : worker[w].at # "free" => worker[w].job \in Jobs
  /\ \A j \in Jobs \ doubled :
       /\ Once(queue, j)
       /\ j \in ToSet(queue) => ~Held(j)
       /\ \A w1, w2 \in Workers : worker[w1].job = j /\ worker[w2].job = j => w1 = w2
  /\ \A j \in Jobs : status[j] = "missing" =>
       ~Listed(j) /\ ~Held(j) /\ \A r \in Repairs : j \notin ToSet(repair[r].todo)

\* There is no job at the start.
LEMMA OnceInit == Init => OnceInv
<1> SUFFICES ASSUME Init PROVE OnceInv
  OBVIOUS
<1>1. \A j : j \notin ToSet(<<>>) /\ Once(<<>>, j)
  BY DEF ToSet, Once
<1>2. \A w \in Workers : worker[w].at = "free" /\ worker[w].job = NoJob
  BY DEF Init, Free
<1>3. \A r \in Repairs : repair[r].todo = <<>>
  BY DEF Init, Off
<1>4. QED  BY <1>1, <1>2, <1>3, LostInit DEF Init, OnceInv, Listed, Held

\* A worker takes only an id that is queued, and takes it off the queue.
LEMMA OnceRqStep ==
  ASSUME OnceInv, LostInv',
         \/ \E j \in Jobs : Enqueue(j) \/ Reap(j) \/ Expires(j)
         \/ \E w \in Workers : Dequeue(w) \/ PrepareExecution(w) \/ JobEnds(w) \/ WorkerDies(w)
  PROVE  OnceInv'
<1> USE DEF OnceInv, Listed, Held
<1>0. TypeOK /\ TypeOK'
  BY DEF LostInv, NeverLost
<1>1. ASSUME NEW j \in Jobs, Enqueue(j) PROVE OnceInv'
  <2>1. queue' = Append(queue, j) /\ ToSet(queue') = ToSet(queue) \cup {j}
    BY <1>0, <1>1, QueueProperties DEF Enqueue, TypeOK
  <2>2. \A k \in Jobs : Once(queue, k) /\ (k = j => k \notin ToSet(queue)) => Once(queue', k)
    BY <1>0, <2>1, OnceProperties DEF TypeOK
  <2>3. status[j] = "missing" /\ status' = [status EXCEPT ![j] = "queued"]
        /\ UNCHANGED <<intermediate, worker, repair, lost, doubled>>
    BY <1>1 DEF Enqueue
  <2>4. QED  BY <1>0, <2>1, <2>2, <2>3 DEF TypeOK
<1>2. ASSUME NEW j \in Jobs, Reap(j) \/ Expires(j) PROVE OnceInv'
  <2>1. \A k \in Jobs : status'[k] = "missing" => status[k] = "missing"
    BY <1>0, <1>2 DEF Reap, Expires, TypeOK
  <2>2. UNCHANGED <<queue, intermediate, worker, repair, lost, doubled>>
    BY <1>2 DEF Reap, Expires
  <2>3. QED  BY <2>1, <2>2
<1>3. ASSUME NEW w \in Workers, Dequeue(w) PROVE OnceInv'
  <2> DEFINE h == Head(queue)
  <2>1. /\ queue # <<>> /\ intermediate' = Append(intermediate, h) /\ queue' = Tail(queue)
        /\ worker[w].at = "free"
        /\ UNCHANGED <<status, repair, lost, doubled>>
    BY <1>3 DEF Dequeue
  <2>2. h \in Jobs /\ ToSet(queue) = {h} \cup ToSet(queue')
    BY <1>0, <2>1, QueueProperties DEF TypeOK
  <2>3. ToSet(intermediate') = ToSet(intermediate) \cup {h}
    BY <1>0, <2>1, <2>2, QueueProperties DEF TypeOK
  <2>4. \A k \in Jobs : Once(queue, k) => Once(queue', k) /\ (k = h => k \notin ToSet(queue'))
    BY <1>0, <2>1, OnceProperties DEF TypeOK
  <2>5. \A x \in Workers : worker'[x] = worker[x] \/ (x = w /\ worker'[x].at = "taken" /\ worker'[x].job = h)
    BY <1>0, <1>3 DEF Dequeue, TypeOK
  <2> HIDE DEF h
  <2>6. ASSUME NEW j \in Jobs \ doubled
        PROVE  /\ Once(queue', j)
               /\ j \in ToSet(queue') => ~Held(j)'
               /\ \A w1, w2 \in Workers : worker'[w1].job = j /\ worker'[w2].job = j => w1 = w2
    <3>1. CASE j = h
      BY <2>2, <2>4, <2>5, <3>1
    <3>2. CASE j # h
      BY <2>2, <2>4, <2>5, <3>2
    <3>3. QED  BY <3>1, <3>2
  <2>7. ASSUME NEW j \in Jobs, status[j] = "missing"
        PROVE  ~Listed(j)' /\ ~Held(j)' /\ \A r \in Repairs : j \notin ToSet(repair'[r].todo)
    BY <2>1, <2>2, <2>3, <2>5, <2>7
  <2>8. \A x \in Workers : worker'[x].at # "free" => worker'[x].job \in Jobs
    BY <2>2, <2>5
  <2>9. QED  BY <2>1, <2>6, <2>7, <2>8
<1>4. ASSUME NEW w \in Workers, PrepareExecution(w) PROVE OnceInv'
  <2>1. /\ worker' = [worker EXCEPT ![w].at = "running"]
        /\ status' = [status EXCEPT ![worker[w].job] = "started"]
        /\ intermediate' = RemoveFirst(intermediate, worker[w].job)
        /\ worker[w].at = "taken"
        /\ UNCHANGED <<queue, repair, lost, doubled>>
    BY <1>4 DEF PrepareExecution
  <2>2. ToSet(intermediate') \subseteq ToSet(intermediate)
    BY <1>0, <2>1, RemoveFirstProperties DEF TypeOK
  <2>3. \A x \in Workers : worker'[x].job = worker[x].job /\ (worker[x].at = "free" <=> worker'[x].at = "free")
    BY <1>0, <2>1 DEF TypeOK
  <2>4. \A j \in Jobs : status'[j] = "missing" => status[j] = "missing"
    BY <1>0, <2>1 DEF TypeOK
  <2>5. QED  BY <2>1, <2>2, <2>3, <2>4
<1>5. ASSUME NEW w \in Workers, JobEnds(w) \/ WorkerDies(w) PROVE OnceInv'
  <2>1. \A x \in Workers : worker'[x] = worker[x] \/ (worker'[x].at = "free" /\ worker'[x].job = NoJob)
    BY <1>0, <1>5 DEF JobEnds, WorkerDies, TypeOK, Free
  <2>2. \A j \in Jobs : status'[j] = "missing" => status[j] = "missing"
    BY <1>0, <1>5 DEF JobEnds, WorkerDies, TypeOK
  <2>3. UNCHANGED <<queue, intermediate, repair, lost, doubled>>
    BY <1>5 DEF JobEnds, WorkerDies
  <2>4. QED  BY <2>1, <2>2, <2>3
<1>6. QED  BY <1>1, <1>2, <1>3, <1>4, <1>5

\* A repair that pushes an id still queued or held has doubled it.
LEMMA OnceRepairStep ==
  ASSUME OnceInv, LostInv', NEW r \in Repairs,
         RepairReads(r) \/ RepairRemoves(r) \/ RepairPushes(r) \/ RepairDies(r)
  PROVE  OnceInv'
<1> USE DEF OnceInv, Listed, Held
<1> DEFINE h == Head(repair[r].todo)
<1>0. TypeOK /\ TypeOK' /\ RepairsInv
  BY DEF LostInv, NeverLost
<1>1. repair[r].at # "off" =>
        h \in Jobs /\ h \in ToSet(repair[r].todo) /\ ToSet(Tail(repair[r].todo)) \subseteq ToSet(repair[r].todo)
  <2>1. repair[r].at # "off" => repair[r].todo # <<>> /\ repair[r].todo \in Seq(Jobs)
    BY <1>0 DEF RepairsInv
  <2>2. QED  BY <2>1, QueueProperties
<1>2. \A j : j \notin ToSet(<<>>)
  BY DEF ToSet
<1>3. UNCHANGED <<status, worker>>
  BY DEF RepairReads, RepairRemoves, RepairPushes, RepairDies
<1>4. CASE RepairReads(r)
  <2>1. \A q \in Repairs : ToSet(repair'[q].todo) \subseteq ToSet(repair[q].todo) \cup ToSet(intermediate)
    BY <1>0, <1>4 DEF RepairReads, RepairsInv
  <2>2. UNCHANGED <<queue, intermediate, status, worker, lost, doubled>>
    BY <1>4 DEF RepairReads
  <2>3. QED  BY <2>1, <2>2
<1>5. CASE RepairRemoves(r)
  <2>1. \A q \in Repairs : repair'[q].todo = repair[q].todo
    BY <1>0, <1>5 DEF RepairRemoves, RepairsInv
  <2>2. UNCHANGED <<queue, status, worker, lost, doubled>> /\ intermediate' = RemoveFirst(intermediate, h)
    BY <1>5 DEF RepairRemoves
  <2>3. ToSet(intermediate') \subseteq ToSet(intermediate)
    BY <1>0, <2>2, RemoveFirstProperties DEF TypeOK
  <2>4. QED  BY <2>1, <2>2, <2>3
<1>6. ASSUME RepairPushes(r) \/ RepairDies(r)
      PROVE  repair[r].at # "off" /\ \A q \in Repairs : ToSet(repair'[q].todo) \subseteq ToSet(repair[q].todo)
  <2>1. repair[r].at # "off"
    BY <1>6 DEF RepairPushes, RepairDies
  <2>2. \A q \in Repairs : repair'[q].todo \in {repair[q].todo, <<>>} \/ (q = r /\ repair'[q].todo = Tail(repair[r].todo))
    <3> DEFINE rest == Tail(repair[r].todo)
    <3>1. RepairPushes(r) => repair' = [repair EXCEPT ![r] = IF rest = <<>> THEN Off ELSE [at |-> "remove", todo |-> rest]]
      BY DEF RepairPushes, Advance
    <3>2. RepairDies(r) => repair' = [repair EXCEPT ![r] = Off]
      BY DEF RepairDies
    <3> HIDE DEF rest
    <3>3. \A q \in Repairs \ {r} : repair'[q] = repair[q]
      BY <1>0, <1>6, <3>1, <3>2 DEF RepairsInv
    <3>4. repair'[r] \in {Off, [at |-> "remove", todo |-> rest]}
      BY <1>0, <1>6, <3>1, <3>2 DEF RepairsInv
    <3>5. repair'[r].todo \in {<<>>, rest}
      BY <3>4 DEF Off
    <3>6. QED  BY <3>3, <3>5 DEF rest
  <2>3. QED  BY <1>1, <1>2, <2>1, <2>2
<1>7. CASE RepairPushes(r)
  <2>1. Push(h, <<h>>) /\ intermediate' = intermediate
    BY <1>7 DEF RepairPushes
  <2>2. CASE status[h] = "expired"
    BY <1>3, <1>6, <1>7, <2>1, <2>2 DEF Push
  <2>3. CASE status[h] # "expired"
    <3>1. queue' = <<h>> \o queue /\ doubled' = IF Listed(h) \/ Held(h) THEN doubled \cup {h} ELSE doubled
      BY <2>1, <2>3, Zenon DEF Push
    <3>2. h \in Jobs /\ status[h] # "missing"
      BY <1>1, <1>6, <1>7
    <3> HIDE DEF h
    <3>3. ToSet(queue') = ToSet(queue) \cup {h}
      BY <1>0, <3>1, <3>2, QueueProperties DEF TypeOK
    <3>4. \A k \in Jobs : Once(queue, k) /\ (k = h => k \notin ToSet(queue)) => Once(queue', k)
      BY <1>0, <3>1, <3>2, OnceProperties DEF TypeOK
    <3>5. ASSUME NEW j \in Jobs \ doubled'
          PROVE  /\ Once(queue', j)
                 /\ j \in ToSet(queue') => ~Held(j)'
                 /\ \A w1, w2 \in Workers : worker'[w1].job = j /\ worker'[w2].job = j => w1 = w2
      <4>1. j \in Jobs \ doubled /\ (j = h => ~Listed(h) /\ ~Held(h))
        BY <3>1
      <4>2. QED  BY <1>3, <3>3, <3>4, <4>1
    <3>6. ASSUME NEW j \in Jobs, status'[j] = "missing"
          PROVE  ~Listed(j)' /\ ~Held(j)' /\ \A q \in Repairs : j \notin ToSet(repair'[q].todo)
      BY <1>3, <1>6, <1>7, <2>1, <3>2, <3>3, <3>6
    <3>7. QED  BY <1>3, <3>5, <3>6
  <2>4. QED  BY <2>2, <2>3
<1>8. CASE RepairDies(r)
  <2>1. UNCHANGED <<queue, intermediate, status, worker, doubled>>
    BY <1>8 DEF RepairDies
  <2>2. QED  BY <1>6, <1>8, <2>1
<1>9. QED  BY <1>4, <1>5, <1>7, <1>8

\* Every step keeps it.
LEMMA OnceStep == ASSUME OnceInv, [Next]_vars PROVE OnceInv'
<1>1. LostInv'
  BY LostStep DEF OnceInv
<1>2. CASE UNCHANGED vars
  BY <1>1, <1>2 DEF vars, OnceInv, Listed, Held
<1>3. QED  BY <1>1, <1>2, OnceRqStep, OnceRepairStep DEF Next

\* Two workers run one job only if a repair_rq_fleet has pushed its id while it
\* was queued or held by a worker; dying workers and RQ itself never cause it.
THEOREM JobsRunOnce == Spec => []RunsOnceUnlessDoubled
<1>1. OnceInv => RunsOnceUnlessDoubled
  BY DEF OnceInv, RunsOnceUnlessDoubled
<1>2. QED  BY <1>1, OnceInit, OnceStep, PTL DEF Spec

=============================================================================
