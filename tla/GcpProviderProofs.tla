-------------------------- MODULE GcpProviderProofs --------------------------
(***************************************************************************)
(* Theorems about GcpProvider, for every set of URLs, every quota, window  *)
(* and concurrency, and any number of purges.                              *)
(***************************************************************************)
EXTENDS GcpProvider, WellFoundedInduction, SequenceTheorems, TLAPS

-----------------------------------------------------------------------------
(* Lemmas about the window *)

(* A set of natural numbers has a least element. *)
LEMMA LeastElement ==
  ASSUME NEW T \in SUBSET Nat, T # {}
  PROVE  \E x \in T : \A y \in T : x <= y
<1> DEFINE R == OpToRel(<, Nat)
<1>1. \E x \in T : \A y \in T : ~ (<<y, x>> \in R)
  <2>1. IsWellFoundedOn(R, Nat)
    BY NatLessThanWellFounded
  <2> HIDE DEF R
  <2> QED
    BY <2>1, WFMin
<1>2. PICK x \in T : \A y \in T : ~ (<<y, x>> \in R)
  BY <1>1
<1>3. ASSUME NEW y \in T, ~(x <= y)
      PROVE  <<y, x>> \in R
  <2>1. x \in Nat /\ y \in Nat /\ y < x
    BY <1>3
  <2> QED
    BY <2>1 DEF OpToRel
<1> QED
  BY <1>2, <1>3

(* The loop of popleft ends somewhere, ... *)
LEMMA GoneExists ==
  ASSUME NEW s \in Seq(Nat), NEW w \in Nat
  PROVE  \E n \in 0..Len(s) : IsGone(n, s, w)
<1> DEFINE T == {i \in 1..Len(s) : s[i] < w}
<1>0. \A i \in 1..Len(s) : s[i] \in Nat
  OBVIOUS
<1>1. CASE T = {}
  <2>1. Len(s) \in 0..Len(s) /\ IsGone(Len(s), s, w)
    BY <1>0, <1>1 DEF IsGone
  <2> QED
    BY <2>1
<1>2. CASE T # {}
  <2>1. PICK m \in T : \A y \in T : m <= y
    <3>1. T \in SUBSET Nat
      OBVIOUS
    <3> HIDE DEF T
    <3> QED
      BY <1>2, <3>1, LeastElement
  <2>2. m - 1 \in 0..Len(s) /\ IsGone(m - 1, s, w)
    BY <1>0, <2>1 DEF IsGone
  <2> QED
    BY <2>2
<1> QED
  BY <1>1, <1>2

(* ... and in one place only. *)
LEMMA LiveIs ==
  ASSUME NEW s \in Seq(Nat), NEW w \in Nat, NEW n \in 0..Len(s), IsGone(n, s, w)
  PROVE  Live(s, w) = SubSeq(s, n + 1, Len(s))
<1>1. ASSUME NEW m \in 0..Len(s), IsGone(m, s, w)
      PROVE  m = n
  <2>1. \A i \in 1..Len(s) : s[i] \in Nat
    OBVIOUS
  <2>2. ~(m < n)
    <3> SUFFICES ASSUME m < n PROVE FALSE
      OBVIOUS
    <3>1. m + 1 \in 1..n /\ m + 1 \in 1..Len(s)
      OBVIOUS
    <3> QED
      BY <1>1, <2>1, <3>1 DEF IsGone
  <2>3. ~(n < m)
    <3> SUFFICES ASSUME n < m PROVE FALSE
      OBVIOUS
    <3>1. n + 1 \in 1..m /\ n + 1 \in 1..Len(s)
      OBVIOUS
    <3> QED
      BY <1>1, <2>1, <3>1 DEF IsGone
  <2> QED
    BY <2>2, <2>3
<1>2. n = CHOOSE k \in 0..Len(s) : IsGone(k, s, w)
  BY <1>1
<1> QED
  BY <1>2 DEF Live

(* A history of the window: its entries are within it, the oldest first. *)
Fresh(s) == /\ s \in Seq(0..(Window - 1))
            /\ \A i, j \in 1..Len(s) : i <= j => s[j] <= s[i]

(* A new entry is the youngest. *)
LEMMA FreshAppend ==
  ASSUME NEW s, Fresh(s)
  PROVE  Fresh(Append(s, 0)) /\ Len(Append(s, 0)) = Len(s) + 1
<1>1. Window \in Nat \ {0} /\ s \in Seq(0..(Window - 1))
  BY GcpAssumption DEF Fresh
<1>2. /\ Append(s, 0) \in Seq(0..(Window - 1)) /\ Len(Append(s, 0)) = Len(s) + 1
      /\ \A i \in 1..(Len(s) + 1) : Append(s, 0)[i] = IF i <= Len(s) THEN s[i] ELSE 0
      /\ Len(s) \in Nat
  BY <1>1
<1>3. \A i \in 1..Len(s) : s[i] \in Nat
  BY <1>1
<1> QED
  BY <1>2, <1>3 DEF Fresh

(* A tick later a history lacks a prefix and is older by one; it lacks     *)
(* nothing while its oldest entry does not leave the window.               *)
LEMMA RecentFresh ==
  ASSUME NEW s, Fresh(s)
  PROVE  /\ Fresh(Recent(s)) /\ Len(Recent(s)) <= Len(s)
         /\ \E n \in 0..Len(s) :
              /\ \A i \in 1..n : s[i] = Window - 1
              /\ \A i \in 1..Len(s) : i > n => s[i] < Window - 1
              /\ Len(Recent(s)) = Len(s) - n
              /\ \A i \in 1..(Len(s) - n) : Recent(s)[i] = s[n + i] + 1
<1> DEFINE t == [i \in DOMAIN s |-> s[i] + 1]
<1>1. Window \in Nat \ {0} /\ s \in Seq(0..(Window - 1)) /\ Len(s) \in Nat
  BY GcpAssumption DEF Fresh
<1>2. /\ t \in Seq(Nat) /\ Len(t) = Len(s)
      /\ \A i \in 1..Len(s) : t[i] = s[i] + 1 /\ t[i] \in 1..Window /\ s[i] \in 0..(Window - 1)
  BY <1>1
<1>3. Recent(s) = Live(t, Window)
  BY DEF Recent
<1> HIDE DEF t
<1>4. PICK n \in 0..Len(s) : IsGone(n, t, Window)
  BY <1>1, <1>2, GoneExists
<1>5. Recent(s) = SubSeq(t, n + 1, Len(s))
  BY <1>1, <1>2, <1>3, <1>4, LiveIs
<1>6. \A i \in 1..n : s[i] = Window - 1
  BY <1>1, <1>2, <1>4, SMTT(30) DEF IsGone
<1>7. ASSUME NEW i \in 1..Len(s), i > n
      PROVE  s[i] < Window - 1
  <2>1. n + 1 \in 1..Len(s) /\ n + 1 <= i
    BY <1>1, <1>7
  <2>2. s[i] <= s[n + 1]
    BY <2>1 DEF Fresh
  <2> QED
    BY <1>1, <1>2, <1>4, <2>1, <2>2, SMTT(30) DEF IsGone
<1>8. \A i \in (n + 1)..Len(s) : t[i] \in 0..(Window - 1)
  BY <1>1, <1>2, <1>7
<1>9. /\ Recent(s) \in Seq(0..(Window - 1)) /\ Len(Recent(s)) = Len(s) - n
      /\ \A i \in 1..(Len(s) - n) : Recent(s)[i] = t[n + i]
  <2>1. n + 1 \in Int /\ Len(s) \in Int
    BY <1>1
  <2>2. /\ Recent(s) \in Seq(0..(Window - 1))
        /\ Len(Recent(s)) = IF n + 1 <= Len(s) THEN Len(s) - (n + 1) + 1 ELSE 0
        /\ \A i \in 1..(Len(s) - (n + 1) + 1) : Recent(s)[i] = t[(n + 1) + i - 1]
    BY <1>5, <1>8, <2>1, SubSeqProperties
  <2>3. Len(s) - (n + 1) + 1 = Len(s) - n
    BY <1>1
  <2>4. Len(Recent(s)) = Len(s) - n
    BY <1>1, <2>2
  <2>5. ASSUME NEW i \in 1..(Len(s) - n)
        PROVE  Recent(s)[i] = t[n + i]
    <3>1. (n + 1) + i - 1 = n + i
      OBVIOUS
    <3> QED
      BY <2>2, <2>3, <3>1
  <2> QED
    BY <2>2, <2>4, <2>5
<1>10. \A i \in 1..(Len(s) - n) : Recent(s)[i] = s[n + i] + 1
  BY <1>1, <1>2, <1>9
<1>11. ASSUME NEW i \in 1..Len(Recent(s)), NEW j \in 1..Len(Recent(s)), i <= j
       PROVE  Recent(s)[j] <= Recent(s)[i]
  <2>1. n + i \in 1..Len(s) /\ n + j \in 1..Len(s) /\ n + i <= n + j
    BY <1>1, <1>9, <1>11
  <2>2. s[n + j] <= s[n + i] /\ s[n + i] \in Nat /\ s[n + j] \in Nat
    BY <1>2, <2>1 DEF Fresh
  <2> QED
    BY <1>9, <1>10, <2>2
<1>12. Fresh(Recent(s))
  BY <1>9, <1>11 DEF Fresh
<1>13. Len(Recent(s)) <= Len(s)
  BY <1>1, <1>9
<1> QED
  BY <1>6, <1>7, <1>9, <1>10, <1>12, <1>13

-----------------------------------------------------------------------------
(* The inductive invariant *)

(* What the limiter's deque holds beyond the entries that left the window  *)
(* is exactly what was admitted within it.                                 *)
LimiterKnows ==
  \E n \in 0..Len(calls) : /\ IsGone(n, calls, Window)
                           /\ Len(admitted) = Len(calls) - n
                           /\ \A i \in 1..Len(admitted) : admitted[i] = calls[n + i]

(* A sleeper wakes when the oldest admission leaves the window, not before *)
(* and not after.                                                          *)
SleepersWaitForTheOldest ==
  \A t \in Task : pc[t] = "asleep" /\ timer[t] > 0 =>
    Len(admitted) = Quota /\ timer[t] = Window - admitted[1]

(* A task that runs belongs to a purge that has begun, ...                 *)
TasksHaveBegun == \A t \in Task : t[1] > purges => pc[t] = "off"

(* ... and while purge() waits there is one for each URL of the batch, and *)
(* its result is right.                                                    *)
TasksServeTheBatch ==
  batch # {} =>
    /\ outcome = "none" /\ purges \in 1..MaxPurges
    /\ \A t \in Task : t[1] = purges =>
         /\ pc[t] # "off" <=> t[2] \in batch
         /\ pc[t] = "done" => result[t] # "none"
         /\ result[t] = "ok" => t[2] \in accepted

IInv == /\ TypeOK /\ Fresh(admitted)
        /\ LimiterKnows /\ AdmissionsAreBounded /\ SleepersWaitForTheOldest
        /\ TasksHaveBegun /\ TasksServeTheBatch /\ OkMeansAccepted

(* A task is the number of its purge and its URL.                          *)
LEMMA TaskPair ==
  \A t \in Task : t = <<t[1], t[2]>> /\ t[1] \in 1..MaxPurges /\ t[2] \in URLs
BY DEF Task

-----------------------------------------------------------------------------
(* The limiter *)

(* What acquire() keeps of the deque is what was admitted in the window. *)
LEMMA ExpiredIsAdmitted ==
  ASSUME TypeOK, LimiterKnows, Fresh(admitted)
  PROVE  Expired = admitted
<1>1. calls \in Seq(0..Window) /\ Len(calls) \in Nat /\ Window \in Nat
      /\ calls \in Seq(Nat) /\ admitted \in Seq(0..(Window - 1))
  BY GcpAssumption DEF TypeOK, Ages, Fresh
<1>2. PICK n \in 0..Len(calls) :
        /\ IsGone(n, calls, Window)
        /\ Len(admitted) = Len(calls) - n
        /\ \A i \in 1..Len(admitted) : admitted[i] = calls[n + i]
  BY DEF LimiterKnows
<1>3. Expired = SubSeq(calls, n + 1, Len(calls))
  BY <1>1, <1>2, LiveIs DEF Expired
<1>4. \A i \in (n + 1)..Len(calls) : calls[i] \in Nat
  BY <1>1
<1>5. /\ Expired \in Seq(Nat)
      /\ Len(Expired) = IF n + 1 <= Len(calls) THEN Len(calls) - (n + 1) + 1 ELSE 0
      /\ \A i \in 1..(Len(calls) - (n + 1) + 1) : Expired[i] = calls[(n + 1) + i - 1]
  <2>1. n + 1 \in Int /\ Len(calls) \in Int
    BY <1>1
  <2> QED
    BY <1>3, <1>4, <2>1, SubSeqProperties
<1>6. Len(Expired) = Len(admitted)
  BY <1>1, <1>2, <1>5
<1>7. ASSUME NEW i \in 1..Len(admitted)
      PROVE  Expired[i] = admitted[i]
  <2>1. (n + 1) + i - 1 = n + i /\ Len(calls) - (n + 1) + 1 = Len(admitted)
    BY <1>1, <1>2
  <2> QED
    BY <1>2, <1>5, <2>1
<1>8. admitted \in Seq(Nat)
  BY <1>1
<1> QED
  BY <1>5, <1>6, <1>7, <1>8, SeqEqual

(* A deque that holds the admissions of the window and nothing else. *)
LEMMA NothingGone ==
  ASSUME NEW s, Fresh(s)
  PROVE  \E n \in 0..Len(s) : /\ IsGone(n, s, Window) /\ Len(s) = Len(s) - n
                              /\ \A i \in 1..Len(s) : s[i] = s[n + i]
<1>1. Window \in Nat \ {0} /\ s \in Seq(0..(Window - 1)) /\ Len(s) \in Nat
  BY GcpAssumption DEF Fresh
<1>2. \A i \in 1..Len(s) : s[i] < Window /\ s[i] = s[0 + i]
  BY <1>1
<1>3. IsGone(0, s, Window)
  BY <1>1, <1>2 DEF IsGone
<1> QED
  BY <1>1, <1>2, <1>3

(* A fresh history is a sequence of ages. *)
LEMMA FreshAges ==
  ASSUME NEW s, Fresh(s)
  PROVE  s \in Ages
<1>1. Window \in Nat \ {0} /\ s \in Seq(0..(Window - 1))
  BY GcpAssumption DEF Fresh
<1> QED
  BY <1>1 DEF Ages

(* acquire() admits a task only into a window that is not full, and sends  *)
(* it to sleep only in front of one that is.                               *)
LEMMA AcquireIInv ==
  ASSUME IInv, NEW v \in Task, Acquire(v)
  PROVE  IInv'
<1>1. /\ UNCHANGED <<token, result, batch, outcome, purges, accepted, refused>>
      /\ pc[v] \in {"acquire", "asleep"}
      /\ TypeOK /\ Fresh(admitted) /\ Quota \in Nat \ {0} /\ Window \in Nat \ {0}
      /\ pc \in [Task -> PC] /\ timer \in [Task -> 0..Window]
      /\ Len(admitted) \in Nat
  BY GcpAssumption DEF Acquire, ghosts, caller, IInv, TypeOK, Fresh
<1>2. Expired = admitted
  BY ExpiredIsAdmitted DEF IInv
<1>4. ASSUME NEW to \in {"admitted", "asleep"}, pc' = [pc EXCEPT ![v] = to]
      PROVE  /\ pc' \in [Task -> PC] /\ TasksHaveBegun' /\ TasksServeTheBatch'
             /\ OkMeansAccepted'
             /\ \A u \in Task : pc'[u] = IF u = v THEN to ELSE pc[u]
  <2>1. pc' \in [Task -> PC] /\ \A u \in Task : pc'[u] = IF u = v THEN to ELSE pc[u]
    BY <1>1, <1>4 DEF PC
  <2>2. TasksHaveBegun' /\ TasksServeTheBatch'
    BY <1>1, <2>1 DEF IInv, TasksHaveBegun, TasksServeTheBatch
  <2>3. OkMeansAccepted'
    BY <1>1, <2>1 DEF IInv, OkMeansAccepted
  <2> QED
    BY <2>1, <2>2, <2>3
<1>5. CASE /\ Len(admitted) < Quota /\ calls' = Append(admitted, 0)
           /\ admitted' = Append(admitted, 0) /\ Goto(v, "admitted") /\ UNCHANGED timer
  <2>1. Fresh(admitted') /\ Len(admitted') = Len(admitted) + 1 /\ calls' = admitted'
    BY <1>1, <1>5, FreshAppend
  <2>2. /\ pc' \in [Task -> PC] /\ TasksHaveBegun' /\ TasksServeTheBatch'
        /\ OkMeansAccepted'
        /\ \A u \in Task : pc'[u] = IF u = v THEN "admitted" ELSE pc[u]
    BY <1>4, <1>5 DEF Goto
  <2>3. TypeOK'
    BY <1>1, <1>5, <2>1, <2>2, FreshAges DEF TypeOK
  <2>4. LimiterKnows'
    BY <2>1, NothingGone DEF LimiterKnows
  <2>5. AdmissionsAreBounded'
    BY <1>1, <1>5, <2>1 DEF AdmissionsAreBounded
  <2>6. SleepersWaitForTheOldest'
    BY <1>1, <1>5, <2>2 DEF IInv, SleepersWaitForTheOldest
  <2> QED
    BY <1>1, <2>1, <2>2, <2>3, <2>4, <2>5, <2>6 DEF IInv
<1>6. CASE /\ Len(admitted) >= Quota /\ calls' = admitted
           /\ timer' = [timer EXCEPT ![v] = Delay(admitted)]
           /\ Goto(v, "asleep") /\ UNCHANGED admitted
  <2>1. Len(admitted) = Quota /\ admitted[1] \in 0..(Window - 1)
    BY <1>1, <1>6 DEF IInv, AdmissionsAreBounded, Fresh
  <2>2. Delay(admitted) = Window - admitted[1] /\ Delay(admitted) \in 0..Window
    BY <1>1, <2>1 DEF Delay, Fresh
  <2>3. /\ timer' \in [Task -> 0..Window]
        /\ \A u \in Task : timer'[u] = IF u = v THEN Window - admitted[1] ELSE timer[u]
    BY <1>1, <1>6, <2>2
  <2>4. /\ pc' \in [Task -> PC] /\ TasksHaveBegun' /\ TasksServeTheBatch'
        /\ OkMeansAccepted'
        /\ \A u \in Task : pc'[u] = IF u = v THEN "asleep" ELSE pc[u]
    BY <1>4, <1>6 DEF Goto
  <2>5. TypeOK'
    BY <1>1, <1>6, <2>3, <2>4, FreshAges DEF TypeOK
  <2>6. LimiterKnows'
    BY <1>1, <1>6, NothingGone DEF LimiterKnows
  <2>7. SleepersWaitForTheOldest'
    BY <1>6, <2>1, <2>3, <2>4 DEF IInv, SleepersWaitForTheOldest
  <2> QED
    BY <1>1, <1>6, <2>4, <2>5, <2>6, <2>7 DEF IInv, AdmissionsAreBounded
<1> QED
  BY <1>2, <1>5, <1>6 DEF Acquire

(* Time makes every history older alike; a sleeper's timer runs down with  *)
(* the oldest admission it waits for.                                      *)
LEMMA TickIInv ==
  ASSUME IInv, Tick
  PROVE  IInv'
<1>1. /\ UNCHANGED <<pc, token, result, batch, outcome, purges, accepted, refused>>
      /\ calls' = [i \in DOMAIN calls |-> IF calls[i] < Window THEN calls[i] + 1 ELSE Window]
      /\ admitted' = Recent(admitted)
      /\ timer' = [u \in Task |-> IF timer[u] > 0 THEN timer[u] - 1 ELSE 0]
  BY DEF Tick, caller, ghosts
<1>2. /\ TypeOK /\ Window \in Nat \ {0} /\ calls \in Seq(0..Window) /\ Len(calls) \in Nat
      /\ timer \in [Task -> 0..Window] /\ admitted \in Seq(0..(Window - 1)) /\ Quota \in Nat \ {0}
      /\ Len(admitted) \in Nat
  BY GcpAssumption DEF IInv, TypeOK, Ages, Fresh
<1>3. /\ Fresh(admitted') /\ Len(admitted') <= Len(admitted)
  BY <1>1, RecentFresh DEF IInv
<1>4. PICK m \in 0..Len(admitted) :
        /\ \A i \in 1..m : admitted[i] = Window - 1
        /\ \A i \in 1..Len(admitted) : i > m => admitted[i] < Window - 1
        /\ Len(admitted') = Len(admitted) - m
        /\ \A i \in 1..(Len(admitted) - m) : admitted'[i] = admitted[m + i] + 1
  BY <1>1, RecentFresh DEF IInv
<1>5. /\ calls' \in Seq(0..Window) /\ Len(calls') = Len(calls)
      /\ \A i \in 1..Len(calls) : calls'[i] = IF calls[i] < Window THEN calls[i] + 1 ELSE Window
      /\ \A i \in 1..Len(calls) : calls[i] \in 0..Window
  <2>1. DOMAIN calls = 1..Len(calls) /\ \A i \in 1..Len(calls) : calls[i] \in 0..Window
    BY <1>2
  <2>2. \A i \in 1..Len(calls) :
          /\ calls'[i] = IF calls[i] < Window THEN calls[i] + 1 ELSE Window
          /\ calls'[i] \in 0..Window
    BY <1>1, <1>2, <2>1
  <2>3. calls' = [i \in 1..Len(calls) |-> calls'[i]]
    BY <1>1, <2>1
  <2>4. calls' \in Seq(0..Window) /\ Len(calls') = Len(calls)
    BY <1>2, <2>2, <2>3, SMTT(30)
  <2> QED
    BY <2>1, <2>2, <2>4
<1>6. /\ timer' \in [Task -> 0..Window]
      /\ \A u \in Task : timer'[u] = IF timer[u] > 0 THEN timer[u] - 1 ELSE 0
  BY <1>1, <1>2
<1>7. TypeOK'
  BY <1>1, <1>2, <1>3, <1>5, <1>6, FreshAges DEF TypeOK, Ages
<1>8. LimiterKnows'
  <2>1. PICK n \in 0..Len(calls) :
          /\ IsGone(n, calls, Window)
          /\ Len(admitted) = Len(calls) - n
          /\ \A i \in 1..Len(admitted) : admitted[i] = calls[n + i]
    BY DEF IInv, LimiterKnows
  <2>2. n + m \in 0..Len(calls') /\ Len(admitted') = Len(calls') - (n + m)
    BY <1>2, <1>4, <1>5, <2>1
  <2>3. ASSUME NEW i \in 1..(n + m)
        PROVE  calls'[i] >= Window
    <3>0. i \in 1..Len(calls)
      BY <1>2, <2>1
    <3>1. CASE i <= n
      <4>1. calls[i] >= Window
        BY <2>1, <3>1 DEF IsGone
      <4> QED
        BY <1>2, <1>5, <3>0, <4>1
    <3>2. CASE i > n
      <4>1. i - n \in 1..m /\ i - n \in 1..Len(admitted) /\ n + (i - n) = i
        BY <1>2, <3>2
      <4>2. calls[i] = Window - 1
        BY <1>4, <2>1, <4>1
      <4>3. calls[i] < Window /\ calls[i] + 1 = Window
        BY <1>2, <4>2
      <4>4. calls'[i] = calls[i] + 1
        BY <1>5, <3>0, <4>3
      <4> QED
        BY <1>2, <4>3, <4>4
    <3> QED
      BY <3>1, <3>2
  <2>4. ASSUME NEW i \in 1..(Len(admitted) - m)
        PROVE  /\ calls'[(n + m) + i] < Window
               /\ admitted'[i] = calls'[(n + m) + i]
    <3>1. m + i \in 1..Len(admitted) /\ m + i > m
          /\ (n + m) + i \in 1..Len(calls) /\ n + (m + i) = (n + m) + i
      <4>1. Len(admitted) = Len(calls) - n
        BY <2>1
      <4> QED
        BY <1>2, <4>1
    <3>2. calls[(n + m) + i] = admitted[m + i] /\ admitted[m + i] < Window - 1
      BY <1>4, <2>1, <3>1
    <3>3. calls'[(n + m) + i] = admitted[m + i] + 1 /\ admitted[m + i] \in Nat
      BY <1>2, <1>5, <3>1, <3>2, SMTT(30)
    <3> QED
      BY <1>2, <1>4, <3>2, <3>3
  <2>5. IsGone(n + m, calls', Window)
    <3>1. n + m < Len(calls') => calls'[(n + m) + 1] < Window
      <4> SUFFICES ASSUME n + m < Len(calls')
                   PROVE  1 \in 1..(Len(admitted) - m)
        BY <2>4
      <4> QED
        BY <1>2, <1>5, <2>1
    <3> QED
      BY <2>3, <3>1 DEF IsGone
  <2>6. \A i \in 1..Len(admitted') : admitted'[i] = calls'[(n + m) + i]
    BY <1>4, <2>4
  <2> QED
    BY <2>2, <2>5, <2>6 DEF LimiterKnows
<1>9. AdmissionsAreBounded'
  BY <1>2, <1>3 DEF IInv, AdmissionsAreBounded, Fresh
<1>10. SleepersWaitForTheOldest'
  <2> SUFFICES ASSUME NEW u \in Task, pc[u] = "asleep", timer'[u] > 0
               PROVE  Len(admitted') = Quota /\ timer'[u] = Window - admitted'[1]
    BY <1>1 DEF SleepersWaitForTheOldest
  <2>1. timer[u] \in 0..Window /\ timer[u] > 0 /\ timer'[u] = timer[u] - 1
    BY <1>2, <1>6
  <2>2. Len(admitted) = Quota /\ timer[u] = Window - admitted[1] /\ 1 \in 1..Len(admitted)
        /\ admitted[1] \in 0..(Window - 1)
    BY <1>2, <2>1 DEF IInv, SleepersWaitForTheOldest
  <2>3. m = 0
    <3> SUFFICES ASSUME m # 0 PROVE FALSE
      OBVIOUS
    <3>1. admitted[1] = Window - 1
      BY <1>4
    <3> QED
      BY <1>2, <2>1, <2>2, <3>1
  <2>4. 1 \in 1..(Len(admitted) - m) /\ m + 1 = 1
    BY <1>2, <2>2, <2>3
  <2>5. admitted'[1] = admitted[1] + 1
    BY <1>4, <2>3, <2>4
  <2> QED
    BY <1>2, <1>4, <2>1, <2>2, <2>3, <2>5
<1>11. TasksHaveBegun' /\ TasksServeTheBatch' /\ OkMeansAccepted'
  BY <1>1 DEF IInv, TasksHaveBegun, TasksServeTheBatch, OkMeansAccepted
<1> QED
  BY <1>3, <1>7, <1>8, <1>9, <1>10, <1>11 DEF IInv

-----------------------------------------------------------------------------
(* The tasks *)

(* A task past the limiter leaves it alone, and ends with a result.        *)
LEMMA TaskIInv ==
  ASSUME IInv, NEW v \in Task, NEW to \in {"token", "refresh", "sending", "done"},
         pc[v] \notin {"off", "done", "asleep"}, Goto(v, to),
         UNCHANGED <<calls, admitted, timer, batch, outcome, purges>>,
         token' \in {"none", "valid", "expired"},
         accepted \subseteq accepted', accepted' \subseteq URLs, refused' \subseteq URLs,
         to # "done" \/ ~Heard(v) => UNCHANGED result,
         to = "done" /\ Heard(v) =>
           \E r \in {"ok", "retryable", "terminal"} :
              /\ result' = [result EXCEPT ![v] = r]
              /\ r = "ok" => v[2] \in accepted'
  PROVE  IInv'
<1>1. TypeOK /\ pc \in [Task -> PC] /\ result \in [Task -> Results]
  BY DEF IInv, TypeOK
<1>2. pc' \in [Task -> PC] /\ \A t \in Task : pc'[t] = IF t = v THEN to ELSE pc[t]
  BY <1>1 DEF Goto, PC
<1>3. /\ result' \in [Task -> Results]
      /\ \A t \in Task : t # v => result'[t] = result[t]
      /\ to = "done" /\ Heard(v) => result'[v] # "none"
      /\ result'[v] = "ok" => result[v] = "ok" \/ v[2] \in accepted'
  BY <1>1 DEF Results
<1>4. TypeOK'
  BY <1>1, <1>2, <1>3 DEF TypeOK
<1>5. TasksHaveBegun'
  BY <1>2 DEF IInv, TasksHaveBegun
<1>6. TasksServeTheBatch'
  BY <1>2, <1>3 DEF IInv, TasksServeTheBatch, Heard
<1>7. OkMeansAccepted'
  BY <1>2 DEF IInv, OkMeansAccepted
<1>8. LimiterKnows' /\ AdmissionsAreBounded' /\ SleepersWaitForTheOldest' /\ Fresh(admitted')
  BY <1>2 DEF IInv, LimiterKnows, AdmissionsAreBounded, SleepersWaitForTheOldest
<1> QED
  BY <1>4, <1>5, <1>6, <1>7, <1>8 DEF IInv

(* A task that raises ends the purge that waits for it, with a verdict     *)
(* other than ok.                                                          *)
LEMMA RaiseIInv ==
  ASSUME IInv, NEW v \in Task, pc[v] \notin {"off", "done", "asleep"}, Raise(v),
         UNCHANGED <<calls, admitted, timer, purges, result, accepted, refused>>,
         token' \in {"none", "valid", "expired"}
  PROVE  IInv'
<1>1. TypeOK /\ pc \in [Task -> PC] /\ batch \in SUBSET URLs /\ outcome \in Results
  BY DEF IInv, TypeOK
<1>2. pc' \in [Task -> PC] /\ \A t \in Task : pc'[t] = IF t = v THEN "done" ELSE pc[t]
  BY <1>1 DEF Raise, Goto, PC
<1>3. \/ Heard(v) /\ batch' = {} /\ outcome' = "retryable"
      \/ ~Heard(v) /\ UNCHANGED <<batch, outcome>>
  BY DEF Raise
<1>4. TypeOK'
  BY <1>1, <1>2, <1>3 DEF TypeOK, Results
<1>5. TasksHaveBegun'
  BY <1>2 DEF IInv, TasksHaveBegun
<1>6. TasksServeTheBatch'
  BY <1>2, <1>3 DEF IInv, TasksServeTheBatch, Heard
<1>7. OkMeansAccepted'
  BY <1>2, <1>3 DEF IInv, OkMeansAccepted
<1>8. LimiterKnows' /\ AdmissionsAreBounded' /\ SleepersWaitForTheOldest' /\ Fresh(admitted')
  BY <1>2 DEF IInv, LimiterKnows, AdmissionsAreBounded, SleepersWaitForTheOldest
<1> QED
  BY <1>4, <1>5, <1>6, <1>7, <1>8 DEF IInv

(* A request is sent, or cannot be.                                        *)
LEMMA PostIInv ==
  ASSUME IInv, NEW v \in Task, pc[v] \in {"token", "refresh"}, Post(v),
         UNCHANGED <<calls, admitted, timer, purges, result, accepted, refused>>,
         token' \in {"none", "valid", "expired"}
  PROVE  IInv'
<1>1. TypeOK
  BY DEF IInv
<1>2. CASE Goto(v, "sending") /\ UNCHANGED <<batch, outcome>>
  BY <1>1, <1>2, TaskIInv DEF TypeOK
<1>3. CASE Raise(v)
  BY <1>3, RaiseIInv
<1> QED
  BY <1>2, <1>3 DEF Post

(* Every step of a task. *)
LEMMA StepIInv ==
  ASSUME IInv, NEW v \in Task, Step(v)
  PROVE  IInv'
<1>1. TypeOK /\ v[2] \in URLs
  BY TaskPair DEF IInv
<1>2. CASE Acquire(v)
  BY <1>2, AcquireIInv
<1>3. CASE EnterSemaphore(v)
  BY <1>1, <1>3, TaskIInv DEF EnterSemaphore, limiter, caller, ghosts, TypeOK
<1>4. CASE GetToken(v)
  <2>1. CASE token = "valid" /\ Post(v)
    BY <1>1, <1>4, <2>1, PostIInv DEF GetToken, limiter, ghosts, TypeOK
  <2>2. CASE Goto(v, "refresh") /\ UNCHANGED <<batch, outcome>>
    BY <1>1, <1>4, <2>2, TaskIInv DEF GetToken, limiter, ghosts, TypeOK
  <2> QED
    BY <1>4, <2>1, <2>2 DEF GetToken
<1>5. CASE Refreshed(v)
  BY <1>5, PostIInv DEF Refreshed, limiter, ghosts
<1>6. CASE KeyRefused(v)
  BY <1>1, <1>6, TaskIInv DEF KeyRefused, Finish, limiter, caller, TypeOK
<1>7. CASE TokenServerUnreachable(v)
  BY <1>1, <1>7, TaskIInv DEF TokenServerUnreachable, Finish, limiter, caller, ghosts, TypeOK
<1>8. ASSUME NEW r \in {"ok", "retryable", "terminal"}, Answer(v, r)
      PROVE  IInv'
  BY <1>1, <1>8, TaskIInv DEF Answer, Finish, limiter, caller, TypeOK
<1> QED
  BY <1>2, <1>3, <1>4, <1>5, <1>6, <1>7, <1>8 DEF Step

(* A new purge() starts its own tasks, and leaves those at work alone. *)
LEMMA PurgeIInv ==
  ASSUME IInv, NEW urls \in (SUBSET URLs) \ {{}}, Purge(urls)
  PROVE  IInv'
<1>0. /\ batch' = urls /\ outcome' = "none" /\ accepted' = {} /\ refused' = {}
      /\ result' = [t \in Task |-> "none"]
      /\ purges' = purges + 1 /\ purges < MaxPurges
      /\ UNCHANGED <<calls, admitted, timer, token>>
  BY DEF Purge, limiter
<1>1. TypeOK /\ pc \in [Task -> PC] /\ purges \in Nat /\ MaxPurges \in Nat /\ purges' \in 1..MaxPurges
  BY <1>0, GcpAssumption DEF IInv, TypeOK
<1>2. \A t \in Task : t \in {purges + 1} \X urls <=> t[1] = purges + 1 /\ t[2] \in urls
  BY TaskPair
<1>3. /\ pc' \in [Task -> PC]
      /\ \A t \in Task : pc'[t] = IF t[1] = purges + 1 /\ t[2] \in urls THEN "acquire"
                               ELSE IF pc[t] = "done" THEN "off" ELSE pc[t]
  BY <1>1, <1>2 DEF Purge, PC
<1>4. TypeOK'
  BY <1>0, <1>1, <1>3 DEF TypeOK, Results
<1>5. TasksHaveBegun'
  <2> SUFFICES ASSUME NEW t \in Task, t[1] > purges + 1 PROVE pc'[t] = "off"
    BY <1>0 DEF TasksHaveBegun
  <2>1. t[1] \in Nat /\ t[1] > purges /\ t[1] # purges + 1
    BY <1>1, TaskPair
  <2>2. pc[t] = "off"
    BY <2>1 DEF IInv, TasksHaveBegun
  <2> QED
    BY <1>3, <2>1, <2>2
<1>6. TasksServeTheBatch'
  <2>1. ASSUME NEW t \in Task, t[1] = purges + 1
        PROVE  (pc'[t] # "off" <=> t[2] \in urls) /\ pc'[t] # "done" /\ result'[t] = "none"
    <3>1. pc[t] = "off"
      BY <1>1, <2>1 DEF IInv, TasksHaveBegun
    <3> QED
      BY <1>0, <1>3, <2>1, <3>1
  <2> QED
    BY <1>0, <1>1, <2>1 DEF TasksServeTheBatch
<1>7. OkMeansAccepted'
  BY <1>0 DEF OkMeansAccepted
<1>8. LimiterKnows' /\ AdmissionsAreBounded' /\ SleepersWaitForTheOldest' /\ Fresh(admitted')
  BY <1>0, <1>3 DEF IInv, LimiterKnows, AdmissionsAreBounded, SleepersWaitForTheOldest
<1> QED
  BY <1>4, <1>5, <1>6, <1>7, <1>8 DEF IInv

(* The verdict is ok only if every result is. *)
LEMMA VerdictOk ==
  ASSUME IInv, batch # {}, \A t \in Own : pc[t] = "done", Verdict = "ok"
  PROVE  batch \subseteq accepted
<1> SUFFICES ASSUME NEW u \in batch PROVE u \in accepted
  OBVIOUS
<1>0. u \in URLs /\ purges \in 1..MaxPurges
  BY DEF IInv, TypeOK, TasksServeTheBatch
<1>1. PICK t \in Task : t = <<purges, u>> /\ t[1] = purges /\ t[2] = u /\ t \in Own
  <2> DEFINE own == <<purges, u>>
  <2>1. own \in Task /\ own \in Own /\ own[1] = purges /\ own[2] = u
    BY <1>0 DEF Task, Own
  <2> QED
    BY <2>1
<1>2. /\ result[t] \in Results /\ result[t] # "none"
      /\ result[t] # "terminal" /\ result[t] # "retryable"
  BY <1>1 DEF IInv, TypeOK, TasksServeTheBatch, Verdict
<1> QED
  BY <1>1, <1>2 DEF IInv, TasksServeTheBatch, Results

(* purge() returns. *)
LEMMA ReturnIInv ==
  ASSUME IInv, Return
  PROVE  IInv'
<1>1. /\ batch # {} /\ \A t \in Own : pc[t] = "done"
      /\ outcome' = Verdict /\ batch' = {}
      /\ UNCHANGED <<calls, admitted, pc, timer, result, token, purges, accepted, refused>>
  BY DEF Return, limiter, task, ghosts
<1>2. Verdict \in Results
  BY DEF Verdict, Results
<1>3. TypeOK'
  BY <1>1, <1>2 DEF IInv, TypeOK
<1>4. TasksHaveBegun' /\ TasksServeTheBatch'
  BY <1>1 DEF IInv, TasksHaveBegun, TasksServeTheBatch
<1>5. OkMeansAccepted'
  BY <1>1, VerdictOk DEF IInv, TasksServeTheBatch, OkMeansAccepted
<1>6. LimiterKnows' /\ AdmissionsAreBounded' /\ SleepersWaitForTheOldest' /\ Fresh(admitted')
  BY <1>1 DEF IInv, LimiterKnows, AdmissionsAreBounded, SleepersWaitForTheOldest
<1> QED
  BY <1>3, <1>4, <1>5, <1>6 DEF IInv

(* A token that expires, and a stutter, touch nothing of this. *)
LEMMA ExpiryIInv ==
  ASSUME IInv, TokenExpires \/ UNCHANGED vars
  PROVE  IInv'
<1>1. /\ UNCHANGED <<calls, admitted, pc, timer, result, batch, outcome, purges,
                     accepted, refused>>
      /\ token' \in {token, "expired"}
  BY DEF TokenExpires, vars, limiter, task, caller, ghosts
<1>2. TypeOK'
  BY <1>1 DEF IInv, TypeOK
<1> QED
  BY <1>1, <1>2 DEF IInv, LimiterKnows, AdmissionsAreBounded, SleepersWaitForTheOldest,
                    TasksHaveBegun, TasksServeTheBatch, OkMeansAccepted

(* The initial state satisfies the invariant. *)
LEMMA InitIInv == Init => IInv
<1> SUFFICES ASSUME Init PROVE IInv
  OBVIOUS
<1>1. Window \in Nat \ {0} /\ Quota \in Nat \ {0}
  BY GcpAssumption
<1>2. Fresh(<< >>)
  BY DEF Fresh
<1>3. TypeOK
  BY <1>1, GcpAssumption DEF Init, TypeOK, Ages, PC, Results
<1>4. LimiterKnows
  BY <1>2, NothingGone DEF Init, LimiterKnows
<1>5. /\ AdmissionsAreBounded /\ SleepersWaitForTheOldest
      /\ TasksHaveBegun /\ TasksServeTheBatch /\ OkMeansAccepted
  BY <1>1 DEF Init, AdmissionsAreBounded, SleepersWaitForTheOldest, TasksHaveBegun,
              TasksServeTheBatch, OkMeansAccepted
<1> QED
  BY <1>2, <1>3, <1>4, <1>5 DEF IInv, Init

-----------------------------------------------------------------------------
(* Theorems *)

(* The invariant holds throughout. *)
LEMMA Invariant == Spec => []IInv
<1>1. IInv /\ [Next]_vars => IInv'
  BY PurgeIInv, StepIInv, ReturnIInv, ExpiryIInv, TickIInv DEF Next
<1> QED
  BY <1>1, InitIInv, PTL DEF Spec

(* Every state of the provider is well formed: no sleep is negative, no    *)
(* age beyond the window is kept.                                          *)
THEOREM GcpTypeCorrect == Spec => []TypeOK
BY Invariant, PTL DEF IInv

(* The limiter never admits more than quota_per_minute calls within one    *)
(* window, however many sleepers wake together.                            *)
THEOREM GcpAdmissionsAreBounded == Spec => []AdmissionsAreBounded
BY Invariant, PTL DEF IInv

(* It never holds back a task while the window has room.                   *)
THEOREM GcpNoNeedlessWait == Spec => []NoNeedlessWait
<1>1. IInv => NoNeedlessWait
  BY DEF IInv, SleepersWaitForTheOldest, NoNeedlessWait
<1> QED
  BY <1>1, Invariant, PTL

(* purge() answers ok only if the API accepted every URL of the batch.     *)
THEOREM GcpOkMeansAccepted == Spec => []OkMeansAccepted
BY Invariant, PTL DEF IInv

(* The provider is what the queue worker takes it for (providers/base.py). *)
THEOREM GcpImplementsContract == Spec => ImplementsContract
<1>1. Init => Contract!Init
  BY DEF Init, Contract!Init
<1>2. ASSUME IInv, [Next]_vars
      PROVE  [Contract!Next]_Contract!vars
  <2>1. TypeOK
    BY <1>2 DEF IInv
  <2>2. ASSUME NEW urls \in (SUBSET URLs) \ {{}}, Purge(urls)
        PROVE  Contract!Begin
    BY <2>2 DEF Purge, Contract!Begin
  <2>3. ASSUME NEW t \in Task, Post(t), UNCHANGED accepted
        PROVE  Contract!Return("retryable") \/ UNCHANGED Contract!vars
    BY <2>3 DEF Post, Raise, Heard, Contract!Return, Contract!vars
  <2>4. ASSUME NEW t \in Task, Step(t)
        PROVE  Contract!Accept \/ Contract!Return("retryable") \/ UNCHANGED Contract!vars
    <3>1. CASE Acquire(t) \/ EnterSemaphore(t) \/ KeyRefused(t) \/ TokenServerUnreachable(t)
      BY <3>1 DEF Acquire, EnterSemaphore, KeyRefused, TokenServerUnreachable, caller, ghosts,
                  Contract!vars
    <3>2. CASE GetToken(t) \/ Refreshed(t)
      BY <2>3, <3>2 DEF GetToken, Refreshed, ghosts, Contract!vars
    <3>3. ASSUME NEW r \in {"ok", "retryable", "terminal"}, Answer(t, r)
          PROVE  Contract!Accept
      BY <2>1, <3>3, TaskPair DEF Answer, caller, TypeOK, Contract!Accept
    <3> QED
      BY <2>4, <3>1, <3>2, <3>3 DEF Step
  <2>5. CASE Return
    <3>1. Verdict = "ok" => batch \subseteq accepted
      BY <1>2, <2>5, VerdictOk DEF Return
    <3>2. Contract!Return(Verdict)
      BY <2>5, <3>1 DEF Return, ghosts, Contract!Return
    <3>3. Verdict \in {"ok", "retryable", "terminal"}
      BY DEF Verdict
    <3> QED
      BY <3>2, <3>3 DEF Contract!Next
  <2>6. CASE TokenExpires \/ Tick \/ UNCHANGED vars
    BY <2>6 DEF TokenExpires, Tick, vars, caller, ghosts, Contract!vars
  <2> QED
    BY <1>2, <2>2, <2>4, <2>5, <2>6 DEF Next, Contract!Next
<1> QED
  BY <1>1, <1>2, Invariant, PTL DEF Spec, ImplementsContract, Contract!Spec
=============================================================================
