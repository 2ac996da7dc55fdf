---------------------------- MODULE RoutingProofs ----------------------------
(***************************************************************************)
(* The glob matcher finds a match iff there is one, and the filter and the *)
(* mapper together submit what is due, for every pattern, path and         *)
(* configuration whose roots differ.                                       *)
(*                                                                         *)
(* Induction over patterns is put as a search for the least counterexample.*)
(***************************************************************************)
EXTENDS Routing, WellFoundedInduction, TLAPS

(* The smallest of some numbers.                                           *)
LEMMA Smallest ==
  ASSUME NEW T \in SUBSET Nat, T # {}
  PROVE  \E n \in T : \A m \in T : n <= m
<1>1. \E n \in T : \A m \in T : ~(<<m, n>> \in OpToRel(<, Nat))
  BY NatLessThanWellFounded, WFMin
<1>2. PICK n \in T : \A m \in T : ~(<<m, n>> \in OpToRel(<, Nat))
  BY <1>1
<1>3. \A m \in T : ~(m < n)
  BY <1>2 DEF OpToRel
<1> QED
  BY <1>3

-----------------------------------------------------------------------------
(* The rest of a pattern and the rest of a path *)

(* The k-th component of the pattern takes the path from n to j.           *)
Link(pp, sp, k, n, j) ==
  IF pp[k] = "**" THEN n <= j ELSE j = n + 1 /\ Fnmatch(sp[j], pp[k])

(* The path after its first n components can be cut into stretches for the *)
(* components of the pattern after its first m.                            *)
Fits(pp, sp, m, n) ==
  \E cut \in [m..Len(pp) -> 0..Len(sp)] :
    /\ cut[m] = n /\ cut[Len(pp)] = Len(sp)
    /\ \A k \in m + 1..Len(pp) : Link(pp, sp, k, cut[k - 1], cut[k])

(* Nothing is left of a pattern that is used up.                           *)
LEMMA FitsEnd ==
  ASSUME NEW S, NEW pp \in Seq(S), NEW T, NEW sp \in Seq(T), NEW n \in 0..Len(sp)
  PROVE  Fits(pp, sp, Len(pp), n) <=> n = Len(sp)
<1>1. Len(pp) \in Nat /\ Len(sp) \in Nat
  OBVIOUS
<1>2. ASSUME n = Len(sp) PROVE Fits(pp, sp, Len(pp), n)
  <2>1. PICK cut : cut = [k \in Len(pp)..Len(pp) |-> Len(sp)]
    OBVIOUS
  <2>2. cut \in [Len(pp)..Len(pp) -> 0..Len(sp)] /\ cut[Len(pp)] = Len(sp)
    BY <1>1, <2>1
  <2>3. Len(pp) + 1..Len(pp) = {}
    BY <1>1
  <2> QED
    BY <1>2, <2>2, <2>3 DEF Fits
<1> QED
  BY <1>2 DEF Fits

(* The next component of the pattern takes a stretch, the rest the others. *)
LEMMA FitsNext ==
  ASSUME NEW S, NEW pp \in Seq(S), NEW T, NEW sp \in Seq(T),
         NEW m \in 0..Len(pp) - 1, NEW n \in 0..Len(sp)
  PROVE  Fits(pp, sp, m, n) <=>
           \E j \in 0..Len(sp) : Link(pp, sp, m + 1, n, j) /\ Fits(pp, sp, m + 1, j)
<1>1. Len(pp) \in Nat /\ Len(sp) \in Nat /\ m \in Nat /\ m < Len(pp)
  OBVIOUS
<1>2. ASSUME Fits(pp, sp, m, n)
      PROVE  \E j \in 0..Len(sp) : Link(pp, sp, m + 1, n, j) /\ Fits(pp, sp, m + 1, j)
  <2>1. PICK cut \in [m..Len(pp) -> 0..Len(sp)] :
          /\ cut[m] = n /\ cut[Len(pp)] = Len(sp)
          /\ \A k \in m + 1..Len(pp) : Link(pp, sp, k, cut[k - 1], cut[k])
    BY <1>2 DEF Fits
  <2>2. PICK c : c = [k \in m + 1..Len(pp) |-> cut[k]]
    OBVIOUS
  <2>3. m + 1 \in m..Len(pp) /\ \A k \in m + 1..Len(pp) : k \in m..Len(pp)
    BY <1>1
  <2>4. c \in [m + 1..Len(pp) -> 0..Len(sp)] /\ c[Len(pp)] = Len(sp) /\ c[m + 1] = cut[m + 1]
    BY <1>1, <2>1, <2>2, <2>3
  <2>5. ASSUME NEW k \in m + 1 + 1..Len(pp) PROVE Link(pp, sp, k, c[k - 1], c[k])
    <3>1. k \in m + 1..Len(pp) /\ k - 1 \in m + 1..Len(pp)
      BY <1>1
    <3> QED
      BY <2>1, <2>2, <3>1
  <2>6. Fits(pp, sp, m + 1, cut[m + 1])
    BY <2>4, <2>5 DEF Fits
  <2>7. Link(pp, sp, m + 1, n, cut[m + 1]) /\ cut[m + 1] \in 0..Len(sp)
    <3>1. m + 1 \in m + 1..Len(pp) /\ (m + 1) - 1 = m
      BY <1>1
    <3> QED
      BY <2>1, <2>3, <3>1
  <2> QED
    BY <2>6, <2>7
<1>3. ASSUME NEW j \in 0..Len(sp), Link(pp, sp, m + 1, n, j), Fits(pp, sp, m + 1, j)
      PROVE  Fits(pp, sp, m, n)
  <2>1. PICK cut \in [m + 1..Len(pp) -> 0..Len(sp)] :
          /\ cut[m + 1] = j /\ cut[Len(pp)] = Len(sp)
          /\ \A k \in m + 1 + 1..Len(pp) : Link(pp, sp, k, cut[k - 1], cut[k])
    BY <1>3 DEF Fits
  <2>2. PICK c : c = [k \in m..Len(pp) |-> IF k = m THEN n ELSE cut[k]]
    OBVIOUS
  <2>3. /\ c \in [m..Len(pp) -> 0..Len(sp)] /\ c[m] = n
        /\ \A k \in m + 1..Len(pp) : c[k] = cut[k]
    <3>1. \A k \in m..Len(pp) : k # m => k \in m + 1..Len(pp)
      BY <1>1
    <3>2. \A k \in m + 1..Len(pp) : k # m /\ k \in m..Len(pp)
      BY <1>1
    <3>3. m \in m..Len(pp)
      BY <1>1
    <3> QED
      BY <2>1, <2>2, <3>1, <3>2, <3>3
  <2>4. c[Len(pp)] = Len(sp)
    <3>1. Len(pp) \in m + 1..Len(pp)
      BY <1>1
    <3> QED
      BY <2>1, <2>3, <3>1
  <2>5. ASSUME NEW k \in m + 1..Len(pp) PROVE Link(pp, sp, k, c[k - 1], c[k])
    <3>1. CASE k = m + 1
      <4>1. k - 1 = m /\ c[k] = j
        BY <1>1, <2>1, <2>3, <3>1
      <4> QED
        BY <1>3, <2>3, <3>1, <4>1
    <3>2. CASE k # m + 1
      <4>1. k \in m + 1 + 1..Len(pp) /\ k - 1 \in m + 1..Len(pp)
        BY <1>1, <3>2
      <4> QED
        BY <2>1, <2>3, <4>1
    <3> QED
      BY <3>1, <3>2
  <2> QED
    BY <2>3, <2>4, <2>5 DEF Fits
<1> QED
  BY <1>2, <1>3

(* One component takes one, a `**` any number.                             *)
LEMMA FitsOne ==
  ASSUME NEW S, NEW pp \in Seq(S), NEW T, NEW sp \in Seq(T),
         NEW m \in 0..Len(pp) - 1, NEW n \in 0..Len(sp)
  PROVE  /\ pp[m + 1] = "**" =>
              (Fits(pp, sp, m, n) <=> \E j \in n..Len(sp) : Fits(pp, sp, m + 1, j))
         /\ pp[m + 1] # "**" =>
              (Fits(pp, sp, m, n) <=> /\ n < Len(sp) /\ Fnmatch(sp[n + 1], pp[m + 1])
                                      /\ Fits(pp, sp, m + 1, n + 1))
<1>1. Len(pp) \in Nat /\ Len(sp) \in Nat /\ n \in Nat /\ n <= Len(sp)
  OBVIOUS
<1>2. Fits(pp, sp, m, n) <=>
        \E j \in 0..Len(sp) : Link(pp, sp, m + 1, n, j) /\ Fits(pp, sp, m + 1, j)
  BY FitsNext
<1>3. CASE pp[m + 1] = "**"
  <2>1. \A j \in 0..Len(sp) : Link(pp, sp, m + 1, n, j) <=> n <= j
    BY <1>3 DEF Link
  <2>2. \A j : j \in n..Len(sp) <=> j \in 0..Len(sp) /\ n <= j
    BY <1>1
  <2> QED
    BY <1>2, <1>3, <2>1, <2>2
<1>4. CASE pp[m + 1] # "**"
  <2>1. \A j \in 0..Len(sp) : Link(pp, sp, m + 1, n, j) <=> j = n + 1 /\ Fnmatch(sp[j], pp[m + 1])
    BY <1>4 DEF Link
  <2>2. n < Len(sp) <=> n + 1 \in 0..Len(sp)
    BY <1>1
  <2> QED
    BY <1>2, <1>4, <2>1, <2>2
<1> QED
  BY <1>3, <1>4

(* A run of `**` takes any number, as one of them does: otherwise there is *)
(* a shortest run that does not.                                           *)
LEMMA FitsRun ==
  ASSUME NEW S, NEW pp \in Seq(S), NEW T, NEW sp \in Seq(T), NEW m \in Nat,
         NEW k \in Nat, m < k, k <= Len(pp), \A i \in m + 1..k : pp[i] = "**",
         NEW n \in 0..Len(sp)
  PROVE  Fits(pp, sp, m, n) <=> \E j \in n..Len(sp) : Fits(pp, sp, k, j)
<1>1. Len(pp) \in Nat /\ Len(sp) \in Nat
  OBVIOUS
<1> DEFINE Takes(l) == \A i \in 0..Len(sp) :
             Fits(pp, sp, m, i) <=> \E j \in i..Len(sp) : Fits(pp, sp, l, j)
           Bad == {l \in Nat : m < l /\ l <= k /\ ~Takes(l)}
<1>2. ASSUME Bad # {} PROVE FALSE
  <2>1. PICK l \in Bad : \A i \in Bad : l <= i
    <3>1. Bad \in SUBSET Nat
      OBVIOUS
    <3> HIDE DEF Bad
    <3> QED
      BY <1>2, <3>1, Smallest
  <2>2. l \in Nat /\ m < l /\ l <= k /\ ~Takes(l)
    BY <2>1
  <2>3. pp[l] = "**" /\ l - 1 \in 0..Len(pp) - 1 /\ (l - 1) + 1 = l
    BY <1>1, <2>2
  <2>4. ASSUME NEW i \in 0..Len(sp)
        PROVE  Fits(pp, sp, l - 1, i) <=> \E j \in i..Len(sp) : Fits(pp, sp, l, j)
    BY <2>3, FitsOne
  <2>5. CASE l = m + 1
    <3>1. l - 1 = m
      BY <2>5
    <3> QED
      BY <2>2, <2>4, <3>1
  <2>6. CASE l # m + 1
    <3>1. l - 1 \in Nat /\ m < l - 1 /\ l - 1 <= k /\ ~(l <= l - 1)
      BY <2>2, <2>6
    <3>2. Takes(l - 1)
      <4>1. l - 1 \notin Bad
        <5> HIDE DEF Bad
        <5> QED
          BY <2>1, <3>1
      <4> HIDE DEF Takes
      <4> QED
        BY <3>1, <4>1
    <3>3. ASSUME NEW i \in 0..Len(sp)
          PROVE  Fits(pp, sp, m, i) <=> \E j \in i..Len(sp) : Fits(pp, sp, l, j)
      <4>1. Fits(pp, sp, m, i) <=> \E j \in i..Len(sp) : Fits(pp, sp, l - 1, j)
        BY <3>2
      <4>2. \A j \in i..Len(sp) : j \in 0..Len(sp) /\ \A h \in j..Len(sp) : h \in i..Len(sp)
        BY <1>1
      <4>3. \A h \in i..Len(sp) : h \in h..Len(sp)
        BY <1>1
      <4> QED
        BY <2>4, <4>1, <4>2, <4>3
    <3> QED
      BY <2>2, <3>3
  <2> QED
    BY <2>5, <2>6
<1>3. k \notin Bad
  <2> HIDE DEF Bad
  <2> QED
    BY <1>2
<1>4. Takes(k)
  <2> HIDE DEF Takes
  <2> QED
    BY <1>3
<1> QED
  BY <1>4

(* _gm finds the end of a run of `**`.                                     *)
LEMMA RunEnds ==
  ASSUME NEW S, NEW pp \in Seq(S), NEW pi \in 1..Len(pp), pp[pi] = "**"
  PROVE  RunEnd(pp, pi) \in pi..Len(pp) /\ \A i \in pi..RunEnd(pp, pi) : pp[i] = "**"
<1>1. Len(pp) \in Nat
  OBVIOUS
<1> DEFINE Last1 == {k \in pi..Len(pp) : k = Len(pp) \/ pp[k + 1] # "**"}
<1>2. PICK k \in Last1 : \A i \in Last1 : k <= i
  <2>1. Last1 \in SUBSET Nat /\ Len(pp) \in Last1
    BY <1>1
  <2> HIDE DEF Last1
  <2> QED
    BY <2>1, Smallest
<1>3. k \in pi..Len(pp) /\ (k = Len(pp) \/ pp[k + 1] # "**")
  BY <1>2
<1>4. ASSUME NEW i \in pi..k PROVE pp[i] = "**"
  <2>1. CASE i = pi
    BY <2>1
  <2>2. CASE i # pi
    <3>1. i - 1 \in pi..Len(pp) /\ ~(k <= i - 1) /\ (i - 1) + 1 = i
      BY <1>1, <1>3, <2>2
    <3>2. i - 1 \notin Last1
      <4> HIDE DEF Last1
      <4> QED
        BY <1>2, <3>1
    <3> QED
      BY <3>1, <3>2
  <2> QED
    BY <2>1, <2>2
<1>5. \E e \in pi..Len(pp) : /\ \A i \in pi..e : pp[i] = "**"
                             /\ e = Len(pp) \/ pp[e + 1] # "**"
  BY <1>3, <1>4
<1>6. RunEnd(pp, pi) = CHOOSE e \in pi..Len(pp) : /\ \A i \in pi..e : pp[i] = "**"
                                                  /\ e = Len(pp) \/ pp[e + 1] # "**"
  BY DEF RunEnd
<1> QED
  BY <1>5, <1>6

-----------------------------------------------------------------------------
(* The matcher *)

(* One entry of the matcher's table, from those further on.                *)
Entry(pp, sp, gm, pi, si) ==
  IF pi > Len(pp) THEN si > Len(sp)
  ELSE IF pp[pi] = "**"
  THEN LET k == RunEnd(pp, pi)
       IN  k = Len(pp) \/ \E j \in si..Len(sp) + 1 : gm[k + 1][j]
  ELSE si <= Len(sp) /\ Fnmatch(sp[si], pp[pi]) /\ gm[pi + 1][si + 1]

IsTable(pp, sp, gm) ==
  gm = [pi \in 1..Len(pp) + 1 |-> [si \in 1..Len(sp) + 1 |-> Entry(pp, sp, gm, pi, si)]]

(* The entries of the rows after the p-th are what fits.                   *)
RightAfter(pp, sp, gm, p) ==
  \A pi \in p + 1..Len(pp) + 1, si \in 1..Len(sp) + 1 :
    gm[pi][si] = Fits(pp, sp, pi - 1, si - 1)

(* The matcher has a table, if there is any.                               *)
LEMMA GmTable ==
  ASSUME NEW pp, NEW sp, NEW h, IsTable(pp, sp, h)
  PROVE  \E g : Gm(pp, sp) = g[1][1] /\ IsTable(pp, sp, g)
<1> DEFINE Table(gm) ==
             gm = [pi \in 1..Len(pp) + 1 |-> [si \in 1..Len(sp) + 1 |->
               IF pi > Len(pp) THEN si > Len(sp)
               ELSE IF pp[pi] = "**"
               THEN LET k == RunEnd(pp, pi)
                    IN  k = Len(pp) \/ \E j \in si..Len(sp) + 1 : gm[k + 1][j]
               ELSE si <= Len(sp) /\ Fnmatch(sp[si], pp[pi]) /\ gm[pi + 1][si + 1]]]
           g == CHOOSE gm : Table(gm)
<1>1. Table(h)
  BY DEF IsTable, Entry
<1>2. Table(g)
  <2> HIDE DEF Table
  <2> QED
    BY <1>1, Zenon
<1>3. Gm(pp, sp) = g[1][1]
  BY Zenon DEF Gm
<1>4. IsTable(pp, sp, g)
  <2> HIDE DEF g
  <2> QED
    BY <1>2 DEF IsTable, Entry
<1> QED
  <2> HIDE DEF g
  <2> QED
    BY <1>3, <1>4

(* An entry says whether the rests fit, if those further on do.            *)
LEMMA EntryIs ==
  ASSUME NEW S, NEW pp \in Seq(S), NEW T, NEW sp \in Seq(T), NEW g,
         NEW pi \in 1..Len(pp) + 1, NEW si \in 1..Len(sp) + 1,
         RightAfter(pp, sp, g, pi)
  PROVE  Entry(pp, sp, g, pi, si) = Fits(pp, sp, pi - 1, si - 1)
<1>1. /\ Len(pp) \in Nat /\ Len(sp) \in Nat
      /\ pi - 1 \in 0..Len(pp) /\ si - 1 \in 0..Len(sp) /\ (pi - 1) + 1 = pi /\ (si - 1) + 1 = si
  OBVIOUS
<1>2. CASE pi > Len(pp)
  <2>1. pi - 1 = Len(pp) /\ (si > Len(sp) <=> si - 1 = Len(sp))
    BY <1>1, <1>2
  <2>2. Fits(pp, sp, Len(pp), si - 1) <=> si - 1 = Len(sp)
    BY <1>1, FitsEnd
  <2>3. Entry(pp, sp, g, pi, si) = (si > Len(sp))
    BY <1>2 DEF Entry
  <2>4. Fits(pp, sp, pi - 1, si - 1) \in BOOLEAN
    BY DEF Fits
  <2> QED
    BY <2>1, <2>2, <2>3, <2>4
<1>3. CASE ~(pi > Len(pp)) /\ pp[pi] = "**"
  <2>1. PICK k : k = RunEnd(pp, pi)
    OBVIOUS
  <2>2. pi \in 1..Len(pp)
    BY <1>1, <1>3
  <2>3. k \in pi..Len(pp) /\ \A i \in pi..k : pp[i] = "**"
    BY <1>3, <2>1, <2>2, RunEnds
  <2>4. PICK m \in Nat, n \in 0..Len(sp) : m = pi - 1 /\ n = si - 1
    BY <1>1
  <2>9. k \in Nat /\ m < k /\ k <= Len(pp) /\ \A i \in m + 1..k : pp[i] = "**"
    BY <1>1, <2>3, <2>4
  <2>10. Fits(pp, sp, m, n) <=> \E j \in n..Len(sp) : Fits(pp, sp, k, j)
    BY <2>9, FitsRun
  <2>5. Fits(pp, sp, pi - 1, si - 1) <=> \E j \in si - 1..Len(sp) : Fits(pp, sp, k, j)
    BY <2>4, <2>10
  <2>6. Entry(pp, sp, g, pi, si) = (k = Len(pp) \/ \E j \in si..Len(sp) + 1 : g[k + 1][j])
    BY <1>3, <2>1 DEF Entry
  <2>7. CASE k = Len(pp)
    <3>1. Len(sp) \in si - 1..Len(sp) /\ Len(sp) \in 0..Len(sp)
      BY <1>1
    <3>2. Fits(pp, sp, k, Len(sp))
      BY <2>7, <3>1, FitsEnd
    <3> QED
      BY <2>5, <2>6, <2>7, <3>1, <3>2
  <2>8. CASE k # Len(pp)
    <3>1. \A j \in si..Len(sp) + 1 : g[k + 1][j] = Fits(pp, sp, k, j - 1)
      <4> SUFFICES ASSUME NEW j \in si..Len(sp) + 1 PROVE g[k + 1][j] = Fits(pp, sp, k, j - 1)
        OBVIOUS
      <4>1. k + 1 \in pi + 1..Len(pp) + 1 /\ j \in 1..Len(sp) + 1 /\ (k + 1) - 1 = k
        BY <1>1, <2>3
      <4>2. g[k + 1][j] = Fits(pp, sp, (k + 1) - 1, j - 1)
        BY <4>1 DEF RightAfter
      <4> QED
        BY <4>1, <4>2
    <3>2. /\ \A j \in si..Len(sp) + 1 : j - 1 \in si - 1..Len(sp)
          /\ \A j \in si - 1..Len(sp) : j + 1 \in si..Len(sp) + 1 /\ (j + 1) - 1 = j
      BY <1>1
    <3>3. (\E j \in si..Len(sp) + 1 : g[k + 1][j]) <=> (\E j \in si - 1..Len(sp) : Fits(pp, sp, k, j))
      BY <3>1, <3>2
    <3>4. Fits(pp, sp, pi - 1, si - 1) \in BOOLEAN
      BY DEF Fits
    <3> QED
      BY <2>5, <2>6, <2>8, <3>3, <3>4
  <2> QED
    BY <2>7, <2>8
<1>4. CASE ~(pi > Len(pp)) /\ pp[pi] # "**"
  <2>1. pi - 1 \in 0..Len(pp) - 1
    BY <1>1, <1>4
  <2>2. Fits(pp, sp, pi - 1, si - 1) <=> /\ si - 1 < Len(sp) /\ Fnmatch(sp[si], pp[pi])
                                         /\ Fits(pp, sp, pi, si)
    BY <1>1, <1>4, <2>1, FitsOne
  <2>3. Entry(pp, sp, g, pi, si) = (si <= Len(sp) /\ Fnmatch(sp[si], pp[pi]) /\ g[pi + 1][si + 1])
    BY <1>4 DEF Entry
  <2>4. si <= Len(sp) => g[pi + 1][si + 1] = Fits(pp, sp, pi, si)
    <3> SUFFICES ASSUME si <= Len(sp) PROVE g[pi + 1][si + 1] = Fits(pp, sp, pi, si)
      OBVIOUS
    <3>1. /\ pi + 1 \in pi + 1..Len(pp) + 1 /\ si + 1 \in 1..Len(sp) + 1
          /\ (pi + 1) - 1 = pi /\ (si + 1) - 1 = si
      BY <1>1, <1>4
    <3>2. g[pi + 1][si + 1] = Fits(pp, sp, (pi + 1) - 1, (si + 1) - 1)
      BY <3>1 DEF RightAfter
    <3> QED
      BY <3>1, <3>2
  <2>5. si - 1 < Len(sp) <=> si <= Len(sp)
    BY <1>1
  <2>6. Fits(pp, sp, pi - 1, si - 1) \in BOOLEAN
    BY DEF Fits
  <2> QED
    BY <2>2, <2>3, <2>4, <2>5, <2>6
<1> QED
  BY <1>2, <1>3, <1>4

(* The entries of a table are what the equation says.                      *)
LEMMA TableEntries ==
  ASSUME NEW pp, NEW sp, NEW g, IsTable(pp, sp, g)
  PROVE  \A pi \in 1..Len(pp) + 1, si \in 1..Len(sp) + 1 : g[pi][si] = Entry(pp, sp, g, pi, si)
<1>1. PICK f : f = [pi \in 1..Len(pp) + 1 |-> [si \in 1..Len(sp) + 1 |-> Entry(pp, sp, g, pi, si)]]
  OBVIOUS
<1>2. g = f
  BY <1>1, Zenon DEF IsTable
<1>3. \A pi \in 1..Len(pp) + 1, si \in 1..Len(sp) + 1 : f[pi][si] = Entry(pp, sp, g, pi, si)
  BY <1>1
<1> QED
  BY <1>2, <1>3

(* A table is what fits: the last row of one that is not would follow from *)
(* later rows that are.                                                    *)
LEMMA TableIs ==
  ASSUME NEW S, NEW pp \in Seq(S), NEW T, NEW sp \in Seq(T), NEW g, IsTable(pp, sp, g)
  PROVE  \A p \in 1..Len(pp) + 1, s \in 1..Len(sp) + 1 : g[p][s] = Fits(pp, sp, p - 1, s - 1)
<1>1. Len(pp) \in Nat /\ Len(sp) \in Nat
  OBVIOUS
<1> DEFINE Right(p) == \A s \in 1..Len(sp) + 1 : g[p][s] = Fits(pp, sp, p - 1, s - 1)
           Wrong == {n \in 0..Len(pp) : ~Right(Len(pp) + 1 - n)}
<1>2. ASSUME Wrong # {} PROVE FALSE
  <2>1. PICK n \in Wrong : \A i \in Wrong : n <= i
    <3>1. Wrong \in SUBSET Nat
      BY <1>1
    <3> HIDE DEF Wrong
    <3> QED
      BY <1>2, <3>1, Smallest
  <2>2. n \in 0..Len(pp) /\ ~Right(Len(pp) + 1 - n)
    BY <2>1
  <2>3. PICK pi \in 1..Len(pp) + 1 : pi = Len(pp) + 1 - n
    BY <1>1, <2>2
  <2>4. ASSUME NEW p \in pi + 1..Len(pp) + 1 PROVE Right(p)
    <3>1. PICK i \in 0..Len(pp) : p = Len(pp) + 1 - i /\ ~(n <= i)
      <4>1. Len(pp) + 1 - p \in 0..Len(pp) /\ p = Len(pp) + 1 - (Len(pp) + 1 - p) /\ ~(n <= Len(pp) + 1 - p)
        BY <1>1, <2>2, <2>3
      <4> QED
        BY <4>1
    <3>2. i \notin Wrong
      <4> HIDE DEF Wrong
      <4> QED
        BY <2>1, <3>1
    <3> HIDE DEF Right
    <3> QED
      BY <3>1, <3>2
  <2>5. ASSUME NEW s \in 1..Len(sp) + 1 PROVE g[pi][s] = Fits(pp, sp, pi - 1, s - 1)
    <3>1. RightAfter(pp, sp, g, pi)
      BY <2>4 DEF RightAfter
    <3>2. Entry(pp, sp, g, pi, s) = Fits(pp, sp, pi - 1, s - 1)
      BY <3>1, EntryIs
    <3>3. g[pi][s] = Entry(pp, sp, g, pi, s)
      BY TableEntries
    <3> QED
      BY <3>2, <3>3
  <2> QED
    BY <2>2, <2>3, <2>5
<1>3. ASSUME NEW p \in 1..Len(pp) + 1 PROVE Right(p)
  <2>1. PICK n \in 0..Len(pp) : p = Len(pp) + 1 - n
    <3>1. Len(pp) + 1 - p \in 0..Len(pp) /\ p = Len(pp) + 1 - (Len(pp) + 1 - p)
      BY <1>1
    <3> QED
      BY <3>1
  <2>2. n \notin Wrong
    <3> HIDE DEF Wrong
    <3> QED
      BY <1>2
  <2> HIDE DEF Right
  <2> QED
    BY <2>1, <2>2
<1> QED
  BY <1>3

(* The recursive matcher finds a match iff there is a way to cut the path, *)
(* for every pattern and every path (filter.py, matches_any_glob: ** takes *)
(* any number of components, zero included).                               *)
THEOREM MatcherIsRight ==
  ASSUME NEW S, NEW pp \in Seq(S), NEW T, NEW sp \in Seq(T)
  PROVE  Gm(pp, sp) = Matches(pp, sp)
<1>1. Len(pp) \in Nat /\ Len(sp) \in Nat
  OBVIOUS
<1>2. PICK h : h = [pi \in 1..Len(pp) + 1 |-> [si \in 1..Len(sp) + 1 |-> Fits(pp, sp, pi - 1, si - 1)]]
  OBVIOUS
<1>3. \A p \in 1..Len(pp) + 1, s \in 1..Len(sp) + 1 : h[p][s] = Fits(pp, sp, p - 1, s - 1)
  BY <1>2
<1>4. ASSUME NEW p \in 1..Len(pp) + 1, NEW s \in 1..Len(sp) + 1
      PROVE  Entry(pp, sp, h, p, s) = Fits(pp, sp, p - 1, s - 1)
  <2>1. \A q \in p + 1..Len(pp) + 1 : q \in 1..Len(pp) + 1
    BY <1>1
  <2>2. RightAfter(pp, sp, h, p)
    BY <1>3, <2>1 DEF RightAfter
  <2> QED
    BY <2>2, EntryIs
<1>5. IsTable(pp, sp, h)
  BY <1>2, <1>4 DEF IsTable
<1>6. PICK g : Gm(pp, sp) = g[1][1] /\ IsTable(pp, sp, g)
  BY <1>5, GmTable
<1>7. g[1][1] = Fits(pp, sp, 0, 0)
  <2>1. 1 \in 1..Len(pp) + 1 /\ 1 \in 1..Len(sp) + 1
    BY <1>1
  <2>2. g[1][1] = Fits(pp, sp, 1 - 1, 1 - 1)
    BY <1>6, <2>1, TableIs
  <2> QED
    BY <2>2
<1>8. Fits(pp, sp, 0, 0) = Matches(pp, sp)
  BY <1>1 DEF Fits, Matches, Link
<1> QED
  BY <1>6, <1>7, <1>8

-----------------------------------------------------------------------------
(* The filter and the mapper *)

(* A prefix agrees with the longer sequence in each of its elements.       *)
LEMMA PrefixIs ==
  ASSUME NEW S, NEW s \in Seq(S), NEW t \in Seq(S)
  PROVE  IsPrefix(s, t) <=> Len(s) <= Len(t) /\ \A k \in 1..Len(s) : s[k] = t[k]
<1>1. Len(s) \in Nat /\ Len(t) \in Nat
  OBVIOUS
<1>2. SubSeq(s, 1, Len(s)) = [k \in 1..Len(s) |-> s[k]]
  BY <1>1
<1>3. SubSeq(t, 1, Len(s)) = [k \in 1..Len(s) |-> t[k]]
  BY <1>1
<1> HIDE DEF IsPrefix
<1>4. SubSeq(s, 1, Len(s)) = SubSeq(t, 1, Len(s)) <=> \A k \in 1..Len(s) : s[k] = t[k]
  BY <1>2, <1>3
<1> QED
  BY <1>4 DEF IsPrefix

(* What the configuration says of its watches.                             *)
LEMMA Configured ==
  \A i \in WatchIds : /\ i \in Nat
                      /\ Watches[i].path \in Seq(STRING)
                      /\ Watches[i].ignore \subseteq Seq(STRING)
<1> DEFINE Watch == [path : Seq(STRING), ignore : SUBSET Seq(STRING), flush_on_delete : BOOLEAN,
                     bindings : SUBSET [cdn : STRING, url_prefix : STRING]]
<1>1. Watches \in Seq(Watch)
  BY RoutingAssumption
<1>2. \A i \in WatchIds : i \in Nat /\ Watches[i] \in Watch
  <2> HIDE DEF Watch
  <2> QED
    BY <1>1 DEF WatchIds
<1> QED
  BY <1>2

(* The glob filter ignores what the documentation says.                    *)
LEMMA IgnoredIs ==
  ASSUME NEW T, NEW p \in Seq(T), NEW i \in WatchIds
  PROVE  MatchesAnyGlob(p, i) <=> IgnoredBy(p, i)
<1>1. Relative(p, Watches[i].path) \in Seq(T)
  <2>1. Len(Watches[i].path) \in Nat
    BY Configured
  <2> QED
    BY <2>1 DEF Relative
<1>2. \A pp \in Watches[i].ignore :
        Gm(pp, Relative(p, Watches[i].path)) = Matches(pp, Relative(p, Watches[i].path))
  BY <1>1, Configured, MatcherIsRight
<1> QED
  BY <1>2 DEF MatchesAnyGlob, IgnoredBy

(* The watches that hold a path and are equally deep share their root.     *)
LEMMA SameRoot ==
  ASSUME NEW T, NEW p \in Seq(T), NEW i \in Holding(p), NEW j \in Holding(p),
         Len(Watches[i].path) = Len(Watches[j].path)
  PROVE  Watches[i].path = Watches[j].path
<1>1. i \in WatchIds /\ j \in WatchIds
  BY DEF Holding
<1>2. PICK s, t : s = Watches[i].path /\ t = Watches[j].path
  OBVIOUS
<1>3. s \in Seq(STRING \cup T) /\ t \in Seq(STRING \cup T) /\ p \in Seq(STRING \cup T)
  BY <1>1, <1>2, Configured
<1>4. IsPrefix(s, p) /\ IsPrefix(t, p)
  BY <1>2 DEF Holding
<1>5. /\ \A k \in 1..Len(s) : s[k] = p[k]
      /\ \A k \in 1..Len(t) : t[k] = p[k]
  BY <1>3, <1>4, PrefixIs
<1>6. Len(s) = Len(t)
  BY <1>2
<1>7. s = t
  BY <1>3, <1>5, <1>6
<1> QED
  BY <1>2, <1>7

(* The first watch in the filter's order is the one of the deepest root.   *)
LEMMA OwnerIs ==
  ASSUME DistinctRoots, NEW T, NEW p \in Seq(T)
  PROVE  Owner(p) = Deepest(p)
<1>1. \A i \in Holding(p) : i \in WatchIds /\ i \in Nat /\ Len(Watches[i].path) \in Nat
  BY Configured DEF Holding
<1>2. \A i, j \in Holding(p) : Len(Watches[i].path) = Len(Watches[j].path) => i = j
  BY <1>1, SameRoot DEF DistinctRoots
<1>3. Owner(p) \subseteq Deepest(p)
  BY <1>1 DEF Owner, Deepest
<1>4. Deepest(p) \subseteq Owner(p)
  BY <1>1, <1>2 DEF Owner, Deepest
<1> QED
  BY <1>3, <1>4

(* The mapper finds the watch whose root the event names.                  *)
LEMMA ByRootIs ==
  ASSUME DistinctRoots, NEW i \in WatchIds
  PROVE  ByRoot(Watches[i].path) = i
<1>1. {j \in WatchIds : Watches[j].path = Watches[i].path} = {i}
  BY DEF DistinctRoots
<1>2. i \in Nat
  BY Configured
<1>3. Max({i}) = i
  BY <1>2 DEF Max
<1> QED
  BY <1>1, <1>3 DEF ByRoot

(* An event makes the targets of the watch it is normalized for.           *)
LEMMA MapIs ==
  ASSUME DistinctRoots, NEW i \in WatchIds, NEW k, NEW p
  PROVE  Map([kind |-> k, abs_path |-> p, watch_root |-> Watches[i].path])
           = {Target(b, Watches[i].path, p) : b \in Watches[i].bindings}
<1>1. ByRoot(Watches[i].path) = i
  BY ByRootIs
<1> HIDE DEF ByRoot
<1> QED
  BY <1>1 DEF Map

(* The filter and the mapper submit for an event of a file what is due for *)
(* it and nothing else, if no two watches share a root (filter.py,         *)
(* EventFilter.normalize; mapper.py, Mapper.map): the first match in depth *)
(* order is the deepest root, whose flush_on_delete, ignore patterns and   *)
(* bindings are the ones that count.                                       *)
THEOREM RoutingIsRight ==
  ASSUME DistinctRoots, NEW T, NEW p \in Seq(T), NEW mask \in LiveMasks \cup GoneMasks
  PROVE  RoutedAsDue(mask, p)
<1>1. Owner(p) = Deepest(p)
  BY OwnerIs
<1>2. \A i \in Deepest(p) : i \in WatchIds /\ (MatchesAnyGlob(p, i) <=> IgnoredBy(p, i))
  BY IgnoredIs DEF Deepest, Holding
<1>3. \A i \in WatchIds :
        EventKind(mask, i) # {} <=> (mask \in GoneMasks => Watches[i].flush_on_delete)
  BY DEF EventKind, LiveMasks, GoneMasks
<1>4. ASSUME NEW t \in Targets(mask, p) PROVE t \in Due(mask \in GoneMasks, p)
  <2>1. PICK e \in Normalize(mask, p) : t \in Map(e)
    BY DEF Targets
  <2>2. PICK i \in Owner(p) : \E k \in EventKind(mask, i) :
          /\ ~MatchesAnyGlob(p, i)
          /\ e = [kind |-> k, abs_path |-> p, watch_root |-> Watches[i].path]
    BY DEF Normalize
  <2>3. i \in WatchIds /\ i \in Deepest(p)
    BY <1>1, <1>2
  <2>4. t \in {Target(b, Watches[i].path, p) : b \in Watches[i].bindings}
    <3>1. PICK k \in EventKind(mask, i) :
            e = [kind |-> k, abs_path |-> p, watch_root |-> Watches[i].path]
      BY <2>2
    <3> QED
      BY <2>1, <2>3, <3>1, MapIs
  <2>5. ~IgnoredBy(p, i) /\ (mask \in GoneMasks => Watches[i].flush_on_delete)
    BY <1>2, <1>3, <2>2, <2>3
  <2> QED
    BY <2>3, <2>4, <2>5 DEF Due
<1>5. ASSUME NEW t \in Due(mask \in GoneMasks, p) PROVE t \in Targets(mask, p)
  <2>1. PICK i \in Deepest(p) :
          /\ ~IgnoredBy(p, i) /\ (mask \in GoneMasks => Watches[i].flush_on_delete)
          /\ t \in {Target(b, Watches[i].path, p) : b \in Watches[i].bindings}
    BY <1>5 DEF Due
  <2>2. PICK k : k \in EventKind(mask, i)
    BY <1>2, <1>3, <2>1
  <2>3. PICK e : e = [kind |-> k, abs_path |-> p, watch_root |-> Watches[i].path]
    OBVIOUS
  <2>4. t \in Map(e)
    BY <1>2, <2>1, <2>3, MapIs
  <2>5. i \in Owner(p) /\ ~MatchesAnyGlob(p, i)
    BY <1>1, <1>2, <2>1
  <2>6. e \in Normalize(mask, p)
    BY <2>2, <2>3, <2>5 DEF Normalize
  <2> QED
    BY <2>4, <2>6 DEF Targets
<1> QED
  BY <1>4, <1>5 DEF RoutedAsDue
==============================================================================
