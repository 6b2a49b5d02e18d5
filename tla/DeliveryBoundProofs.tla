------------------------ MODULE DeliveryBoundProofs ------------------------
(***************************************************************************)
(* Proof about QueueDelivery: the redelivery limit bounds how often the    *)
(* application receives a message.  Every copy in memory is worth the      *)
(* deliveries that are still ahead of it; a delivery uses one of them up,  *)
(* and only a send or a replay brings new ones, maxRedeliveries + 1 at a   *)
(* time.                                                                   *)
(***************************************************************************)
EXTENDS QueueDeliveryProofs

\* The copies of all messages, numbered within their place and deliveryCount.
AllIds == Places \X (0..MaxCount) \X Nat

\* The copies of m in memory, for counts of copies like those in the variable copies.
IdsOf(counts, m) == {b \in AllIds : b[3] > 0 /\ b[3] <= counts[b[1]][<<m, b[2]>>]}
Ids(m) == IdsOf(copies, m)

-----------------------------------------------------------------------------
(* Counting the copies of a message.                                       *)

AllCounts == [Places -> [Copies -> Nat]]

\* The i-th of the copies like x in the place p.
Id(p, x, i) == <<p, x[2], i>>

\* The parts of a copy, and of its number.
LEMMA CopyForm ==
  ASSUME NEW p \in Places, NEW x \in Copies, NEW i \in Nat
  PROVE  /\ x = <<x[1], x[2]>> /\ x[1] \in Messages /\ x[2] \in 0..MaxCount
         /\ Id(p, x, i) \in AllIds
         /\ Id(p, x, i)[1] = p /\ Id(p, x, i)[2] = x[2] /\ Id(p, x, i)[3] = i
<1> DEFINE n == x[2]
<1>1. x = <<x[1], n>> /\ x[1] \in Messages /\ n \in 0..MaxCount
  BY DEF Copies
<1>2. Id(p, x, i) = <<p, n, i>>
  BY Zenon DEF Id
<1> HIDE DEF n
<1>3. <<p, n, i>> \in AllIds /\ <<p, n, i>>[1] = p /\ <<p, n, i>>[2] = n /\ <<p, n, i>>[3] = i
  BY <1>1 DEF AllIds
<1> QED
  BY <1>1, <1>2, <1>3, Zenon DEF n

\* A numbered copy of m is a copy of m.
LEMMA IdForm ==
  ASSUME NEW b \in AllIds, NEW m \in Messages
  PROVE  /\ b = Id(b[1], <<m, b[2]>>, b[3])
         /\ b[1] \in Places /\ b[3] \in Nat
         /\ <<m, b[2]>> \in Copies /\ <<m, b[2]>>[1] = m
<1>1. b = <<b[1], b[2], b[3]>> /\ b[1] \in Places /\ b[2] \in 0..MaxCount /\ b[3] \in Nat
  BY DEF AllIds
<1>2. <<m, b[2]>>[2] = b[2] /\ <<m, b[2]>>[1] = m
  BY Zenon
<1> QED
  BY <1>1, <1>2, PlacesAndCopies, Zenon DEF Id

\* Copies of m that are not more than before.
LEMMA IdsFewer ==
  ASSUME NEW S \in AllCounts, NEW T \in AllCounts, NEW m \in Messages,
         \A q \in Places : \A y \in Copies : y[1] = m => T[q][y] <= S[q][y]
  PROVE  IdsOf(T, m) \subseteq IdsOf(S, m)
<1> SUFFICES ASSUME NEW b \in IdsOf(T, m) PROVE b \in IdsOf(S, m)
  BY Zenon
<1> DEFINE y == <<m, b[2]>>
           i == b[3]
           before == S[b[1]][y]
           after == T[b[1]][y]
<1>1. b \in AllIds /\ i > 0 /\ i <= after
  BY Zenon DEF IdsOf
<1>2. b[1] \in Places /\ i \in Nat /\ y \in Copies /\ y[1] = m
  BY <1>1, IdForm, Zenon
<1>3. after <= before /\ after \in Nat /\ before \in Nat
  BY <1>2, Zenon DEF AllCounts
<1> HIDE DEF y, i, before, after
<1>4. i <= before
  BY <1>1, <1>2, <1>3
<1> QED
  BY <1>1, <1>4, Zenon DEF IdsOf, y, i, before

\* One copy x of m less in the place p: the last of its kind.
LEMMA IdsLess ==
  ASSUME NEW S \in AllCounts, NEW T \in AllCounts, NEW m \in Messages,
         NEW p \in Places, NEW x \in Copies, x[1] = m, S[p][x] > 0, T[p][x] = S[p][x] - 1,
         \A q \in Places : \A y \in Copies : y[1] = m => T[q][y] <= S[q][y]
  PROVE  /\ Id(p, x, S[p][x]) \in IdsOf(S, m)
         /\ IdsOf(T, m) \subseteq IdsOf(S, m) \ {Id(p, x, S[p][x])}
<1> DEFINE n == S[p][x]
           last == Id(p, x, n)
<1>1. n \in Nat
  BY Zenon DEF AllCounts
<1>1a. S[p][x] = n /\ T[p][x] = n - 1 /\ n > 0
  BY Zenon
<1>1b. last = Id(p, x, n)
  BY Zenon
<1> HIDE DEF n, last
<1>2. last \in AllIds /\ last[1] = p /\ last[2] = x[2] /\ last[3] = n
  <2>1. /\ Id(p, x, n) \in AllIds /\ Id(p, x, n)[1] = p
        /\ Id(p, x, n)[2] = x[2] /\ Id(p, x, n)[3] = n
    BY <1>1, CopyForm
  <2> QED
    BY <1>1b, <2>1, Zenon
<1>2a. x = <<m, x[2]>>
  <2>1. x = <<x[1], x[2]>>
    BY <1>1, CopyForm, Zenon
  <2> QED
    BY <2>1, Zenon
<1>3. n <= n /\ ~(n <= n - 1)
  BY <1>1
<1>4. last \in IdsOf(S, m)
  BY <1>1a, <1>2, <1>2a, <1>3, Zenon DEF IdsOf
<1>5. last \notin IdsOf(T, m)
  BY <1>1a, <1>2, <1>2a, <1>3, Zenon DEF IdsOf
<1>6. IdsOf(T, m) \subseteq IdsOf(S, m)
  BY IdsFewer, Zenon
<1> QED
  BY <1>4, <1>5, <1>6, Zenon DEF last, n

\* One copy z of m more in the place r.
LEMMA IdsMore ==
  ASSUME NEW S \in AllCounts, NEW T \in AllCounts, NEW m \in Messages,
         NEW r \in Places, NEW z \in Copies, T[r][z] = S[r][z] + 1,
         \A q \in Places : \A y \in Copies : y[1] = m /\ ~(q = r /\ y = z) => T[q][y] <= S[q][y]
  PROVE  /\ Id(r, z, T[r][z]) \in AllIds
         /\ IdsOf(T, m) \subseteq IdsOf(S, m) \cup {Id(r, z, T[r][z])}
<1>0. T[r][z] \in Nat /\ S[r][z] \in Nat
  BY Zenon DEF AllCounts
<1>1. Id(r, z, T[r][z]) \in AllIds
  BY <1>0, CopyForm, Zenon
<1>2. ASSUME NEW b \in IdsOf(T, m), b # Id(r, z, T[r][z])
      PROVE  b \in IdsOf(S, m)
  <2> DEFINE y == <<m, b[2]>>
             i == b[3]
             before == S[b[1]][y]
             after == T[b[1]][y]
  <2>1. b \in AllIds /\ i > 0 /\ i <= after
    BY Zenon DEF IdsOf
  <2>2. b[1] \in Places /\ i \in Nat /\ y \in Copies /\ y[1] = m /\ b = Id(b[1], y, i)
    BY <2>1, IdForm, Zenon
  <2>3. after \in Nat /\ before \in Nat
    BY <2>2, Zenon DEF AllCounts
  <2>4. \/ after <= before
        \/ after = before + 1 /\ i # after
    BY <1>2, <2>2, Zenon
  <2> HIDE DEF y, i, before, after
  <2>5. i <= before
    BY <2>1, <2>2, <2>3, <2>4
  <2> QED
    BY <2>1, <2>5, Zenon DEF IdsOf, y, i, before
<1> QED
  BY <1>1, <1>2, Zenon

-----------------------------------------------------------------------------
(* What the steps do to the copies of a message.                           *)

\* The deliveries ahead of a copy below the limit, in numbers.
Ahead(p, n) == IF p \in Sessions THEN MaxRedeliveries - n ELSE MaxRedeliveries + 1 - n

\* What a step may do to the copies of m: make none and deliver none; make one; or turn a
\* copy b into c, where a delivery counts as one that was ahead of b and is not of c.
Fewer(m) == Ids(m)' \subseteq Ids(m) /\ deliveries'[m] = deliveries[m] /\ born'[m] = born[m]

Added(m, c) ==
    /\ c[1] \notin Sessions /\ c[2] = 0
    /\ Ids(m)' \subseteq Ids(m) \cup {c}
    /\ deliveries'[m] = deliveries[m] /\ born'[m] = born[m] + 1

Turned(m, b, c) ==
    /\ Limited /\ b[2] <= MaxRedeliveries => c[2] <= MaxRedeliveries
    /\ Ids(m)' \subseteq (Ids(m) \ {b}) \cup {c}
    /\ deliveries'[m] + Ahead(c[1], c[2]) = deliveries[m] + Ahead(b[1], b[2])
    /\ born'[m] = born[m]

Effect(m) ==
    \/ Fewer(m)
    \/ \E c \in AllIds : Added(m, c)
    \/ \E b \in Ids(m), c \in AllIds : Turned(m, b, c)

\* The types the steps rely on.
LEMMA CountTypes ==
  ASSUME TypeOK, [Next]_vars, NEW m \in Messages
  PROVE  /\ CopiesOK /\ copies \in AllCounts /\ copies' \in AllCounts
         /\ deliveries[m] \in Nat /\ born[m] \in Nat
         /\ deliveries'[m] \in Nat /\ born'[m] \in Nat
<1>1. TypeOK'
  BY NextType, Zenon
<1>2. /\ copies' \in [Places -> [Copies -> Nat]]
      /\ deliveries' \in [Messages -> Nat] /\ born' \in [Messages -> Nat]
  BY <1>1, Zenon DEF TypeOK, Places, Copies
<1>3. /\ copies \in [Places -> [Copies -> Nat]]
      /\ deliveries \in [Messages -> Nat] /\ born \in [Messages -> Nat]
  BY Zenon DEF TypeOK
<1> QED
  BY <1>2, <1>3, Zenon DEF AllCounts, CopiesOK

\* The counts after one copy was taken are those before, but for one.
LEMMA TakenCounts ==
  ASSUME CopiesOK, NEW p \in Places, NEW x \in In(p)
  PROVE  /\ Take(x, p) \in AllCounts /\ x \in Copies /\ copies[p][x] > 0
         /\ Take(x, p)[p][x] = copies[p][x] - 1
         /\ \A q \in Places : \A y \in Copies :
               /\ Take(x, p)[q][y] <= copies[q][y]
               /\ y # x => Take(x, p)[q][y] = copies[q][y]
<1>1. x \in Copies /\ copies[p][x] > 0
  BY Zenon DEF In
<1>2. ASSUME NEW q \in Places, NEW y \in Copies
      PROVE  Take(x, p)[q][y] <= copies[q][y] /\ (y # x => Take(x, p)[q][y] = copies[q][y])
  <2>1. Take(x, p)[q][y] = IF q = p /\ y = x THEN copies[q][y] - 1 ELSE copies[q][y]
    BY TakeCounts
  <2>2. copies[q][y] \in Nat
    BY Zenon DEF CopiesOK
  <2> QED
    BY <2>1, <2>2
<1>3. Take(x, p)[p][x] = copies[p][x] - 1
  BY <1>1, TakeCounts, Zenon
<1>4. Take(x, p) \in AllCounts
  BY TakeType, Zenon DEF AllCounts
<1> QED
  BY <1>1, <1>2, <1>3, <1>4, Zenon

\* Nothing new is in memory, and recv() returns nothing.
LEMMA FewerEffect ==
  ASSUME TypeOK, [Next]_vars, NEW m \in Messages, UNCHANGED <<deliveries, born>>,
         \A q \in Places : \A y \in Copies : y[1] = m => copies'[q][y] <= copies[q][y]
  PROVE  Effect(m)
<1>1. Ids(m)' \subseteq Ids(m)
  BY CountTypes, IdsFewer, Zenon DEF Ids, IdsOf, AllIds, Places
<1> QED
  BY <1>1, Zenon DEF Effect, Fewer

\* A copy is taken and dropped.
LEMMA TakeEffect ==
  ASSUME TypeOK, [Next]_vars, NEW p \in Places, NEW x \in In(p), copies' = Take(x, p),
         UNCHANGED <<deliveries, born>>, NEW m \in Messages
  PROVE  Effect(m)
<1>1. CopiesOK
  BY CountTypes, Zenon
<1>2. \A q \in Places : \A y \in Copies : y[1] = m => copies'[q][y] <= copies[q][y]
  BY <1>1, TakenCounts, Zenon
<1> QED
  BY <1>2, FewerEffect, Zenon

\* A copy x of m becomes the copy z, and the deliveries use up what is no more ahead.
LEMMA MoveEffect ==
  ASSUME TypeOK, [Next]_vars, NEW m \in Messages, NEW p \in Places, NEW x \in Copies,
         NEW r \in Places, NEW z \in Copies, NEW i \in Nat, NEW j \in Nat,
         Limited /\ x[2] <= MaxRedeliveries => z[2] <= MaxRedeliveries,
         Id(p, x, i) \in Ids(m), Ids(m)' \subseteq (Ids(m) \ {Id(p, x, i)}) \cup {Id(r, z, j)},
         deliveries'[m] + Ahead(r, z[2]) = deliveries[m] + Ahead(p, x[2]), UNCHANGED born
  PROVE  Effect(m)
<1> DEFINE b == Id(p, x, i)
           c == Id(r, z, j)
<1>1. b \in AllIds /\ b[1] = p /\ b[2] = x[2]
  BY CopyForm
<1>2. c \in AllIds /\ c[1] = r /\ c[2] = z[2]
  BY CopyForm
<1>3. b \in Ids(m) /\ Ids(m)' \subseteq (Ids(m) \ {b}) \cup {c}
  BY Zenon
<1> HIDE DEF b, c
<1>4. Turned(m, b, c)
  BY <1>1, <1>2, <1>3, Zenon DEF Turned
<1> QED
  BY <1>2, <1>3, <1>4, Zenon DEF Effect

\* recv() in AUTO mode: the copy is taken from the queue and delivered.
LEMMA AutoEffect ==
  ASSUME TypeOK, [Next]_vars, NEW s \in Sessions, NEW x \in In("queue"), copies' = Take(x, "queue"),
         deliveries' = [deliveries EXCEPT ![x[1]] = @ + 1], UNCHANGED born, NEW m \in Messages
  PROVE  Effect(m)
<1>1. CopiesOK /\ "queue" \in Places /\ s \in Places /\ s # "queue"
  BY CountTypes, PlacesAndCopies, QueueDeliveryAssumption, Zenon
<1>2. /\ x \in Copies /\ copies["queue"][x] > 0 /\ copies' \in AllCounts /\ copies \in AllCounts
      /\ copies'["queue"][x] = copies["queue"][x] - 1
      /\ \A q \in Places : \A y \in Copies : copies'[q][y] <= copies[q][y]
  BY <1>1, TakenCounts, CountTypes, Zenon
<1>3. copies["queue"][x] \in Nat /\ 0 \in Nat /\ x[2] \in Int
  BY <1>1, <1>2, PlacesAndCopies DEF CopiesOK
<1>4. CASE x[1] = m
  <2>1. /\ Id("queue", x, copies["queue"][x]) \in Ids(m)
        /\ Ids(m)' \subseteq Ids(m) \ {Id("queue", x, copies["queue"][x])}
    BY <1>1, <1>2, <1>4, IdsLess, ZenonT(30) DEF Ids, IdsOf, AllIds, Places
  <2>2. deliveries'[m] = deliveries[m] + 1
    BY <1>4, Zenon DEF TypeOK
  <2>3. "queue" \notin Sessions
    BY QueueDeliveryAssumption, Zenon
  <2>4. deliveries'[m] + Ahead(s, x[2]) = deliveries[m] + Ahead("queue", x[2])
    <3>1. Ahead(s, x[2]) = MaxRedeliveries - x[2] /\ Ahead("queue", x[2]) = MaxRedeliveries + 1 - x[2]
      BY <2>3, Zenon DEF Ahead
    <3>2. deliveries[m] \in Nat /\ MaxRedeliveries \in Int
      BY CountTypes, QueueDeliveryAssumption, Zenon
    <3> QED
      BY <1>3, <2>2, <3>1, <3>2
  <2> QED
    BY <1>1, <1>2, <1>3, <2>1, <2>4, MoveEffect, Zenon
<1>5. CASE x[1] # m
  <2>1. Ids(m)' \subseteq Ids(m)
    BY <1>2, IdsFewer, Zenon DEF Ids, IdsOf, AllIds, Places
  <2>2. deliveries'[m] = deliveries[m]
    BY <1>5, Zenon DEF TypeOK
  <2> QED
    BY <2>1, <2>2, Zenon DEF Effect, Fewer
<1> QED
  BY <1>4, <1>5, Zenon

\* A copy goes to another place, with its deliveryCount or the next.
LEMMA ShiftEffect ==
  ASSUME TypeOK, [Next]_vars, NEW p \in Places, NEW x \in In(p), NEW r \in Places, NEW z \in Copies,
         z[1] = x[1], copies' = Shift(x, p, z, r), UNCHANGED born,
         Limited /\ x[2] <= MaxRedeliveries => z[2] <= MaxRedeliveries,
         \A n \in Messages : n # x[1] => deliveries'[n] = deliveries[n],
         deliveries'[x[1]] + Ahead(r, z[2]) = deliveries[x[1]] + Ahead(p, x[2]),
         NEW m \in Messages
  PROVE  Effect(m)
<1> DEFINE taken == Take(x, p)
<1>1. CopiesOK /\ copies \in AllCounts /\ copies' \in AllCounts
  BY CountTypes, Zenon
<1>2. /\ taken \in AllCounts /\ x \in Copies /\ copies[p][x] > 0 /\ taken[p][x] = copies[p][x] - 1
      /\ \A q \in Places : \A y \in Copies :
            taken[q][y] <= copies[q][y] /\ (y # x => taken[q][y] = copies[q][y])
  BY <1>1, TakenCounts, Zenon
<1>3. copies' = [taken EXCEPT ![r][z] = @ + 1]
  BY Zenon DEF Shift
<1> HIDE DEF taken
<1>4. ASSUME NEW q \in Places, NEW y \in Copies
      PROVE  copies'[q][y] = IF q = r /\ y = z THEN taken[q][y] + 1 ELSE taken[q][y]
  BY <1>2, <1>3 DEF AllCounts
<1>5. ASSUME NEW q \in Places, NEW y \in Copies, ~(q = r /\ y = z)
      PROVE  copies'[q][y] <= taken[q][y]
  <2>1. copies'[q][y] = taken[q][y] /\ taken[q][y] \in Nat
    BY <1>2, <1>4, <1>5, Zenon DEF AllCounts
  <2> QED
    BY <2>1
<1>6. copies'[r][z] = taken[r][z] + 1 /\ copies'[r][z] \in Nat /\ copies[p][x] \in Nat
  BY <1>1, <1>2, <1>4, ZenonT(30) DEF AllCounts
<1>7. CASE x[1] = m
  <2>1. /\ Id(p, x, copies[p][x]) \in Ids(m)
        /\ IdsOf(taken, m) \subseteq Ids(m) \ {Id(p, x, copies[p][x])}
    BY <1>1, <1>2, <1>7, IdsLess, Zenon DEF Ids
  <2>2. IdsOf(copies', m) \subseteq IdsOf(taken, m) \cup {Id(r, z, copies'[r][z])}
    BY <1>1, <1>2, <1>5, <1>6, IdsMore, Zenon
  <2>3. Ids(m)' \subseteq (Ids(m) \ {Id(p, x, copies[p][x])}) \cup {Id(r, z, copies'[r][z])}
    BY <2>1, <2>2, Zenon DEF Ids, IdsOf, AllIds, Places
  <2>4. deliveries'[m] + Ahead(r, z[2]) = deliveries[m] + Ahead(p, x[2])
    BY <1>7, Zenon
  <2> QED
    BY <1>2, <1>6, <2>1, <2>3, <2>4, MoveEffect, Zenon
<1>8. CASE x[1] # m
  <2>1. ASSUME NEW q \in Places, NEW y \in Copies, y[1] = m
        PROVE  copies'[q][y] <= copies[q][y]
    <3>1. y # x /\ y # z
      BY <1>8, <2>1, Zenon
    <3>2. copies'[q][y] = taken[q][y] /\ taken[q][y] = copies[q][y] /\ copies[q][y] \in Nat
      BY <1>1, <1>2, <1>4, <3>1, ZenonT(30) DEF AllCounts
    <3> QED
      BY <3>2
  <2>2. Ids(m)' \subseteq Ids(m)
    BY <1>1, <2>1, IdsFewer, Zenon DEF Ids, IdsOf, AllIds, Places
  <2>3. deliveries'[m] = deliveries[m]
    BY <1>8, Zenon
  <2> QED
    BY <2>2, <2>3, Zenon DEF Effect, Fewer
<1> QED
  BY <1>7, <1>8, Zenon

\* A copy of m is made outside the sessions.
LEMMA NewEffect ==
  ASSUME TypeOK, [Next]_vars, NEW m \in Messages, NEW r \in Places, r \notin Sessions,
         NEW z \in Copies, z[2] = 0,
         copies'[r][z] = copies[r][z] + 1,
         \A q \in Places : \A y \in Copies :
             y[1] = m /\ ~(q = r /\ y = z) => copies'[q][y] <= copies[q][y],
         deliveries'[m] = deliveries[m], born'[m] = born[m] + 1
  PROVE  Effect(m)
<1> DEFINE j == copies'[r][z]
           c == Id(r, z, j)
<1>1. copies \in AllCounts /\ copies' \in AllCounts /\ deliveries[m] \in Nat /\ born[m] \in Nat
  BY CountTypes, Zenon
<1>2. c \in AllIds /\ IdsOf(copies', m) \subseteq IdsOf(copies, m) \cup {c}
  BY <1>1, IdsMore, Zenon
<1>3. Ids(m)' \subseteq Ids(m) \cup {c}
  BY <1>2, Zenon DEF Ids, IdsOf, AllIds, Places
<1>4. j \in Nat
  BY <1>1, Zenon DEF AllCounts
<1> HIDE DEF j
<1>5. c[1] = r /\ c[2] = z[2]
  BY <1>4, CopyForm
<1> HIDE DEF c
<1>6. c[1] \notin Sessions /\ c[2] = 0
  BY <1>5, Zenon
<1> QED
  BY <1>2, <1>3, <1>6, Zenon DEF Effect, Added

\* save() makes one copy of its message.
LEMMA SendEffect ==
  ASSUME TypeOK, [Next]_vars, NEW p \in Messages, SendPrepare(p), NEW m \in Messages
  PROVE  Effect(m)
<1> DEFINE z == <<p, 0>>
<1>1. "sending" \in Places /\ "sending" \notin Sessions /\ z \in Copies /\ z[1] = p /\ z[2] = 0
  BY PlacesAndCopies, QueueDeliveryAssumption, Zenon
<1>2. /\ copies' = [copies EXCEPT !["sending"][z] = @ + 1]
      /\ born' = [born EXCEPT ![p] = @ + 1] /\ UNCHANGED deliveries
  BY Zenon DEF SendPrepare, Put
<1> HIDE DEF z
<1>3. copies \in [Places -> [Copies -> Nat]] /\ born \in [Messages -> Nat]
  BY Zenon DEF TypeOK
<1>4. copies'["sending"][z] = copies["sending"][z] + 1
  BY <1>1, <1>2, <1>3
<1>5. ASSUME NEW q \in Places, NEW y \in Copies, ~(q = "sending" /\ y = z)
      PROVE  copies'[q][y] = copies[q][y] /\ copies'[q][y] <= copies[q][y]
  BY <1>1, <1>2, <1>3, <1>5
<1>6. CASE m = p
  <2>1. born'[m] = born[m] + 1 /\ deliveries'[m] = deliveries[m]
    BY <1>2, <1>3, <1>6, Zenon
  <2>2. \A q \in Places : \A y \in Copies :
            y[1] = m /\ ~(q = "sending" /\ y = z) => copies'[q][y] <= copies[q][y]
    BY <1>5, Zenon
  <2> QED
    BY <1>1, <1>4, <2>1, <2>2, NewEffect
<1>7. CASE m # p
  <2>1. born'[m] = born[m] /\ deliveries'[m] = deliveries[m]
    BY <1>2, <1>3, <1>7, Zenon
  <2>2. \A q \in Places : \A y \in Copies : y[1] = m => copies'[q][y] <= copies[q][y]
    BY <1>1, <1>5, <1>7, Zenon
  <2>3. Ids(m)' \subseteq Ids(m)
    BY <2>2, CountTypes, IdsFewer, Zenon DEF Ids, IdsOf, AllIds, Places
  <2> QED
    BY <2>1, <2>3, Zenon DEF Effect, Fewer
<1> QED
  BY <1>6, <1>7, Zenon

\* createConsumer() makes one copy of every message that it finds stored.
LEMMA ReplayEffect ==
  ASSUME TypeOK, [Next]_vars, NEW s \in Sessions, ReplayStoredMessages(s), NEW m \in Messages
  PROVE  Effect(m)
<1> DEFINE z == <<m, 0>>
<1>1. "queue" \in Places /\ "queue" \notin Sessions /\ z \in Copies /\ z[1] = m /\ z[2] = 0
  BY PlacesAndCopies, QueueDeliveryAssumption, Zenon
<1>2. ASSUME NEW y \in Copies, y[1] = m, y[2] = 0
      PROVE  y = z
  <2>1. y = <<y[1], y[2]>>
    BY DEF Copies
  <2> QED
    BY <1>2, <2>1, Zenon
<1> HIDE DEF z
<1>3. /\ UNCHANGED deliveries
      /\ m \in Live(s) => born'[m] = born[m] + 1
      /\ m \notin Live(s) => born'[m] = born[m]
  BY Zenon DEF ReplayStoredMessages
<1>4. ASSUME NEW q \in Places, NEW y \in Copies, y[1] = m, ~(m \in Live(s) /\ q = "queue" /\ y = z)
      PROVE  copies'[q][y] <= copies[q][y]
  <2>1. copies'[q][y] = copies[q][y]
    BY <1>2, <1>4, ReplayCounts, Zenon
  <2>2. copies[q][y] \in Nat
    BY Zenon DEF TypeOK
  <2> QED
    BY <2>1, <2>2
<1>5. CASE m \in Live(s)
  <2>1. copies'["queue"][z] = copies["queue"][z] + 1
    BY <1>1, <1>5, ReplayCounts, Zenon
  <2>2. born'[m] = born[m] + 1 /\ deliveries'[m] = deliveries[m]
    BY <1>3, <1>5, Zenon
  <2>3. \A q \in Places : \A y \in Copies :
            y[1] = m /\ ~(q = "queue" /\ y = z) => copies'[q][y] <= copies[q][y]
    BY <1>4, Zenon
  <2> QED
    BY <1>1, <2>1, <2>2, <2>3, NewEffect
<1>6. CASE m \notin Live(s)
  <2>1. born'[m] = born[m] /\ deliveries'[m] = deliveries[m]
    BY <1>3, <1>6, Zenon
  <2>2. Ids(m)' \subseteq Ids(m)
    BY <1>4, <1>6, CountTypes, IdsFewer, Zenon DEF Ids, IdsOf, AllIds, Places
  <2> QED
    BY <2>1, <2>2, Zenon DEF Effect, Fewer
<1> QED
  BY <1>5, <1>6, Zenon

\* A consumer's chain, or all of the memory, is dropped.
LEMMA DropEffect ==
  ASSUME TypeOK, [Next]_vars, Crash \/ \E s \in Sessions : CloseDone(s), NEW m \in Messages
  PROVE  Effect(m)
<1>1. UNCHANGED <<deliveries, born>>
  BY Zenon DEF Crash, CloseDone
<1>2. ASSUME NEW q \in Places, NEW y \in Copies
      PROVE  copies'[q][y] <= copies[q][y]
  <2>1. copies \in [Places -> [Copies -> Nat]] /\ Sessions \subseteq Places /\ copies[q][y] \in Nat
    BY PlacesAndCopies, Zenon DEF TypeOK
  <2>2. ASSUME Crash
        PROVE  copies'[q][y] = 0
    BY <2>2, Zenon DEF Crash, NoCopies
  <2>3. ASSUME NEW s \in Sessions, CloseDone(s)
        PROVE  copies'[q][y] = 0 \/ copies'[q][y] = copies[q][y]
    <3>1. copies' = [copies EXCEPT ![s] = NoCopies]
      BY <2>3, Zenon DEF CloseDone
    <3> QED
      BY <2>1, <3>1, Zenon DEF NoCopies
  <2>4. copies'[q][y] = 0 \/ copies'[q][y] = copies[q][y]
    BY <2>2, <2>3, Zenon
  <2> QED
    BY <2>1, <2>4
<1> QED
  BY <1>1, <1>2, FewerEffect, Zenon

\* The steps that move a copy and deliver nothing: the worth of the copy is the same in the
\* queue, with the sender and with the scheduler, and a session that gives a copy back counts
\* the delivery it had.
LEMMA QuietMoves ==
  ASSUME TypeOK, [Next]_vars, NEW x \in Copies, NEW m \in Messages,
         \/ \E n \in Messages : SendEnqueue(n)
         \/ Due(x)
         \/ \E s \in Sessions : Requeue(s, x)
  PROVE  Effect(m)
<1>0. /\ "queue" \in Places /\ "sending" \in Places /\ "scheduled" \in Places
      /\ Sessions \subseteq Places
      /\ "queue" \notin Sessions /\ "sending" \notin Sessions /\ "scheduled" \notin Sessions
  BY PlacesAndCopies, QueueDeliveryAssumption, Zenon
<1>1. UNCHANGED <<deliveries, born>>
  BY Zenon DEF SendEnqueue, Due, Requeue, history
<1>2. \A n \in Messages : n # x[1] => deliveries'[n] = deliveries[n]
  BY <1>1, Zenon
<1>3. \A n : Ahead("sending", n) = Ahead("queue", n) /\ Ahead("scheduled", n) = Ahead("queue", n)
  BY <1>0, Zenon DEF Ahead
<1>4. ASSUME NEW n \in Messages, SendEnqueue(n)
      PROVE  Effect(m)
  <2> DEFINE z == <<n, 0>>
  <2>1. z \in In("sending") /\ z \in Copies /\ copies' = Shift(z, "sending", z, "queue")
    BY <1>4, PlacesAndCopies, Zenon DEF SendEnqueue
  <2> HIDE DEF z
  <2>2. deliveries'[z[1]] + Ahead("queue", z[2]) = deliveries[z[1]] + Ahead("sending", z[2])
    BY <1>1, <1>3, Zenon
  <2>3. \A k \in Messages : k # z[1] => deliveries'[k] = deliveries[k]
    BY <1>1, Zenon
  <2> QED
    BY <1>0, <1>1, <2>1, <2>2, <2>3, ShiftEffect, Zenon
<1>5. CASE Due(x)
  <2>1. x \in In("scheduled") /\ copies' = Shift(x, "scheduled", x, "queue")
    BY <1>5, Zenon DEF Due
  <2>2. deliveries'[x[1]] + Ahead("queue", x[2]) = deliveries[x[1]] + Ahead("scheduled", x[2])
    BY <1>1, <1>3, Zenon
  <2> QED
    BY <1>0, <1>1, <1>2, <2>1, <2>2, ShiftEffect, Zenon
<1>6. ASSUME NEW s \in Sessions, Requeue(s, x)
      PROVE  Effect(m)
  <2> DEFINE z == <<x[1], x[2] + 1>>
             r == IF Backoff /\ pc[s] # "close" THEN "scheduled" ELSE "queue"
  <2>1. x \in In(s) /\ ~OverLimit(x[2] + 1) /\ x[2] < MaxCount /\ copies' = Shift(x, s, z, r)
    BY <1>6, Zenon DEF Requeue
  <2>2. x[1] \in Messages /\ x[2] \in 0..MaxCount
    BY PlacesAndCopies, Zenon
  <2>3. x[2] + 1 \in 0..MaxCount /\ x[2] \in Int
    BY <2>1, <2>2, QueueDeliveryAssumption
  <2>4. z \in Copies /\ z[1] = x[1] /\ z[2] = x[2] + 1
    BY <2>2, <2>3, PlacesAndCopies, Zenon
  <2>5. r \in Places /\ r \notin Sessions
    BY <1>0, Zenon
  <2> HIDE DEF z, r
  <2>6. Limited => z[2] <= MaxRedeliveries
    BY <2>1, <2>3, <2>4, QueueDeliveryAssumption DEF OverLimit
  <2>7. Ahead(r, z[2]) = MaxRedeliveries + 1 - (x[2] + 1) /\ Ahead(s, x[2]) = MaxRedeliveries - x[2]
    BY <2>4, <2>5, Zenon DEF Ahead
  <2>8. Ahead(r, z[2]) = Ahead(s, x[2])
    BY <2>3, <2>7, QueueDeliveryAssumption
  <2>9. deliveries'[x[1]] + Ahead(r, z[2]) = deliveries[x[1]] + Ahead(s, x[2])
    BY <1>1, <2>8, Zenon
  <2> QED
    BY <1>0, <1>1, <1>2, <2>1, <2>4, <2>5, <2>6, <2>9, ShiftEffect, Zenon
<1> QED
  BY <1>4, <1>5, <1>6, Zenon

\* recv() uses up one of the deliveries that were ahead of the copy it returns.
LEMMA RecvEffect ==
  ASSUME TypeOK, [Next]_vars, NEW s \in Sessions, NEW x \in Copies, Recv(s, x), NEW m \in Messages
  PROVE  Effect(m)
<1>0. "queue" \in Places /\ "queue" \notin Sessions /\ s \in Places
  BY PlacesAndCopies, QueueDeliveryAssumption, Zenon
<1>1. /\ x \in In("queue") /\ UNCHANGED born
      /\ deliveries' = [deliveries EXCEPT ![x[1]] = @ + 1]
  BY Zenon DEF Recv
<1>2. CASE Mode[s] = "AUTO"
  <2>1. copies' = Take(x, "queue")
    BY <1>2, Zenon DEF Recv
  <2> QED
    BY <1>1, <2>1, AutoEffect, Zenon
<1>3. CASE Mode[s] # "AUTO"
  <2>1. copies' = Shift(x, "queue", x, s)
    BY <1>3, Zenon DEF Recv
  <2>2. x[1] \in Messages /\ x[2] \in 0..MaxCount
    BY PlacesAndCopies, Zenon
  <2>3. \A n \in Messages : n # x[1] => deliveries'[n] = deliveries[n]
    BY <1>1, Zenon DEF TypeOK
  <2>4. deliveries'[x[1]] + Ahead(s, x[2]) = deliveries[x[1]] + Ahead("queue", x[2])
    <3>1. Ahead(s, x[2]) = MaxRedeliveries - x[2] /\ Ahead("queue", x[2]) = MaxRedeliveries + 1 - x[2]
      BY <1>0, Zenon DEF Ahead
    <3>2. deliveries'[x[1]] = deliveries[x[1]] + 1 /\ deliveries[x[1]] \in Nat
      BY <1>1, <2>2, Zenon DEF TypeOK
    <3> QED
      BY <2>2, <3>1, <3>2, QueueDeliveryAssumption
  <2> QED
    BY <1>0, <1>1, <2>1, <2>3, <2>4, ShiftEffect, Zenon
<1> QED
  BY <1>2, <1>3, Zenon

\* Every step keeps the bound of every message.
LEMMA NextEffect ==
  ASSUME TypeOK, [Next]_vars, NEW m \in Messages
  PROVE  Effect(m)
<1> DEFINE Quiet == UNCHANGED <<copies, deliveries, born>>
<1>1. ASSUME CreateDestination \/ UNCHANGED vars
      PROVE  Quiet
  BY <1>1, Zenon DEF CreateDestination, vars, history
<1>2. ASSUME NEW s \in Sessions, CreateConsumer(s) \/ WalkDone(s) \/ CloseSession(s) \/ DeleteConsumer(s)
      PROVE  Quiet
  BY <1>2, Zenon DEF CreateConsumer, WalkDone, CloseSession, DeleteConsumer, Begin, history
<1>3. ASSUME NEW s \in Sessions, RecoverBegin(s) \/ RollbackBegin(s) \/ CommitBegin(s)
      PROVE  Quiet
  BY <1>3, Zenon DEF RecoverBegin, RollbackBegin, CommitBegin, Begin, history
<1>4. ASSUME NEW n \in Messages, SendNowhere(n) \/ Expire(n) \/ SweepExpired(n)
      PROVE  Quiet
  BY <1>4, Zenon DEF SendNowhere, Expire, SweepExpired, history
<1>5. ASSUME NEW s \in Sessions, NEW n \in Messages, ExecuteRemove(s, n)
      PROVE  Quiet
  BY <1>5, Zenon DEF ExecuteRemove, history
<1>6. ASSUME NEW s \in Sessions, NEW o \in Sessions, NEW x \in Copies, AcknowledgeForeign(s, o, x)
      PROVE  Quiet
  BY <1>6, Zenon DEF AcknowledgeForeign, history
<1>7. CASE Quiet
  <2>1. ASSUME NEW q \in Places, NEW y \in Copies
        PROVE  copies'[q][y] <= copies[q][y]
    <3>1. copies'[q][y] = copies[q][y] /\ copies[q][y] \in Nat
      BY <1>7, Zenon DEF TypeOK
    <3> QED
      BY <3>1
  <2> QED
    BY <1>7, <2>1, FewerEffect, Zenon
<1> HIDE DEF Quiet
<1>8. ASSUME NEW s \in Sessions, NEW x \in Copies,
             RecvExpired(s, x) \/ Acknowledge(s, x) \/ CommitOne(s, x) \/ DeadLetter(s, x)
      PROVE  Effect(m)
  <2>1. "queue" \in Places /\ s \in Places
    BY PlacesAndCopies, Zenon
  <2>2. UNCHANGED <<deliveries, born>>
    BY <1>8, Zenon DEF RecvExpired, Acknowledge, CommitOne, DeadLetter
  <2>3. \/ x \in In("queue") /\ copies' = Take(x, "queue")
        \/ x \in In(s) /\ copies' = Take(x, s)
    BY <1>8, Zenon DEF RecvExpired, Acknowledge, CommitOne, DeadLetter
  <2> QED
    BY <2>1, <2>2, <2>3, TakeEffect, Zenon
<1>9. ASSUME NEW s \in Sessions, NEW x \in Copies, Recv(s, x) \/ Requeue(s, x)
      PROVE  Effect(m)
  BY <1>9, RecvEffect, QuietMoves, Zenon
<1>10. ASSUME NEW x \in Copies, Due(x)
       PROVE  Effect(m)
  BY <1>10, QuietMoves, Zenon
<1>11. ASSUME NEW n \in Messages, SendEnqueue(n)
       PROVE  Effect(m)
  <2>1. <<n, 0>> \in Copies
    BY PlacesAndCopies, Zenon
  <2> QED
    BY <1>11, <2>1, QuietMoves, Zenon
<1>12. ASSUME NEW n \in Messages, SendPrepare(n)
       PROVE  Effect(m)
  BY <1>12, SendEffect, Zenon
<1>13. ASSUME NEW s \in Sessions, ReplayStoredMessages(s) \/ CloseDone(s)
       PROVE  Effect(m)
  BY <1>13, ReplayEffect, DropEffect, Zenon
<1>14. CASE Crash
  BY <1>14, DropEffect, Zenon
<1> QED
  BY <1>1, <1>2, <1>3, <1>4, <1>5, <1>6, <1>7, <1>8, <1>9, <1>10, <1>11, <1>12, <1>13, <1>14, ZenonT(30)
     DEF Next, Opening, Background, Sending, Receiving, Deciding, Closing, Walking

-----------------------------------------------------------------------------
(* How much a set of copies is worth.                                      *)

INSTANCE FiniteSetTheorems

\* The deliveries that are ahead of a copy, numbered from one: recv() returned a copy with
\* deliveryCount n that a session holds for the (n + 1)-th time.
Left(b) == (IF b[1] \in Sessions THEN b[2] + 2 ELSE b[2] + 1)..(MaxRedeliveries + 1)

\* The deliveries that are ahead of a set of copies.
Worth(I) == {c \in I \X Nat : c[2] \in Left(c[1])}

\* No copy is above the limit, and the deliveries that were and those that may come are at
\* most maxRedeliveries + 1 for each copy that was made.
Bounded(m) ==
    /\ \A b \in Ids(m) : b[2] <= MaxRedeliveries
    /\ IsFiniteSet(Worth(Ids(m)))
    /\ deliveries[m] + Cardinality(Worth(Ids(m))) <= (MaxRedeliveries + 1) * born[m]

BoundInv == Limited => \A m \in Messages : Bounded(m)

\* The size of an interval that may be empty but not more than that.
LEMMA IntervalCount ==
  ASSUME NEW low \in Int, NEW high \in Int, low <= high + 1
  PROVE  IsFiniteSet(low..high) /\ Cardinality(low..high) = high + 1 - low
<1>1. /\ IsFiniteSet(low..high)
      /\ Cardinality(low..high) = IF low > high THEN 0 ELSE high - low + 1
  BY FS_Interval, Zenon
<1> DEFINE size == Cardinality(low..high)
<1>2. size = IF low > high THEN 0 ELSE high - low + 1
  BY <1>1, Zenon
<1> HIDE DEF size
<1>3. size = high + 1 - low
  BY <1>2
<1> QED
  BY <1>1, <1>3, Zenon DEF size

\* A copy below the limit in a session has had one delivery more than one that waits.
LEMMA LeftCount ==
  ASSUME NEW b \in AllIds, Limited, b[2] <= MaxRedeliveries
  PROVE  /\ IsFiniteSet(Left(b)) /\ Left(b) \subseteq Nat
         /\ b[1] \in Sessions => Cardinality(Left(b)) = MaxRedeliveries - b[2]
         /\ b[1] \notin Sessions => Cardinality(Left(b)) = MaxRedeliveries + 1 - b[2]
<1>1. b[2] \in 0..MaxCount
  BY DEF AllIds
<1>2. /\ MaxRedeliveries \in Int /\ MaxRedeliveries >= 0
      /\ b[2] \in Int /\ b[2] >= 0
  BY <1>1, QueueDeliveryAssumption DEF Limited
<1>3. CASE b[1] \in Sessions
  <2> DEFINE low == b[2] + 2
             high == MaxRedeliveries + 1
  <2>1. Left(b) = low..high
    BY <1>3, Zenon DEF Left
  <2>2. low \in Int /\ high \in Int /\ low <= high + 1 /\ low >= 0 /\ high + 1 - low = MaxRedeliveries - b[2]
    BY <1>2
  <2> HIDE DEF low, high
  <2>3. IsFiniteSet(low..high) /\ Cardinality(low..high) = high + 1 - low
    BY <2>2, IntervalCount, Zenon
  <2>4. low..high \subseteq Nat
    BY <2>2
  <2> QED
    BY <1>3, <2>1, <2>2, <2>3, <2>4, Zenon
<1>4. CASE b[1] \notin Sessions
  <2> DEFINE low == b[2] + 1
             high == MaxRedeliveries + 1
  <2>1. Left(b) = low..high
    BY <1>4, Zenon DEF Left
  <2>2. low \in Int /\ high \in Int /\ low <= high + 1 /\ low >= 0 /\ high + 1 - low = MaxRedeliveries + 1 - b[2]
    BY <1>2
  <2> HIDE DEF low, high
  <2>3. IsFiniteSet(low..high) /\ Cardinality(low..high) = high + 1 - low
    BY <2>2, IntervalCount, Zenon
  <2>4. low..high \subseteq Nat
    BY <2>2
  <2> QED
    BY <1>4, <2>1, <2>2, <2>3, <2>4, Zenon
<1> QED
  BY <1>3, <1>4, Zenon

\* One copy is worth the deliveries ahead of it.
LEMMA WorthOfOne ==
  ASSUME NEW b \in AllIds, Limited, b[2] <= MaxRedeliveries
  PROVE  IsFiniteSet(Worth({b})) /\ Cardinality(Worth({b})) = Cardinality(Left(b))
<1>1. IsFiniteSet(Left(b)) /\ Left(b) \subseteq Nat
  BY LeftCount, Zenon
<1>2. Worth({b}) = {b} \X Left(b)
  <2> DEFINE left == Left(b)
  <2>1. \A c \in {b} \X Nat : c[1] = b
    OBVIOUS
  <2>2. Worth({b}) = {c \in {b} \X Nat : c[2] \in left}
    BY <2>1, Zenon DEF Worth
  <2>3. left \subseteq Nat
    BY <1>1, Zenon
  <2> HIDE DEF left
  <2>4. {c \in {b} \X Nat : c[2] \in left} = {b} \X left
    BY <2>3, Zenon
  <2> QED
    BY <2>2, <2>4, Zenon DEF left
<1>3. IsFiniteSet({b}) /\ Cardinality({b}) = 1
  BY FS_Singleton, Zenon
<1>4. /\ IsFiniteSet({b} \X Left(b))
      /\ Cardinality({b} \X Left(b)) = 1 * Cardinality(Left(b))
  BY <1>1, <1>3, FS_Product, Zenon
<1>5. Cardinality(Left(b)) \in Nat
  BY <1>1, FS_CardinalityType, Zenon
<1>6. 1 * Cardinality(Left(b)) = Cardinality(Left(b))
  BY <1>5
<1> QED
  BY <1>2, <1>4, <1>6, Zenon

\* A copy leaves a set of copies.
LEMMA WorthWithout ==
  ASSUME NEW I \in SUBSET AllIds, IsFiniteSet(Worth(I)), Limited,
         NEW b \in I, b[2] <= MaxRedeliveries
  PROVE  /\ IsFiniteSet(Worth(I \ {b}))
         /\ Cardinality(Worth(I \ {b})) = Cardinality(Worth(I)) - Cardinality(Left(b))
<1>1. Worth(I \ {b}) = Worth(I) \ Worth({b})
  BY DEF Worth
<1>2. Worth(I) \cap Worth({b}) = Worth({b})
  BY DEF Worth
<1>3. Cardinality(Worth({b})) = Cardinality(Left(b))
  BY WorthOfOne, Zenon
<1>4. /\ IsFiniteSet(Worth(I) \ Worth({b}))
      /\ Cardinality(Worth(I) \ Worth({b})) =
            Cardinality(Worth(I)) - Cardinality(Worth(I) \cap Worth({b}))
  BY FS_Difference, Zenon
<1> QED
  BY <1>1, <1>2, <1>3, <1>4, Zenon

\* A copy joins a set of copies.
LEMMA WorthWith ==
  ASSUME NEW I \in SUBSET AllIds, IsFiniteSet(Worth(I)), Limited,
         NEW b \in AllIds, b[2] <= MaxRedeliveries
  PROVE  /\ IsFiniteSet(Worth(I \cup {b}))
         /\ Cardinality(Worth(I \cup {b})) <= Cardinality(Worth(I)) + Cardinality(Left(b))
<1>1. Worth(I \cup {b}) = Worth(I) \cup Worth({b})
  BY DEF Worth
<1>2. IsFiniteSet(Worth({b})) /\ Cardinality(Worth({b})) = Cardinality(Left(b))
  BY WorthOfOne, Zenon
<1>3. /\ IsFiniteSet(Worth(I) \cup Worth({b}))
      /\ Cardinality(Worth(I) \cup Worth({b})) =
            Cardinality(Worth(I)) + Cardinality(Worth({b})) - Cardinality(Worth(I) \cap Worth({b}))
  BY <1>2, FS_Union, Zenon
<1>4. Cardinality(Worth(I) \cap Worth({b})) \in Nat
  BY FS_Intersection, FS_CardinalityType, Zenon
<1>5. Cardinality(Worth(I)) \in Nat /\ Cardinality(Worth({b})) \in Nat
  BY <1>2, FS_CardinalityType, Zenon
<1>6. Cardinality(Worth(I) \cup Worth({b})) <= Cardinality(Worth(I)) + Cardinality(Worth({b}))
  BY SMTT(30), <1>3, <1>4, <1>5
<1> QED
  BY <1>1, <1>2, <1>3, <1>6, Zenon

\* Fewer copies are worth no more.
LEMMA WorthOfSubset ==
  ASSUME NEW I, IsFiniteSet(Worth(I)), NEW J \in SUBSET I
  PROVE  /\ IsFiniteSet(Worth(J)) /\ Cardinality(Worth(J)) <= Cardinality(Worth(I))
         /\ Cardinality(Worth(J)) \in Nat /\ Cardinality(Worth(I)) \in Nat
<1>1. Worth(J) \in SUBSET Worth(I)
  BY DEF Worth
<1> QED
  BY <1>1, FS_Subset, FS_CardinalityType, Zenon

-----------------------------------------------------------------------------
(* Every step keeps the bound.                                             *)

\* One copy more allows as many deliveries more as the policy has.
LEMMA OneMore ==
  ASSUME NEW r \in Int, NEW n \in Nat
  PROVE  r * (n + 1) = r * n + r /\ r * n \in Int
  OBVIOUS

\* No copy is new and recv() returns none.
LEMMA BoundedFewer ==
  ASSUME NEW m \in Messages, Bounded(m), Ids(m)' \subseteq Ids(m),
         deliveries'[m] = deliveries[m], born'[m] = born[m], deliveries[m] \in Nat, born[m] \in Nat
  PROVE  Bounded(m)'
<1> DEFINE old == Cardinality(Worth(Ids(m)))
           new == Cardinality(Worth(Ids(m)'))
           most == (MaxRedeliveries + 1) * born[m]
<1>1. /\ \A b \in Ids(m) : b[2] <= MaxRedeliveries
      /\ IsFiniteSet(Worth(Ids(m))) /\ deliveries[m] + old <= most
  BY Zenon DEF Bounded
<1>2. IsFiniteSet(Worth(Ids(m)')) /\ new <= old /\ new \in Nat /\ old \in Nat
  BY <1>1, WorthOfSubset, Zenon
<1>3. most \in Int
  BY SMTT(30), OneMore, QueueDeliveryAssumption
<1> HIDE DEF old, new, most
<1>4. deliveries[m] + new <= most
  BY SMTT(30), <1>1, <1>2, <1>3
<1> QED
  BY <1>1, <1>2, <1>4, Zenon DEF Bounded, Worth, Left, new, most

\* A copy b becomes c, and the deliveries use up what that takes from its worth.
LEMMA BoundedMove ==
  ASSUME NEW m \in Messages, Bounded(m), Limited,
         NEW b \in Ids(m), NEW c \in AllIds, c[2] <= MaxRedeliveries,
         Ids(m)' \subseteq (Ids(m) \ {b}) \cup {c},
         deliveries'[m] \in Nat, deliveries[m] \in Nat, born[m] \in Nat, born'[m] = born[m],
         deliveries'[m] + Cardinality(Left(c)) = deliveries[m] + Cardinality(Left(b))
  PROVE  Bounded(m)'
<1> DEFINE rest == Ids(m) \ {b}
           old == Cardinality(Worth(Ids(m)))
           kept == Cardinality(Worth(rest))
           more == Cardinality(Worth(rest \cup {c}))
           new == Cardinality(Worth(Ids(m)'))
           most == (MaxRedeliveries + 1) * born[m]
           lb == Cardinality(Left(b))
           lc == Cardinality(Left(c))
<1>1. /\ \A d \in Ids(m) : d[2] <= MaxRedeliveries
      /\ IsFiniteSet(Worth(Ids(m))) /\ deliveries[m] + old <= most
  BY Zenon DEF Bounded
<1>2. Ids(m) \in SUBSET AllIds /\ rest \in SUBSET AllIds /\ b \in AllIds
  BY Zenon DEF Ids, IdsOf
<1>3. IsFiniteSet(Worth(rest)) /\ kept = old - lb
  BY <1>1, <1>2, WorthWithout, Zenon
<1>4. IsFiniteSet(Worth(rest \cup {c})) /\ more <= kept + lc
  BY <1>2, <1>3, WorthWith, Zenon
<1>5. IsFiniteSet(Worth(Ids(m)')) /\ new <= more /\ new \in Nat /\ more \in Nat
  BY <1>4, WorthOfSubset, Zenon
<1>6. old \in Nat /\ kept \in Nat
  BY <1>1, <1>3, FS_CardinalityType, Zenon
<1>7. lb \in Nat /\ lc \in Nat
  BY <1>1, <1>2, LeftCount, FS_CardinalityType, ZenonT(30)
<1>8. most \in Int
  BY SMTT(30), OneMore, QueueDeliveryAssumption
<1>9. \A d \in Ids(m)' : d[2] <= MaxRedeliveries
  BY <1>1, Zenon
<1>10. deliveries'[m] + lc = deliveries[m] + lb
  BY Zenon
<1> HIDE DEF rest, old, kept, more, new, most, lb, lc
<1>11. deliveries'[m] + new <= most
  BY SMTT(30), <1>1, <1>3, <1>4, <1>5, <1>6, <1>7, <1>8, <1>10
<1> QED
  BY <1>5, <1>9, <1>11, Zenon DEF Bounded, Worth, Left, new, most

\* A copy c is made, with all its deliveries ahead.
LEMMA BoundedNew ==
  ASSUME NEW m \in Messages, Bounded(m), Limited, NEW c \in AllIds, c[2] = 0, c[1] \notin Sessions,
         Ids(m)' \subseteq Ids(m) \cup {c},
         deliveries[m] \in Nat, born[m] \in Nat,
         deliveries'[m] = deliveries[m], born'[m] = born[m] + 1
  PROVE  Bounded(m)'
<1> DEFINE old == Cardinality(Worth(Ids(m)))
           more == Cardinality(Worth(Ids(m) \cup {c}))
           new == Cardinality(Worth(Ids(m)'))
           most == (MaxRedeliveries + 1) * born[m]
           lc == Cardinality(Left(c))
<1>1. /\ \A d \in Ids(m) : d[2] <= MaxRedeliveries
      /\ IsFiniteSet(Worth(Ids(m))) /\ deliveries[m] + old <= most
  BY Zenon DEF Bounded
<1>2. Ids(m) \in SUBSET AllIds
  BY Zenon DEF Ids, IdsOf
<1>3. c[2] <= MaxRedeliveries
  BY SMTT(30), QueueDeliveryAssumption DEF Limited
<1>4. lc = MaxRedeliveries + 1
  <2>1. lc = MaxRedeliveries + 1 - 0
    BY <1>3, LeftCount, Zenon
  <2> HIDE DEF lc
  <2> QED
    BY SMTT(30), <2>1, QueueDeliveryAssumption
<1>5. IsFiniteSet(Worth(Ids(m) \cup {c})) /\ more <= old + lc
  BY <1>1, <1>2, <1>3, WorthWith, ZenonT(30)
<1>6. IsFiniteSet(Worth(Ids(m)')) /\ new <= more /\ new \in Nat /\ more \in Nat
  BY <1>5, WorthOfSubset, Zenon
<1>7. old \in Nat
  BY <1>1, FS_CardinalityType, Zenon
<1>8. MaxRedeliveries + 1 \in Int
  BY QueueDeliveryAssumption
<1>9. most \in Int /\ (MaxRedeliveries + 1) * born'[m] = most + (MaxRedeliveries + 1)
  BY <1>8, OneMore, Zenon
<1>10. \A d \in Ids(m)' : d[2] <= MaxRedeliveries
  BY <1>1, <1>3, Zenon
<1> HIDE DEF old, more, new, most, lc
<1>11. deliveries[m] + new <= most + (MaxRedeliveries + 1)
  BY SMTT(30), <1>1, <1>4, <1>5, <1>6, <1>7, <1>8, <1>9
<1> QED
  BY <1>6, <1>9, <1>10, <1>11, ZenonT(30) DEF Bounded, Worth, Left, new

\* Every effect of a step keeps the bound.
LEMMA EffectBounded ==
  ASSUME TypeOK, [Next]_vars, Limited, NEW m \in Messages, Effect(m), Bounded(m)
  PROVE  Bounded(m)'
<1>1. /\ deliveries[m] \in Nat /\ born[m] \in Nat /\ deliveries'[m] \in Nat
  BY CountTypes, Zenon
<1>2. CASE Fewer(m)
  BY <1>1, <1>2, BoundedFewer, Zenon DEF Fewer
<1>3. ASSUME NEW c \in AllIds, Added(m, c)
      PROVE  Bounded(m)'
  BY <1>1, <1>3, BoundedNew, Zenon DEF Added
<1>4. ASSUME NEW b \in Ids(m), NEW c \in AllIds, Turned(m, b, c)
      PROVE  Bounded(m)'
  <2>1. b \in AllIds /\ b[2] <= MaxRedeliveries
    BY Zenon DEF Ids, IdsOf, Bounded
  <2>2. c[2] <= MaxRedeliveries
    BY <1>4, <2>1, Zenon DEF Turned
  <2>3. Cardinality(Left(b)) = Ahead(b[1], b[2]) /\ Cardinality(Left(c)) = Ahead(c[1], c[2])
    BY <2>1, <2>2, LeftCount, ZenonT(30) DEF Ahead
  <2>4. deliveries'[m] + Cardinality(Left(c)) = deliveries[m] + Cardinality(Left(b))
    BY <1>4, <2>3, Zenon DEF Turned
  <2> QED
    BY <1>1, <1>4, <2>2, <2>4, BoundedMove, ZenonT(30) DEF Turned
<1> QED
  BY <1>2, <1>3, <1>4, Zenon DEF Effect

\* At the beginning there is no copy.
LEMMA InitBounded ==
  ASSUME Init, NEW m \in Messages
  PROVE  Bounded(m)
<1>1. ASSUME NEW b \in AllIds
      PROVE  ~(b[3] > 0 /\ b[3] <= copies[b[1]][<<m, b[2]>>])
  <2>1. b[1] \in Places /\ b[3] \in Nat /\ <<m, b[2]>> \in Copies
    BY IdForm, Zenon
  <2>2. copies[b[1]][<<m, b[2]>>] = 0
    BY <2>1, Zenon DEF Init, NoCopies
  <2> QED
    BY SMTT(30), <2>1, <2>2
<1>2. Ids(m) = {}
  BY <1>1, Zenon DEF Ids, IdsOf
<1>3. Worth({}) = {}
  BY DEF Worth
<1>4. IsFiniteSet(Worth(Ids(m))) /\ Cardinality(Worth(Ids(m))) = 0
  BY <1>2, <1>3, FS_EmptySet, Zenon
<1>5. deliveries[m] = 0 /\ born[m] = 0
  BY Zenon DEF Init
<1>6. 0 + 0 <= (MaxRedeliveries + 1) * 0
  BY QueueDeliveryAssumption
<1> QED
  BY <1>2, <1>4, <1>5, <1>6, ZenonT(30) DEF Bounded

\* For every redelivery policy with a limit, every mix of sessions, acknowledge modes, closes
\* and crashes: recv() returns a message at most maxRedeliveries + 1 times for each copy that
\* save() or createConsumer() made of it (Consumer::redeliver()).
THEOREM RedeliveryLimited == Spec => []DeliveryBound
<1>1. Init => TypeOK /\ BoundInv
  BY InitType, InitBounded, Zenon DEF BoundInv
<1>2. TypeOK /\ BoundInv /\ [Next]_vars => (TypeOK /\ BoundInv)'
  <2> SUFFICES ASSUME TypeOK, BoundInv, [Next]_vars PROVE BoundInv'
    BY NextType, Zenon
  <2>1. ASSUME Limited, NEW m \in Messages
        PROVE  Bounded(m)'
    <3>1. Bounded(m)
      BY <2>1, Zenon DEF BoundInv
    <3> QED
      BY <2>1, <3>1, NextEffect, EffectBounded, ZenonT(30)
  <2> QED
    BY <2>1, Zenon DEF BoundInv, Limited
<1>3. TypeOK /\ BoundInv => DeliveryBound
  <2> SUFFICES ASSUME TypeOK, BoundInv, Limited, NEW m \in Messages
               PROVE  deliveries[m] <= (MaxRedeliveries + 1) * born[m]
    BY Zenon DEF DeliveryBound
  <2> DEFINE n == Cardinality(Worth(Ids(m)))
             most == (MaxRedeliveries + 1) * born[m]
  <2>1. IsFiniteSet(Worth(Ids(m))) /\ deliveries[m] + n <= most
    BY Zenon DEF BoundInv, Bounded
  <2>2. n \in Nat
    BY <2>1, FS_CardinalityType, Zenon
  <2>3. deliveries[m] \in Nat /\ born[m] \in Nat
    BY Zenon DEF TypeOK
  <2>4. MaxRedeliveries + 1 \in Int
    BY QueueDeliveryAssumption
  <2>5. most \in Int
    BY <2>3, <2>4, OneMore, ZenonT(30)
  <2> HIDE DEF n, most
  <2>6. deliveries[m] <= most
    BY SMTT(30), <2>1, <2>2, <2>3, <2>5
  <2> QED
    BY <2>6, Zenon DEF most
<1> QED
  BY <1>1, <1>2, <1>3, PTL DEF Spec
=============================================================================
