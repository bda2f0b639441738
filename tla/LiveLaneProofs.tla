--------------------------- MODULE LiveLaneProofs ---------------------------
(***************************************************************************)
(* Theorems about LiveLane for every value of its constants.               *)
(*                                                                         *)
(* The invariant has four parts: the types with Room, which bounds the     *)
(* numbers given by the records posted; PageInv, what the page knows;      *)
(* Memory, what a full ring and a full queue hold; and WayInv, where a row *)
(* is as long as the page has not seen it.                                 *)
(***************************************************************************)
EXTENDS LiveLane, FiniteSetTheorems, TLAPS

ServerTypes ==
  /\ boot \in Boot /\ seq \in Nat /\ rows \in 0 .. MaxRows
  /\ ring \in Seq(Id) /\ order \in Seq(Id) /\ clients \in Seq(Stream)

PostTypes == post \in [Publisher -> Post]

StreamTypes ==
  /\ thread \in [Stream -> {"new", "hello", "sending", "gone"}]
  /\ backlog \in [Stream -> Seq(Id)] /\ queue \in [Stream -> Seq(Id)]
  /\ dropped \in [Stream -> SUBSET Id] /\ slipped \in [Stream -> SUBSET Id]
  /\ buried \in [Stream -> SUBSET Id]

LaneType == ServerTypes /\ PostTypes /\ StreamTypes /\ page \in Page

\* Every number given, and every record that waits for its number, is one of the
\* records posted, each another one.
Posted(given, waiting) ==
  /\ Cardinality(given) = seq
  /\ \A p \in Publisher : /\ Cardinality(waiting[p]) = post[p].left
                          /\ waiting[p] \cap given = {}
  /\ \A p, q \in Publisher : p # q => waiting[p] \cap waiting[q] = {}

Room ==
  \E given \in SUBSET (1 .. rows), waiting \in [Publisher -> SUBSET (1 .. rows)] :
    Posted(given, waiting)

LaneInv == LaneType /\ Room

\* What a full ring and a full queue hold.
Memory ==
  /\ Len(ring) <= ReplayRows
  /\ \A k \in Stream : Len(backlog[k]) <= ReplayRows /\ Len(queue[k]) <= QueueMax

-----------------------------------------------------------------------------
(***************************************************************************)
(* Types, and what the operators of the model return.                      *)
(***************************************************************************)
LEMMA Numbers ==
  /\ MaxRows \in Nat /\ MaxBoots \in Nat /\ MaxStreams \in Nat /\ BatchMax \in Nat
  /\ ReplayRows \in Nat /\ ReplayRows >= 1 /\ QueueMax \in Nat /\ QueueMax >= 1
  /\ Id \subseteq Nat /\ Boot \subseteq Nat /\ Stream \subseteq Nat /\ None \notin Stream
  /\ \A i \in Id : i >= 1 /\ i <= MaxRows
BY BoundsAssumption DEF Id, Boot, Stream

LEMMA Posts ==
  ASSUME NEW x \in Post
  PROVE  /\ x.left \in 0 .. BatchMax /\ x.left \in Nat
         /\ x.ids \in Seq(Id) /\ x.jobs \in Seq(Job) /\ x.full \in BOOLEAN
         /\ \A n \in 0 .. BatchMax : [x EXCEPT !.left = n] \in Post
         /\ \A n \in 0 .. BatchMax, s \in Seq(Id) :
              [x EXCEPT !.left = n, !.ids = s] \in Post
         /\ \A s \in Seq(Job) : [x EXCEPT !.ids = <<>>, !.jobs = s] \in Post
         /\ \A b \in BOOLEAN : [x EXCEPT !.full = b] \in Post
         /\ \A s \in Seq(Job), b \in BOOLEAN : [x EXCEPT !.jobs = s, !.full = b] \in Post
<1>1. <<>> \in Seq(Id)
      OBVIOUS
<1>2. 0 .. BatchMax \subseteq Nat
      BY Numbers
<1> DEFINE Ids == Seq(Id)
           Js  == Seq(Job)
<1>3. Post = [left : 0 .. BatchMax, ids : Ids, jobs : Js, full : BOOLEAN] /\ <<>> \in Ids
      BY <1>1 DEF Post
<1>4. x.left \in Nat
      BY <1>2, <1>3
<1> HIDE DEF Ids, Js
<1>5. /\ \A n \in 0 .. BatchMax : [x EXCEPT !.left = n] \in Post
      /\ \A n \in 0 .. BatchMax, s \in Ids : [x EXCEPT !.left = n, !.ids = s] \in Post
      /\ \A s \in Js : [x EXCEPT !.ids = <<>>, !.jobs = s] \in Post
      /\ \A b \in BOOLEAN : [x EXCEPT !.full = b] \in Post
      /\ \A s \in Js, b \in BOOLEAN : [x EXCEPT !.jobs = s, !.full = b] \in Post
      /\ x.left \in 0 .. BatchMax /\ x.ids \in Ids /\ x.jobs \in Js /\ x.full \in BOOLEAN
      BY <1>3
<1>6. QED  BY <1>4, <1>5 DEF Ids, Js

LEMMA HeadTail ==
  ASSUME NEW S, NEW s \in Seq(S), s # <<>>
  PROVE  /\ Head(s) \in S /\ Tail(s) \in Seq(S) /\ Len(Tail(s)) = Len(s) - 1
         /\ Elements(s) = {Head(s)} \cup Elements(Tail(s))
<1>1. /\ Head(s) \in S /\ Tail(s) \in Seq(S) /\ Len(Tail(s)) = Len(s) - 1
      /\ Len(s) \in Nat /\ Len(s) >= 1 /\ DOMAIN s = 1 .. Len(s)
      /\ DOMAIN Tail(s) = 1 .. Len(s) - 1
      /\ Head(s) = s[1] /\ \A i \in 1 .. Len(s) - 1 : Tail(s)[i] = s[i + 1]
      OBVIOUS
<1>2. ASSUME NEW i \in DOMAIN s PROVE s[i] = Head(s) \/ \E j \in DOMAIN Tail(s) : s[i] = Tail(s)[j]
  <2>1. CASE i = 1
        BY <1>1, <2>1
  <2>2. CASE i # 1
    <3>1. i - 1 \in DOMAIN Tail(s) /\ Tail(s)[i - 1] = s[i]
          BY <1>1, <2>2
    <3>2. QED  BY <3>1
  <2>3. QED  BY <2>1, <2>2
<1>3. ASSUME NEW i \in DOMAIN Tail(s) PROVE i + 1 \in DOMAIN s /\ Tail(s)[i] = s[i + 1]
      BY <1>1
<1>4. 1 \in DOMAIN s
      BY <1>1
<1>5. Elements(s) \subseteq {Head(s)} \cup Elements(Tail(s))
      BY <1>2, Zenon DEF Elements
<1>6. Elements(Tail(s)) \subseteq Elements(s)
      BY <1>3, Zenon DEF Elements
<1>7. Head(s) \in Elements(s)
      BY <1>1, <1>4, Zenon DEF Elements
<1>8. QED  BY <1>1, <1>5, <1>6, <1>7

LEMMA Appended ==
  ASSUME NEW S, NEW s \in Seq(S), NEW x \in S
  PROVE  /\ Append(s, x) \in Seq(S) /\ Len(Append(s, x)) = Len(s) + 1 /\ Len(s) \in Nat
         /\ Elements(Append(s, x)) = Elements(s) \cup {x}
<1>1. /\ Append(s, x) \in Seq(S) /\ Len(Append(s, x)) = Len(s) + 1 /\ Len(s) \in Nat
      /\ DOMAIN s = 1 .. Len(s) /\ DOMAIN Append(s, x) = 1 .. Len(s) + 1
      /\ Append(s, x)[Len(s) + 1] = x
      /\ \A i \in 1 .. Len(s) : Append(s, x)[i] = s[i]
      OBVIOUS
<1>2. ASSUME NEW i \in 1 .. Len(s) + 1 PROVE i = Len(s) + 1 \/ i \in 1 .. Len(s)
      BY <1>1
<1>3. Len(s) + 1 \in 1 .. Len(s) + 1 /\ \A i \in 1 .. Len(s) : i \in 1 .. Len(s) + 1
      BY <1>1
<1>4. QED  BY <1>1, <1>2, <1>3 DEF Elements

LEMMA Members ==
  ASSUME NEW S, NEW s \in Seq(S)
  PROVE  Elements(s) \subseteq S /\ (s = <<>> => Elements(s) = {})
BY DEF Elements

LEMMA Joined ==
  ASSUME NEW S, NEW s \in Seq(S), NEW t \in Seq(S)
  PROVE  /\ s \o t \in Seq(S) /\ Len(s \o t) = Len(s) + Len(t)
         /\ \A i \in 1 .. Len(s) : (s \o t)[i] = s[i]
         /\ \A i \in 1 .. Len(t) : (s \o t)[Len(s) + i] = t[i]
         /\ Elements(s \o t) = Elements(s) \cup Elements(t)
<1> DEFINE u == s \o t
           m == Len(s)
           n == Len(t)
<1>1. /\ u \in Seq(S) /\ m \in Nat /\ n \in Nat /\ Len(u) = m + n
      /\ DOMAIN s = 1 .. m /\ DOMAIN t = 1 .. n /\ DOMAIN u = 1 .. m + n
      /\ \A i \in 1 .. m : u[i] = s[i]
      OBVIOUS
<1>2. \A i \in 1 .. n : u[m + i] = t[i]
      OBVIOUS
<1> HIDE DEF u, m, n
<1>3. ASSUME NEW i \in 1 .. m + n
      PROVE  i \in 1 .. m \/ \E j \in 1 .. n : i = m + j
  <2>1. CASE i > m
    <3>1. i - m \in 1 .. n /\ i = m + (i - m)
          BY <1>1, <2>1
    <3>2. QED  BY <3>1
  <2>2. QED  BY <1>1, <2>1
<1>4. /\ \A i \in 1 .. m : i \in 1 .. m + n
      /\ \A i \in 1 .. n : m + i \in 1 .. m + n
      BY <1>1
<1>5. Elements(u) = Elements(s) \cup Elements(t)
  <2>1. Elements(u) \subseteq Elements(s) \cup Elements(t)
    <3>1. SUFFICES ASSUME NEW i \in 1 .. m + n PROVE u[i] \in Elements(s) \cup Elements(t)
          BY <1>1 DEF Elements
    <3>2. CASE i \in 1 .. m
          BY <1>1, <3>2 DEF Elements
    <3>3. ASSUME NEW j \in 1 .. n, i = m + j PROVE u[i] \in Elements(t)
          BY <1>1, <1>2, <3>3 DEF Elements
    <3>4. QED  BY <1>3, <3>2, <3>3
  <2>2. Elements(s) \subseteq Elements(u)
        BY <1>1, <1>4 DEF Elements
  <2>3. Elements(t) \subseteq Elements(u)
        BY <1>1, <1>2, <1>4 DEF Elements
  <2>4. QED  BY <2>1, <2>2, <2>3
<1>6. QED  BY <1>1, <1>2, <1>5 DEF u, m, n

\* A list without k still names every other.
LEMMA UnlistedType ==
  ASSUME NEW k, clients \in Seq(Stream)
  PROVE  /\ Unlisted(k) \in Seq(Stream) /\ Elements(Unlisted(k)) \subseteq Elements(clients)
         /\ \A j \in Elements(clients) : j # k => j \in Elements(Unlisted(k))
<1>1. CASE k \notin Elements(clients)
      BY <1>1 DEF Unlisted
<1>2. CASE k \in Elements(clients)
  <2>1. PICK i \in DOMAIN clients :
           /\ clients[i] = k
           /\ Unlisted(k) = SubSeq(clients, 1, i - 1) \o SubSeq(clients, i + 1, Len(clients))
        BY <1>2 DEF Unlisted, Elements
  <2> DEFINE l == Len(clients)
             a == SubSeq(clients, 1, i - 1)
             b == SubSeq(clients, i + 1, l)
  <2>2. i \in 1 .. l /\ l \in Nat /\ DOMAIN clients = 1 .. l
        BY <2>1
  <2>3. /\ a \in Seq(Stream) /\ b \in Seq(Stream) /\ Len(a) = i - 1 /\ Len(b) = l - i
        /\ \A j \in 1 .. i - 1 : a[j] = clients[j]
        /\ \A j \in 1 .. l - i : b[j] = clients[j + i]
        BY <2>2
  <2> HIDE DEF a, b, l
  <2>31. DOMAIN a = 1 .. i - 1 /\ DOMAIN b = 1 .. l - i
        BY <2>3
  <2>4. ASSUME NEW j \in 1 .. l, j # i
        PROVE  clients[j] \in Elements(a) \cup Elements(b)
    <3>1. CASE j < i
      <4>1. j \in 1 .. i - 1 /\ a[j] = clients[j]
            BY <2>2, <2>3, <3>1
      <4>2. QED  BY <2>31, <4>1 DEF Elements
    <3>2. CASE j > i
      <4>1. j - i \in 1 .. l - i /\ (j - i) + i = j
            BY <2>2, <3>2
      <4>2. b[j - i] = clients[j]
            BY <2>3, <4>1
      <4>3. QED  BY <2>31, <4>1, <4>2 DEF Elements
    <3>3. j < i \/ j > i
          BY <2>2, <2>4
    <3>4. QED  BY <3>1, <3>2, <3>3
  <2>5. a \o b \in Seq(Stream) /\ Elements(a \o b) = Elements(a) \cup Elements(b)
        BY <2>3, Joined
  <2>6. ASSUME NEW x \in Elements(clients), x # k
        PROVE  x \in Elements(a \o b)
    <3>1. PICK j \in 1 .. l : clients[j] = x
          BY <2>2 DEF Elements
    <3>2. QED  BY <2>1, <2>4, <2>5, <2>6, <3>1
  <2>7. Elements(a) \subseteq Elements(clients)
    <3>1. \A j \in 1 .. i - 1 : j \in DOMAIN clients
          BY <2>2
    <3>2. QED  BY <2>3, <2>31, <3>1 DEF Elements
  <2>8. Elements(b) \subseteq Elements(clients)
    <3>1. \A j \in 1 .. l - i : j + i \in DOMAIN clients
          BY <2>2
    <3>2. QED  BY <2>3, <2>31, <3>1 DEF Elements
  <2>9. QED  BY <2>1, <2>5, <2>6, <2>7, <2>8 DEF a, b, l
<1>3. QED  BY <1>1, <1>2

LEMMA NewestOfType ==
  ASSUME NEW s \in Seq(Id)
  PROVE  /\ NewestOf(s) \in Seq(Id) /\ Len(NewestOf(s)) <= ReplayRows
         /\ s # <<>> => NewestOf(s) # <<>> /\ NewestOf(s)[Len(NewestOf(s))] = s[Len(s)]
<1> DEFINE l == Len(s)
           f == IF l > ReplayRows THEN l - ReplayRows + 1 ELSE 1
           t == SubSeq(s, f, l)
<1>1. l \in Nat /\ f \in Nat /\ f >= 1 /\ f <= l + 1 /\ l - f + 1 <= ReplayRows
      /\ (l # 0 => f <= l)
      BY Numbers
<1>2. t = NewestOf(s)
      BY DEF NewestOf
<1> HIDE DEF f
<1>3. /\ t \in Seq(Id) /\ Len(t) = l - f + 1
      /\ \A i \in 1 .. l - f + 1 : t[i] = s[i + f - 1]
      BY <1>1
<1> HIDE DEF t
<1>4. ASSUME s # <<>> PROVE t # <<>> /\ t[Len(t)] = s[l]
  <2>1. l # 0
        BY <1>4
  <2>2. l - f + 1 \in 1 .. l - f + 1 /\ (l - f + 1) + f - 1 = l
        BY <1>1, <2>1
  <2>3. t[l - f + 1] = s[l]
        BY <1>3, <2>2
  <2>4. Len(t) # 0
        BY <1>1, <1>3, <2>1
  <2>5. t # <<>>
        BY <2>4
  <2>6. t[Len(t)] = s[l]
        BY <1>3, <2>3
  <2>7. QED  BY <2>5, <2>6
<1>5. QED  BY <1>1, <1>2, <1>3, <1>4

\* Quotient and remainder count every pair once.
LEMMA Quotient ==
  ASSUME NEW m \in Nat \ {0}, NEW n \in Nat \ {0}, NEW i \in 1 .. m * n
  PROVE  /\ ((i - 1) \div m) + 1 \in 1 .. n
         /\ ((i - 1) % m) + 1 \in 1 .. m
<1> DEFINE q == (i - 1) \div m
           r == (i - 1) % m
<1>1. q \in Int /\ r \in 0 .. m - 1 /\ i - 1 = m * q + r
      OBVIOUS
<1> HIDE DEF q, r
<1>2. q >= 0
  <2>1. SUFFICES ASSUME q <= -1 PROVE FALSE
        BY <1>1
  <2>2. m * q <= -m
        BY <1>1, <2>1
  <2>3. QED  BY <1>1, <2>2
<1>3. q < n
  <2>1. SUFFICES ASSUME q >= n PROVE FALSE
        BY <1>1
  <2>2. m * q >= m * n
        BY <1>1, <2>1
  <2>3. QED  BY <1>1, <2>2
<1>4. q + 1 \in 1 .. n /\ r + 1 \in 1 .. m
      BY <1>1, <1>2, <1>3
<1>5. QED  BY <1>4 DEF q, r

Meets(i, m, a, b) == (i - 1) \div m + 1 = a /\ ((i - 1) % m) + 1 = b

LEMMA Pairing ==
  ASSUME NEW m \in Nat \ {0}, NEW n \in Nat \ {0}, NEW a \in 1 .. n, NEW b \in 1 .. m
  PROVE  \E i \in 1 .. m * n : Meets(i, m, a, b)
<1> DEFINE i == m * (a - 1) + b
           q == (i - 1) \div m
           r == (i - 1) % m
<1>1. m * (a - 1) >= 0
      OBVIOUS
<1>2. m * (n - a) >= 0
      OBVIOUS
<1>3. m * n = m * (a - 1) + m + m * (n - a)
      OBVIOUS
<1>4. m * (a - 1) \in Int /\ m * (n - a) \in Int /\ m * n \in Int
      OBVIOUS
<1>5. i \in 1 .. m * n
      BY <1>1, <1>2, <1>3, <1>4
<1>6. q \in Int /\ r \in 0 .. m - 1 /\ i - 1 = m * q + r
      BY <1>5
<1> HIDE DEF q, r
<1>7. m * (q - (a - 1)) = b - 1 - r
  <2>1. m * (q - (a - 1)) = m * q - m * (a - 1)
        BY <1>6
  <2>2. QED  BY <1>4, <1>6, <2>1
<1> DEFINE d == q - (a - 1)
<1>8. d \in Int /\ m * d < m /\ m * d > -m
      BY <1>6, <1>7
<1> HIDE DEF d
<1>9. d = 0
  <2>1. ASSUME d >= 1 PROVE m * d >= m
        BY <1>8, <2>1
  <2>2. ASSUME d <= -1 PROVE m * d <= -m
        BY <1>8, <2>2
  <2>3. QED  BY <1>8, <2>1, <2>2
<1>10. q = a - 1 /\ r = b - 1
      BY <1>6, <1>7, <1>9 DEF d
<1>11. Meets(i, m, a, b)
      BY <1>10 DEF q, r, Meets
<1>12. QED  BY <1>5, <1>11

\* Every row is offered to every viewer, and to no other.
LEMMA JobsForType ==
  ASSUME NEW ids \in Seq(Id), NEW targets \in Seq(Stream)
  PROVE  /\ JobsFor(ids, targets) \in Seq(Job)
         /\ \A j \in Elements(JobsFor(ids, targets)) : j.to \in Elements(targets)
         /\ \A id \in Elements(ids), k \in Elements(targets) :
              [to |-> k, id |-> id] \in Elements(JobsFor(ids, targets))
<1> DEFINE m == Len(ids)
           n == Len(targets)
           job(i) == [to |-> targets[(i - 1) \div m + 1], id |-> ids[((i - 1) % m) + 1]]
<1>1. m \in Nat /\ n \in Nat
      OBVIOUS
<1>2. m * n \in Nat
      BY <1>1
<1>3. \A i \in 1 .. m * n :
         /\ targets[(i - 1) \div m + 1] \in Stream \cap Elements(targets)
         /\ ids[((i - 1) % m) + 1] \in Id
  <2> SUFFICES ASSUME NEW i \in 1 .. m * n
               PROVE  /\ targets[(i - 1) \div m + 1] \in Stream \cap Elements(targets)
                      /\ ids[((i - 1) % m) + 1] \in Id
      OBVIOUS
  <2>1. m # 0 /\ n # 0
        BY <1>1
  <2>2. ((i - 1) \div m) + 1 \in 1 .. n /\ ((i - 1) % m) + 1 \in 1 .. m
    <3> HIDE DEF m, n
    <3> QED  BY <1>1, <2>1, Quotient
  <2>3. \A h \in 1 .. n : targets[h] \in Stream \cap Elements(targets)
        BY DEF Elements
  <2>4. QED  BY <2>2, <2>3
<1>4. \A i \in 1 .. m * n : job(i) \in Job /\ job(i).to \in Elements(targets)
      BY <1>3 DEF Job
<1>5. JobsFor(ids, targets) = [i \in 1 .. m * n |-> job(i)]
      BY DEF JobsFor
<1>6. JobsFor(ids, targets) \in Seq(Job)
  <2> HIDE DEF job
  <2> QED  BY <1>2, <1>4, <1>5
<1>7. ASSUME NEW id \in Elements(ids), NEW k \in Elements(targets)
      PROVE  [to |-> k, id |-> id] \in Elements(JobsFor(ids, targets))
  <2>1. PICK b \in 1 .. m : ids[b] = id
        BY DEF Elements
  <2>2. PICK a \in 1 .. n : targets[a] = k
        BY DEF Elements
  <2>3. m # 0 /\ n # 0
        BY <1>1
  <2>4. PICK i \in 1 .. m * n : Meets(i, m, a, b)
    <3> HIDE DEF m, n
    <3> QED  BY <1>1, <2>1, <2>2, <2>3, Pairing
  <2>5. job(i) = [to |-> k, id |-> id]
        BY <2>1, <2>2, <2>4 DEF Meets
  <2> HIDE DEF job
  <2>6. i \in DOMAIN JobsFor(ids, targets) /\ JobsFor(ids, targets)[i] = [to |-> k, id |-> id]
        BY <1>5, <2>5
  <2>7. QED  BY <2>6 DEF Elements
<1>8. \A j \in Elements(JobsFor(ids, targets)) : j.to \in Elements(targets)
  <2> HIDE DEF job
  <2> QED  BY <1>4, <1>5 DEF Elements
<1>9. QED  BY <1>6, <1>7, <1>8

LEMMA Pages ==
  ASSUME NEW x \in Page
  PROVE  /\ x.on \in Stream \cup {None} /\ x.boot \in 0 .. MaxBoots /\ x.seen \in 0 .. MaxRows
         /\ x.boot \in Nat /\ x.seen \in Nat
         /\ x.shown \in Seq(Boot \X Id) /\ x.missing \in SUBSET (Boot \X Id)
         /\ \A k \in Stream \cup {None} : [x EXCEPT !.on = k] \in Page
         /\ \A n \in 0 .. MaxRows, b \in Boot : [x EXCEPT !.seen = n, !.boot = b] \in Page
         /\ \A n \in 0 .. MaxRows, s \in Seq(Boot \X Id), m \in SUBSET (Boot \X Id) :
              [x EXCEPT !.seen = n, !.shown = s, !.missing = m] \in Page
<1> DEFINE Rows == Seq(Boot \X Id)
           Some == SUBSET (Boot \X Id)
           Ks   == Stream \cup {None}
           Bs   == 0 .. MaxBoots
           Ns   == 0 .. MaxRows
<1>1. Page = [on : Ks, boot : Bs, seen : Ns, shown : Rows, missing : Some]
      BY DEF Page
<1>2. Boot \subseteq Bs /\ Bs \subseteq Nat /\ Ns \subseteq Nat
      BY Numbers DEF Boot
<1> HIDE DEF Rows, Some, Ks, Bs, Ns
<1>3. /\ x.on \in Ks /\ x.boot \in Bs /\ x.seen \in Ns /\ x.shown \in Rows /\ x.missing \in Some
      /\ \A k \in Ks : [x EXCEPT !.on = k] \in Page
      /\ \A n \in Ns, b \in Bs : [x EXCEPT !.seen = n, !.boot = b] \in Page
      /\ \A n \in Ns, s \in Rows, m \in Some :
           [x EXCEPT !.seen = n, !.shown = s, !.missing = m] \in Page
      BY <1>1
<1>4. QED  BY <1>2, <1>3 DEF Rows, Some, Ks, Bs, Ns

-----------------------------------------------------------------------------
(***************************************************************************)
(* No more rows are numbered or waiting for a number than were posted.     *)
(* The sum over the publishers is a set for each, apart from the others.   *)
(***************************************************************************)
LEMMA Counts ==
  ASSUME NEW n \in Nat, NEW S \in SUBSET (1 .. n)
  PROVE  /\ IsFiniteSet(S) /\ Cardinality(S) \in Nat /\ Cardinality(S) <= n
         /\ \A t \in (1 .. n) \ S : Cardinality(S \cup {t}) = Cardinality(S) + 1
         /\ \A t \in S : Cardinality(S \ {t}) = Cardinality(S) - 1
         /\ Cardinality(S) = 0 <=> S = {}
<1>1. IsFiniteSet(1 .. n) /\ Cardinality(1 .. n) = n
      BY FS_Interval
<1>2. IsFiniteSet(S) /\ Cardinality(S) <= n
      BY <1>1, FS_Subset
<1>3. QED  BY <1>2, FS_CardinalityType, FS_AddElement, FS_RemoveElement, FS_EmptySet

LEMMA RoomStays ==
  ASSUME Room, seq' = seq, rows' = rows, \A p \in Publisher : post'[p].left = post[p].left
  PROVE  Room'
BY DEF Room, Posted

LEMMA RoomReceive ==
  ASSUME LaneType, Room, NEW p \in Publisher, NEW n \in 1 .. BatchMax, Receive(p, n)
  PROVE  Room'
<1>1. PICK given \in SUBSET (1 .. rows), waiting \in [Publisher -> SUBSET (1 .. rows)] :
        Posted(given, waiting)
      BY DEF Room
<1>2. /\ rows \in Nat /\ n \in Nat /\ rows' = rows + n /\ seq' = seq
      /\ post[p] \in Post /\ post[p].left = 0 /\ post' = [post EXCEPT ![p].left = n] /\ n >= 1
  <2>1. post[p].left = 0
        BY DEF Receive, Idle
  <2>2. rows' = rows + n /\ seq' = seq /\ post' = [post EXCEPT ![p].left = n]
        BY DEF Receive, server
  <2>3. rows \in Nat /\ n \in Nat /\ n >= 1 /\ post[p] \in Post
        BY Numbers DEF LaneType, ServerTypes, PostTypes
  <2>4. QED  BY <2>1, <2>2, <2>3
<1> DEFINE new  == rows + 1 .. rows + n
           next == [waiting EXCEPT ![p] = new]
<1>3. /\ 1 .. rows \subseteq 1 .. rows' /\ new \subseteq 1 .. rows'
      /\ (1 .. rows) \cap new = {} /\ Cardinality(new) = n
  <2>1. Cardinality(new) = n
    <3>1. rows + 1 \in Int /\ rows + n \in Int /\ ~(rows + 1 > rows + n)
          BY <1>2
    <3>2. Cardinality(new) = (rows + n) - (rows + 1) + 1
          BY <3>1, FS_Interval
    <3>3. QED  BY <1>2, <3>2
  <2>2. QED  BY <1>2, <2>1
<1>4. post'[p].left = n /\ \A q \in Publisher \ {p} : post'[q] = post[q]
  <2>1. post \in [Publisher -> Post]
        BY DEF LaneType, ServerTypes, PostTypes
  <2>2. QED  BY <1>2, <2>1 DEF Post
<1> HIDE DEF new
<1>5. given \in SUBSET (1 .. rows') /\ next \in [Publisher -> SUBSET (1 .. rows')]
      BY <1>3
<1>6. next[p] = new /\ \A q \in Publisher \ {p} : next[q] = waiting[q]
      OBVIOUS
<1>7. \A q \in Publisher : waiting[q] \subseteq 1 .. rows
      OBVIOUS
<1> HIDE DEF next
<1>8. Cardinality(given) = seq'
      BY <1>1, <1>2 DEF Posted
<1>9. \A q \in Publisher : Cardinality(next[q]) = post'[q].left /\ next[q] \cap given = {}
      BY <1>1, <1>3, <1>4, <1>6 DEF Posted
<1>10. \A q, r \in Publisher : q # r => next[q] \cap next[r] = {}
  <2> SUFFICES ASSUME NEW q \in Publisher, NEW r \in Publisher, q # r
               PROVE  next[q] \cap next[r] = {}
      OBVIOUS
  <2>1. CASE q = p
        BY <1>3, <1>6, <1>7, <2>1
  <2>2. CASE r = p
        BY <1>3, <1>6, <1>7, <2>2
  <2>3. CASE q # p /\ r # p
        BY <1>1, <1>6, <2>3 DEF Posted
  <2>4. QED  BY <2>1, <2>2, <2>3
<1>11. QED  BY <1>5, <1>8, <1>9, <1>10 DEF Room, Posted

LEMMA RoomNumber ==
  ASSUME LaneType, Room, NEW p \in Publisher, Number(p)
  PROVE  Room' /\ seq + 1 <= rows
<1>1. PICK given \in SUBSET (1 .. rows), waiting \in [Publisher -> SUBSET (1 .. rows)] :
        Posted(given, waiting)
      BY DEF Room
<1>2. /\ rows \in Nat /\ rows' = rows /\ seq' = seq + 1 /\ seq \in Nat
      /\ post[p].left \in Nat /\ post[p].left > 0
      /\ post'[p].left = post[p].left - 1 /\ \A q \in Publisher \ {p} : post'[q] = post[q]
  <2>1. post[p] \in Post /\ post \in [Publisher -> Post]
        BY DEF LaneType, ServerTypes, PostTypes
  <2>2. /\ rows \in Nat /\ rows' = rows /\ seq' = seq + 1 /\ seq \in Nat /\ post[p].left > 0
        /\ post' = [post EXCEPT ![p].left = @ - 1, ![p].ids = Append(@, seq')]
        BY Numbers DEF Number, LaneType, ServerTypes, PostTypes
  <2>3. post[p].left \in Nat
        BY <2>1, Posts
  <2>4. post'[p].left = post[p].left - 1 /\ \A q \in Publisher \ {p} : post'[q] = post[q]
        BY <2>1, <2>2 DEF Post
  <2>5. QED  BY <2>2, <2>3, <2>4
<1>3. /\ Cardinality(given) = seq /\ Cardinality(waiting[p]) = post[p].left
      /\ waiting[p] \in SUBSET (1 .. rows)
      BY <1>1 DEF Posted
<1>4. PICK t \in waiting[p] : TRUE
      BY <1>2, <1>3, Counts
<1> DEFINE more == given \cup {t}
           next == [waiting EXCEPT ![p] = waiting[p] \ {t}]
<1>5. t \in (1 .. rows) \ given
      BY <1>1, <1>3, <1>4 DEF Posted
<1>6. Cardinality(more) = seq' /\ Cardinality(waiting[p] \ {t}) = post'[p].left
      BY <1>2, <1>3, <1>4, <1>5, Counts
<1>7. more \in SUBSET (1 .. rows') /\ next \in [Publisher -> SUBSET (1 .. rows')]
      BY <1>2, <1>3, <1>5
<1>8. next[p] = waiting[p] \ {t} /\ \A q \in Publisher \ {p} : next[q] = waiting[q]
      OBVIOUS
<1> HIDE DEF next
<1>9. ASSUME NEW q \in Publisher
      PROVE  Cardinality(next[q]) = post'[q].left /\ next[q] \cap more = {}
  <2>1. CASE q = p
        BY <1>1, <1>6, <1>8, <2>1 DEF Posted
  <2>2. CASE q # p
        BY <1>1, <1>2, <1>4, <1>8, <2>2 DEF Posted
  <2>3. QED  BY <2>1, <2>2
<1>10. \A q, r \in Publisher : q # r => next[q] \cap next[r] = {}
      BY <1>1, <1>8 DEF Posted
<1> HIDE DEF more
<1>11. Room'
      BY <1>6, <1>7, <1>9, <1>10 DEF Room, Posted
<1>12. Cardinality(more) <= rows
      BY <1>2, <1>7, Counts
<1>13. QED  BY <1>2, <1>6, <1>11, <1>12

LEMMA RoomAfresh ==
  ASSUME LaneType, seq' = 0, rows' = rows, \A p \in Publisher : post'[p].left = 0
  PROVE  Room'
<1> DEFINE none == [p \in Publisher |-> {}]
<1>1. Cardinality({}) = 0
      BY FS_EmptySet
<1>2. {} \in SUBSET (1 .. rows') /\ none \in [Publisher -> SUBSET (1 .. rows')]
      OBVIOUS
<1>3. \A p \in Publisher : none[p] = {}
      OBVIOUS
<1> HIDE DEF none
<1>4. Posted({}, none)'
      BY <1>1, <1>3 DEF Posted
<1>5. QED  BY <1>2, <1>4 DEF Room

LEMMA SeqInRows ==
  ASSUME LaneType, Room
  PROVE  seq \in 0 .. rows
<1>1. PICK given \in SUBSET (1 .. rows), waiting \in [Publisher -> SUBSET (1 .. rows)] :
        Posted(given, waiting)
      BY DEF Room
<1>2. rows \in Nat /\ seq \in Nat /\ Cardinality(given) = seq
      BY <1>1, Numbers DEF LaneType, ServerTypes, PostTypes, Posted
<1>3. Cardinality(given) <= rows
      BY <1>2, Counts
<1>4. QED  BY <1>2, <1>3

-----------------------------------------------------------------------------
(***************************************************************************)
(* Every step keeps the types.                                             *)
(***************************************************************************)
\* A step of a publisher changes nothing of the others' posts.
LEMMA PostChanged ==
  ASSUME PostTypes, NEW p \in Publisher, NEW x \in Post, post' = [post EXCEPT ![p] = x]
  PROVE  /\ PostTypes' /\ post'[p] = x
         /\ \A q \in Publisher \ {p} : post'[q] = post[q]
BY DEF PostTypes

LEMMA ReceivePost ==
  ASSUME PostTypes, NEW p \in Publisher, NEW n \in 1 .. BatchMax, Receive(p, n)
  PROVE  PostTypes' /\ post'[p] = [post[p] EXCEPT !.left = n]
         /\ \A q \in Publisher \ {p} : post'[q] = post[q]
<1>1. post[p] \in Post /\ n \in 0 .. BatchMax
      BY Numbers DEF PostTypes
<1>2. [post[p] EXCEPT !.left = n] \in Post
      BY <1>1, Posts
<1>3. post' = [post EXCEPT ![p] = [post[p] EXCEPT !.left = n]]
      BY DEF Receive, PostTypes
<1>4. QED  BY <1>2, <1>3, PostChanged

LEMMA NumberPost ==
  ASSUME PostTypes, NEW p \in Publisher, Number(p), seq + 1 \in Id
  PROVE  /\ PostTypes' /\ \A q \in Publisher \ {p} : post'[q] = post[q]
         /\ post'[p] = [post[p] EXCEPT !.left = post[p].left - 1,
                                       !.ids = Append(post[p].ids, seq + 1)]
<1> DEFINE ids == Append(post[p].ids, seq + 1)
           x   == [post[p] EXCEPT !.left = post[p].left - 1, !.ids = ids]
<1>1. post[p] \in Post /\ post[p].left \in 0 .. BatchMax /\ post[p].left > 0
      /\ post[p].ids \in Seq(Id)
      BY Posts DEF PostTypes, Number
<1>2. post[p].left - 1 \in 0 .. BatchMax
      BY <1>1, Numbers
<1>3. ids \in Seq(Id)
      BY <1>1, Appended
<1>4. post' = [post EXCEPT ![p] = x]
      BY DEF Number, PostTypes
<1> HIDE DEF ids
<1>5. x \in Post
      BY <1>1, <1>2, <1>3, Posts
<1>6. QED  BY <1>4, <1>5, PostChanged DEF ids

LEMMA ExtendPost ==
  ASSUME PostTypes, ServerTypes, NEW p \in Publisher, Extend(p)
  PROVE  /\ PostTypes' /\ \A q \in Publisher \ {p} : post'[q] = post[q]
         /\ post'[p] = [post[p] EXCEPT !.ids = <<>>, !.jobs = JobsFor(post[p].ids, clients)]
<1> DEFINE work == JobsFor(post[p].ids, clients)
           x    == [post[p] EXCEPT !.ids = <<>>, !.jobs = work]
<1>1. post[p] \in Post /\ post[p].ids \in Seq(Id)
      BY Posts DEF PostTypes
<1>2. work \in Seq(Job)
      BY <1>1, JobsForType DEF ServerTypes
<1>3. post' = [post EXCEPT ![p] = x]
      BY DEF Extend, PostTypes
<1> HIDE DEF work
<1>4. x \in Post
      BY <1>1, <1>2, Posts
<1>5. QED  BY <1>3, <1>4, PostChanged DEF work

LEMMA NextJobPost ==
  ASSUME PostTypes, NEW p \in Publisher, post[p].jobs # <<>>, post' = NextJob(p)
  PROVE  /\ PostTypes' /\ \A q \in Publisher \ {p} : post'[q] = post[q]
         /\ post'[p] = [post[p] EXCEPT !.jobs = Tail(post[p].jobs), !.full = FALSE]
<1> DEFINE rest == Tail(post[p].jobs)
           x    == [post[p] EXCEPT !.jobs = rest, !.full = FALSE]
<1>1. post[p] \in Post /\ post[p].jobs \in Seq(Job)
      BY Posts DEF PostTypes
<1>2. rest \in Seq(Job)
      BY <1>1, HeadTail
<1>3. post' = [post EXCEPT ![p] = x]
      BY DEF NextJob, PostTypes
<1> HIDE DEF rest
<1>4. x \in Post
      BY <1>1, <1>2, Posts
<1>5. QED  BY <1>3, <1>4, PostChanged DEF rest

LEMMA FullPost ==
  ASSUME PostTypes, NEW p \in Publisher, NEW b \in BOOLEAN, post' = [post EXCEPT ![p].full = b]
  PROVE  /\ PostTypes' /\ \A q \in Publisher \ {p} : post'[q] = post[q]
         /\ post'[p] = [post[p] EXCEPT !.full = b]
<1>1. post[p] \in Post
      BY DEF PostTypes
<1>2. [post[p] EXCEPT !.full = b] \in Post
      BY <1>1, Posts
<1>3. post' = [post EXCEPT ![p] = [post[p] EXCEPT !.full = b]]
      BY DEF PostTypes
<1>4. QED  BY <1>2, <1>3, PostChanged

LEMMA OfferedJob ==
  ASSUME PostTypes, NEW p \in Publisher, post[p].jobs # <<>>
  PROVE  /\ Offered(p).to \in Stream /\ Offered(p).id \in Id
         /\ Offered(p) = [to |-> Offered(p).to, id |-> Offered(p).id]
         /\ Elements(post[p].jobs) = {Offered(p)} \cup Elements(Tail(post[p].jobs))
<1>1. post[p].jobs \in Seq(Job)
      BY Posts DEF PostTypes
<1>2. Offered(p) \in Job
      BY <1>1, HeadTail DEF Offered
<1>3. Elements(post[p].jobs) = {Offered(p)} \cup Elements(Tail(post[p].jobs))
      BY <1>1, HeadTail DEF Offered
<1>4. QED  BY <1>2, <1>3 DEF Job

LEMMA NumberType ==
  ASSUME LaneInv, NEW p \in Publisher, Number(p)
  PROVE  LaneInv'
<1>1. /\ ServerTypes /\ PostTypes /\ StreamTypes /\ page \in Page /\ Room
      BY DEF LaneInv, LaneType
<1>2. Room' /\ seq + 1 <= rows
      BY RoomNumber DEF LaneInv
<1>3. seq + 1 \in Id
      BY <1>1, <1>2, Numbers DEF ServerTypes, Id
<1>4. PostTypes'
      BY <1>1, <1>3, NumberPost
<1>5. ServerTypes' /\ StreamTypes' /\ page' \in Page
      BY <1>1 DEF ServerTypes, StreamTypes, Number, streams
<1>6. QED  BY <1>2, <1>4, <1>5 DEF LaneInv, LaneType

LEMMA ReceiveType ==
  ASSUME LaneInv, NEW p \in Publisher, NEW n \in 1 .. BatchMax, Receive(p, n)
  PROVE  LaneInv'
<1>1. /\ ServerTypes /\ PostTypes /\ StreamTypes /\ page \in Page /\ Room
      BY DEF LaneInv, LaneType
<1>2. PostTypes'
      BY <1>1, ReceivePost
<1>3. rows' \in 0 .. MaxRows
      BY <1>1, Numbers DEF ServerTypes, Receive
<1>4. ServerTypes' /\ StreamTypes' /\ page' \in Page
      BY <1>1, <1>3 DEF ServerTypes, StreamTypes, Receive, streams, server
<1>5. QED  BY <1>2, <1>4, RoomReceive DEF LaneInv, LaneType

LEMMA ExtendType ==
  ASSUME LaneInv, NEW p \in Publisher, Extend(p)
  PROVE  LaneInv'
<1>1. /\ ServerTypes /\ PostTypes /\ StreamTypes /\ page \in Page /\ Room
      BY DEF LaneInv, LaneType
<1>2. /\ PostTypes' /\ \A q \in Publisher \ {p} : post'[q] = post[q]
      /\ post'[p] = [post[p] EXCEPT !.ids = <<>>, !.jobs = JobsFor(post[p].ids, clients)]
      BY <1>1, ExtendPost
<1>3. post[p] \in Post /\ post[p].ids \in Seq(Id)
      BY <1>1, Posts DEF PostTypes
<1>4. ring' \in Seq(Id) /\ order' \in Seq(Id)
  <2>1. ring \o post[p].ids \in Seq(Id) /\ order \o post[p].ids \in Seq(Id)
        BY <1>1, <1>3, Joined DEF ServerTypes
  <2>2. QED  BY <2>1, NewestOfType DEF Extend
<1>5. ServerTypes' /\ StreamTypes' /\ page' \in Page
      BY <1>1, <1>4 DEF ServerTypes, StreamTypes, Extend, streams
<1>6. post'[p].left = post[p].left
      BY <1>2, <1>3 DEF Post
<1>7. Room'
      BY <1>1, <1>2, <1>6, RoomStays DEF Extend
<1>8. QED  BY <1>2, <1>5, <1>7 DEF LaneInv, LaneType

LEMMA OfferType ==
  ASSUME LaneInv, NEW p \in Publisher, Offer(p)
  PROVE  LaneInv'
<1>1. /\ ServerTypes /\ PostTypes /\ StreamTypes /\ page \in Page /\ Room
      BY DEF LaneInv, LaneType
<1>2. /\ PostTypes' /\ \A q \in Publisher \ {p} : post'[q] = post[q]
      /\ post'[p] = [post[p] EXCEPT !.jobs = Tail(post[p].jobs), !.full = FALSE]
      BY <1>1, NextJobPost DEF Offer
<1> DEFINE k  == Offered(p).to
           id == Offered(p).id
<1>3. k \in Stream /\ id \in Id
      BY <1>1, OfferedJob DEF Offer
<1>4. \/ /\ queue' = [queue EXCEPT ![k] = Append(queue[k], id)]
         /\ buried' = [buried EXCEPT ![k] = @ \cup {j \in dropped[k] : j > id}]
      \/ queue' = queue /\ buried' = buried
      BY Zenon DEF Offer
<1> HIDE DEF k, id
<1>5. queue' \in [Stream -> Seq(Id)] /\ buried' \in [Stream -> SUBSET Id]
  <2> DEFINE more  == Append(queue[k], id)
             Queue == Seq(Id)
             deep  == buried[k] \cup {j \in dropped[k] : j > id}
  <2>1. more \in Queue /\ deep \in SUBSET Id /\ queue \in [Stream -> Queue]
        /\ buried \in [Stream -> SUBSET Id]
    <3>1. queue[k] \in Seq(Id)
          BY <1>1, <1>3 DEF StreamTypes
    <3>2. QED  BY <1>1, <1>3, <3>1, Appended DEF StreamTypes
  <2>2. \/ queue' = [queue EXCEPT ![k] = more] /\ buried' = [buried EXCEPT ![k] = deep]
        \/ queue' = queue /\ buried' = buried
        BY <1>4
  <2> HIDE DEF more, Queue, deep
  <2>3. queue' \in [Stream -> Queue] /\ buried' \in [Stream -> SUBSET Id]
        BY <1>3, <2>1, <2>2
  <2>4. QED  BY <2>3 DEF Queue
<1>6. ServerTypes' /\ StreamTypes' /\ page' \in Page
      BY <1>1, <1>5 DEF ServerTypes, StreamTypes, Offer, server
<1>7. post'[p].left = post[p].left
      BY <1>1, <1>2 DEF PostTypes, Post
<1>8. Room'
      BY <1>1, <1>2, <1>7, RoomStays DEF Offer, server
<1>9. QED  BY <1>2, <1>6, <1>8 DEF LaneInv, LaneType

LEMMA OfferFullType ==
  ASSUME LaneInv, NEW p \in Publisher, OfferFull(p)
  PROVE  LaneInv'
<1>1. /\ ServerTypes /\ PostTypes /\ StreamTypes /\ page \in Page /\ Room
      BY DEF LaneInv, LaneType
<1>2. /\ PostTypes' /\ \A q \in Publisher \ {p} : post'[q] = post[q]
      /\ post'[p] = [post[p] EXCEPT !.full = TRUE]
      BY <1>1, FullPost DEF OfferFull
<1>3. ServerTypes' /\ StreamTypes' /\ page' \in Page
      BY <1>1 DEF ServerTypes, StreamTypes, OfferFull, server, streams
<1>4. post'[p].left = post[p].left
      BY <1>1, <1>2 DEF PostTypes, Post
<1>5. Room'
      BY <1>1, <1>2, <1>4, RoomStays DEF OfferFull, server
<1>6. QED  BY <1>2, <1>3, <1>5 DEF LaneInv, LaneType

LEMMA EvictType ==
  ASSUME LaneInv, NEW p \in Publisher, Evict(p)
  PROVE  LaneInv'
<1>1. /\ ServerTypes /\ PostTypes /\ StreamTypes /\ page \in Page /\ Room
      BY DEF LaneInv, LaneType
<1> DEFINE k == Offered(p).to
<1>2. k \in Stream /\ Offered(p).id \in Id /\ queue[k] \in Seq(Id)
      BY <1>1, OfferedJob DEF Evict, StreamTypes
<1>3. /\ post[p].jobs # <<>>
      /\ \/ /\ queue[k] # <<>>
            /\ queue' = [queue EXCEPT ![k] = Tail(queue[k])]
            /\ dropped' = [dropped EXCEPT ![k] = dropped[k] \cup {Head(queue[k])}]
            /\ post' = [post EXCEPT ![p].full = FALSE]
            /\ UNCHANGED slipped
         \/ /\ slipped' = [slipped EXCEPT ![k] = IF thread[k] = "gone" THEN slipped[k]
                                                 ELSE slipped[k] \cup {Offered(p).id}]
            /\ post' = NextJob(p)
            /\ UNCHANGED <<queue, dropped>>
      /\ UNCHANGED <<server, thread, backlog, buried, page, rows>>
      BY Zenon DEF Evict
<1>4. /\ PostTypes' /\ \A q \in Publisher \ {p} : post'[q] = post[q]
      /\ post'[p].left = post[p].left
  <2>1. post[p] \in Post
        BY <1>1 DEF PostTypes
  <2>2. CASE post' = [post EXCEPT ![p].full = FALSE]
    <3>1. FALSE \in BOOLEAN
          OBVIOUS
    <3>2. PostTypes' /\ (\A q \in Publisher \ {p} : post'[q] = post[q])
          /\ post'[p] = [post[p] EXCEPT !.full = FALSE]
          BY <1>1, <2>2, <3>1, FullPost
    <3>3. QED  BY <2>1, <3>2 DEF Post
  <2>3. CASE post' = NextJob(p)
        BY <1>1, <1>3, <2>1, <2>3, NextJobPost DEF Post
  <2>4. QED  BY <1>3, <2>2, <2>3
<1>5. StreamTypes'
  <2> DEFINE rest  == Tail(queue[k])
             Queue == Seq(Id)
             more  == IF thread[k] = "gone" THEN slipped[k] ELSE slipped[k] \cup {Offered(p).id}
  <2>1. queue[k] # <<>> => rest \in Queue /\ Head(queue[k]) \in Id
        BY <1>2, HeadTail
  <2>2. more \in SUBSET Id
        BY <1>1, <1>2 DEF StreamTypes
  <2>3. /\ queue \in [Stream -> Queue] /\ dropped \in [Stream -> SUBSET Id]
        /\ slipped \in [Stream -> SUBSET Id]
        BY <1>1 DEF StreamTypes
  <2>4. \/ /\ queue[k] # <<>>
           /\ queue' = [queue EXCEPT ![k] = rest]
           /\ dropped' = [dropped EXCEPT ![k] = dropped[k] \cup {Head(queue[k])}]
           /\ slipped' = slipped
        \/ slipped' = [slipped EXCEPT ![k] = more] /\ queue' = queue /\ dropped' = dropped
        BY <1>3
  <2> HIDE DEF rest, Queue, more, k
  <2>5. /\ queue' \in [Stream -> Queue] /\ dropped' \in [Stream -> SUBSET Id]
        /\ slipped' \in [Stream -> SUBSET Id]
        BY <1>2, <2>1, <2>2, <2>3, <2>4
  <2>6. QED  BY <1>1, <1>3, <2>5 DEF StreamTypes, Queue
<1>6. ServerTypes' /\ page' \in Page
      BY <1>1, <1>3 DEF ServerTypes, server
<1>7. Room'
      BY <1>1, <1>3, <1>4, RoomStays DEF server
<1>8. QED  BY <1>4, <1>5, <1>6, <1>7 DEF LaneInv, LaneType

LEMMA RowsOf ==
  ASSUME NEW id \in Id, boot \in Boot, page \in Page
  PROVE  /\ Message(id) \in Page
         /\ id > page.seen =>
              Message(id) = [page EXCEPT !.seen = id, !.shown = Append(page.shown, <<boot, id>>),
                                         !.missing = page.missing \cup Missed(id)]
<1>1. page.seen \in Nat /\ page.shown \in Seq(Boot \X Id) /\ page.missing \in SUBSET (Boot \X Id)
      /\ id \in Nat /\ id \in 0 .. MaxRows
  <2>1. MaxRows \in Nat /\ id \in 1 .. MaxRows
        BY Numbers DEF Id
  <2>2. id \in Nat /\ id \in 0 .. MaxRows
        BY <2>1
  <2>3. QED  BY <2>2, Pages
<1>2. CASE id <= page.seen
      BY <1>1, <1>2 DEF Message
<1>3. CASE id > page.seen
  <2> DEFINE all == Append(page.shown, <<boot, id>>)
             gap == page.missing \cup Missed(id)
  <2>1. Message(id) = [page EXCEPT !.seen = id, !.shown = all, !.missing = gap]
        BY <1>1, <1>3 DEF Message
  <2>2. <<boot, id>> \in Boot \X Id
        OBVIOUS
  <2>3. all \in Seq(Boot \X Id)
        BY <1>1, <2>2, Appended
  <2>4. gap \in SUBSET (Boot \X Id)
    <3>1. \A j \in page.seen + 1 .. id - 1 : j \in Id
          BY <1>1, Numbers DEF Id
    <3>2. QED  BY <1>1, <3>1 DEF Missed
  <2> HIDE DEF all, gap
  <2>5. Message(id) \in Page
    <3>1. \A n \in 0 .. MaxRows, s \in Seq(Boot \X Id), m \in SUBSET (Boot \X Id) :
            [page EXCEPT !.seen = n, !.shown = s, !.missing = m] \in Page
          BY Pages
    <3>2. [page EXCEPT !.seen = id, !.shown = all, !.missing = gap] \in Page
          BY <1>1, <2>3, <2>4, <3>1
    <3>3. QED  BY <2>1, <3>2
  <2>6. QED  BY <2>1, <2>5 DEF all, gap
<1>4. QED  BY <1>1, <1>2, <1>3

LEMMA ViewType ==
  ASSUME LaneInv, NEW k \in Stream, Connect(k) \/ View(k)
  PROVE  LaneInv'
<1>1. /\ ServerTypes /\ PostTypes /\ StreamTypes /\ page \in Page /\ Room
      BY DEF LaneInv, LaneType
<1>2. CASE Connect(k)
  <2>1. page' \in Page
        BY <1>1, <1>2, Pages DEF Connect
  <2>2. ServerTypes' /\ PostTypes'
    <3>1. clients' \in Seq(Stream)
          BY <1>1, <1>2, Appended DEF ServerTypes, Connect
    <3>2. QED  BY <1>1, <1>2, <3>1 DEF ServerTypes, PostTypes, Connect
  <2>3. StreamTypes'
        BY <1>1, <1>2 DEF StreamTypes, ServerTypes, Connect
  <2>4. Room'
        BY <1>1, <1>2, RoomStays DEF Connect
  <2>5. QED  BY <2>1, <2>2, <2>3, <2>4 DEF LaneInv, LaneType
<1>3. CASE Hello(k)
  <2>1. SeenAfter \in 0 .. MaxRows /\ boot \in Boot
    <3>1. page.seen \in 0 .. MaxRows /\ 0 \in 0 .. MaxRows
      <4>1. page.seen \in 0 .. MaxRows
            BY <1>1, Pages
      <4>2. QED  BY <4>1, Numbers
    <3>2. QED  BY <1>1, <3>1 DEF SeenAfter, ServerTypes
  <2>2. page' \in Page
        BY <1>1, <1>3, <2>1, Pages DEF Hello
  <2>3. ServerTypes' /\ PostTypes' /\ StreamTypes'
        BY <1>1, <1>3 DEF ServerTypes, PostTypes, StreamTypes, Hello, server
  <2>4. Room'
        BY <1>1, <1>3, RoomStays DEF Hello, server
  <2>5. QED  BY <2>2, <2>3, <2>4 DEF LaneInv, LaneType
<1>4. CASE SendBacklog(k)
  <2>1. backlog[k] \in Seq(Id) /\ backlog[k] # <<>>
        BY <1>1, <1>4 DEF SendBacklog, StreamTypes
  <2>2. Head(backlog[k]) \in Id /\ Tail(backlog[k]) \in Seq(Id)
        BY <2>1, HeadTail
  <2>3. page' \in Page
        BY <1>1, <1>4, <2>2, RowsOf DEF SendBacklog, ServerTypes
  <2>4. ServerTypes' /\ PostTypes' /\ StreamTypes'
        BY <1>1, <1>4, <2>2 DEF ServerTypes, PostTypes, StreamTypes, SendBacklog, server
  <2>5. Room'
        BY <1>1, <1>4, RoomStays DEF SendBacklog, server
  <2>6. QED  BY <2>3, <2>4, <2>5 DEF LaneInv, LaneType
<1>5. CASE SendRow(k)
  <2>1. queue[k] \in Seq(Id) /\ queue[k] # <<>>
        BY <1>1, <1>5 DEF SendRow, StreamTypes
  <2>2. Head(queue[k]) \in Id /\ Tail(queue[k]) \in Seq(Id)
        BY <2>1, HeadTail
  <2>3. page' \in Page
        BY <1>1, <1>5, <2>2, RowsOf DEF SendRow, ServerTypes
  <2>4. ServerTypes' /\ PostTypes' /\ StreamTypes'
        BY <1>1, <1>5, <2>2 DEF ServerTypes, PostTypes, StreamTypes, SendRow, server
  <2>5. Room'
        BY <1>1, <1>5, RoomStays DEF SendRow, server
  <2>6. QED  BY <2>3, <2>4, <2>5 DEF LaneInv, LaneType
<1>6. CASE Leave(k)
  <2>1. Unlisted(k) \in Seq(Stream)
        BY <1>1, UnlistedType DEF ServerTypes
  <2>2. ServerTypes' /\ PostTypes' /\ page' \in Page
        BY <1>1, <1>6, <2>1 DEF ServerTypes, PostTypes, Leave
  <2>3. StreamTypes'
        BY <1>1, <1>6 DEF StreamTypes, Leave
  <2>4. Room'
        BY <1>1, <1>6, RoomStays DEF Leave
  <2>5. QED  BY <2>2, <2>3, <2>4 DEF LaneInv, LaneType
<1>7. QED  BY <1>2, <1>3, <1>4, <1>5, <1>6 DEF View

LEMMA RestartType == LaneInv /\ Restart => LaneInv'
<1> SUFFICES ASSUME LaneInv, Restart PROVE LaneInv'
    OBVIOUS
<1>1. /\ ServerTypes /\ PostTypes /\ StreamTypes /\ page \in Page
      BY DEF LaneInv, LaneType
<1>2. <<>> \in Seq(Id) /\ <<>> \in Seq(Stream) /\ <<>> \in Seq(Job)
      OBVIOUS
<1>3. Idle \in Post /\ Idle.left = 0
      BY <1>2, Numbers DEF Idle, Post
<1>4. PostTypes' /\ \A p \in Publisher : post'[p].left = 0
      BY <1>3 DEF PostTypes, Restart
<1>5. boot' \in Boot
      BY <1>1, Numbers DEF ServerTypes, Restart, Boot
<1>6. ServerTypes'
      BY <1>1, <1>2, <1>5 DEF ServerTypes, Restart
<1>7. StreamTypes'
      BY <1>1, <1>2 DEF StreamTypes, Restart
<1>8. page' \in Page
      BY <1>1, Pages DEF Restart
<1>9. Room'
      BY <1>4, RoomAfresh DEF LaneInv, Restart
<1>10. QED  BY <1>4, <1>6, <1>7, <1>8, <1>9 DEF LaneInv, LaneType

LEMMA TypeInit == Init => LaneInv
<1> SUFFICES ASSUME Init PROVE LaneInv
    OBVIOUS
<1>1. <<>> \in Seq(Id) /\ <<>> \in Seq(Stream) /\ <<>> \in Seq(Job) /\ <<>> \in Seq(Boot \X Id)
      OBVIOUS
<1>2. Idle \in Post /\ Idle.left = 0
      BY <1>1, Numbers DEF Idle, Post
<1>3. PostTypes /\ \A p \in Publisher : post[p].left = 0
      BY <1>2 DEF PostTypes, Init
<1>4. ServerTypes
      BY <1>1, BoundsAssumption DEF ServerTypes, Init, Boot
<1>5. StreamTypes
      BY <1>1 DEF StreamTypes, Init
<1>6. page \in Page
      BY <1>1, Numbers DEF Init, Page
<1>7. Room
  <2> DEFINE none == [p \in Publisher |-> {}]
  <2>1. Cardinality({}) = 0
        BY FS_EmptySet
  <2>2. {} \in SUBSET (1 .. rows) /\ none \in [Publisher -> SUBSET (1 .. rows)]
        OBVIOUS
  <2>3. \A p \in Publisher : none[p] = {}
        OBVIOUS
  <2> HIDE DEF none
  <2>4. Posted({}, none)
        BY <1>3, <2>1, <2>3 DEF Posted, Init
  <2>5. QED  BY <2>2, <2>4 DEF Room
<1>8. QED  BY <1>3, <1>4, <1>5, <1>6, <1>7 DEF LaneInv, LaneType

LEMMA TypeNext == LaneInv /\ [Next]_vars => LaneInv'
<1> SUFFICES ASSUME LaneInv, [Next]_vars PROVE LaneInv'
    OBVIOUS
<1>1. ASSUME NEW p \in Publisher, Publish(p)
      PROVE  LaneInv'
      BY <1>1, NumberType, ExtendType, OfferType, OfferFullType, EvictType DEF Publish
<1>2. ASSUME NEW p \in Publisher, NEW n \in 1 .. BatchMax, Receive(p, n)
      PROVE  LaneInv'
      BY <1>2, ReceiveType
<1>3. ASSUME NEW k \in Stream, Connect(k) \/ View(k)
      PROVE  LaneInv'
      BY <1>3, ViewType
<1>4. CASE Cut
  <2>1. page' \in Page
        BY <1>4, Pages DEF LaneInv, LaneType, Cut
  <2>2. LaneType' /\ Room'
        BY <1>4, <2>1, RoomStays DEF LaneInv, LaneType, ServerTypes, PostTypes, StreamTypes,
                                     Cut, server, streams
  <2>3. QED  BY <2>2 DEF LaneInv
<1>5. CASE UNCHANGED vars
  <2>1. LaneType'
        BY <1>5 DEF LaneInv, LaneType, ServerTypes, PostTypes, StreamTypes, vars, server, streams
  <2>2. Room'
        BY <1>5, RoomStays DEF LaneInv, vars, server
  <2>3. QED  BY <2>1, <2>2 DEF LaneInv
<1>6. QED  BY <1>1, <1>2, <1>3, <1>4, <1>5, RestartType DEF Next

-----------------------------------------------------------------------------
(***************************************************************************)
(* What the page knows: the rows it has shown are of boots up to the one   *)
(* it knows and, of that one, up to the highest number it has seen; a      *)
(* stream that sends has told its boot; and between the first number it    *)
(* has shown of this boot and the highest, each is shown or missing.       *)
(***************************************************************************)
\* Rows shown once each, of boots up to b, and of b up to number n.
UpTo(s, b, n) ==
  /\ \A i \in DOMAIN s : s[i][1] <= b /\ (s[i][1] = b => s[i][2] <= n)
  /\ \A i, j \in DOMAIN s : s[i] = s[j] => i = j

FirstShown(f) == f \in Shown /\ \A s \in Shown : f <= s

Gapless ==
  page.boot = boot /\ page.seen > 0 =>
    \E f \in Id : /\ FirstShown(f)
                  /\ \A i \in f .. page.seen : i \in Shown \/ <<boot, i>> \in page.missing

PageInv ==
  /\ page.boot <= boot
  /\ UpTo(page.shown, page.boot, page.seen)
  /\ \A k \in Stream : page.on = k /\ thread[k] = "sending" => page.boot = boot
  /\ Gapless

LEMMA ShownRows ==
  ASSUME page \in Page, boot \in Boot
  PROVE  /\ Shown \subseteq Id
         /\ \A s \in Id : s \in Shown <=> <<boot, s>> \in Elements(page.shown)
<1>1. page.shown \in Seq(Boot \X Id)
      BY Pages
<1>2. Elements(page.shown) \subseteq Boot \X Id
      BY <1>1, Members
<1>3. \A t \in Boot \X Id : t[1] \in Boot /\ t[2] \in Id /\ t = <<t[1], t[2]>>
      OBVIOUS
<1>4. Shown \subseteq Id
      BY <1>2, <1>3 DEF Shown
<1>5. ASSUME NEW s \in Id PROVE s \in Shown <=> <<boot, s>> \in Elements(page.shown)
  <2>1. ASSUME <<boot, s>> \in Elements(page.shown) PROVE s \in Shown
        BY <2>1 DEF Shown
  <2>2. ASSUME s \in Shown PROVE <<boot, s>> \in Elements(page.shown)
    <3>1. PICK t \in Elements(page.shown) : t[1] = boot /\ t[2] = s
          BY <2>2 DEF Shown
    <3>2. QED  BY <1>2, <1>3, <3>1
  <2>3. QED  BY <2>1, <2>2
<1>6. QED  BY <1>4, <1>5

\* Of the boot the page knows it has shown no number above the highest.
LEMMA ShownUpTo ==
  ASSUME page \in Page, boot \in Boot, UpTo(page.shown, page.boot, page.seen), page.boot = boot
  PROVE  \A s \in Shown : s <= page.seen
<1> SUFFICES ASSUME NEW s \in Shown PROVE s <= page.seen
    OBVIOUS
<1>1. <<boot, s>> \in Elements(page.shown)
      BY ShownRows
<1>2. PICK i \in DOMAIN page.shown : page.shown[i] = <<boot, s>>
      BY <1>1 DEF Elements
<1>3. page.shown[i][1] = boot /\ page.shown[i][2] = s
      BY <1>2
<1>4. QED  BY <1>2, <1>3 DEF UpTo

\* A row with a number above all that were seen of its boot.
LEMMA ShownAfter ==
  ASSUME NEW s \in Seq(Boot \X Id), NEW b \in Boot, NEW seen \in Nat,
         NEW id \in Id, seen < id, UpTo(s, b, seen)
  PROVE  UpTo(Append(s, <<b, id>>), b, id)
<1> DEFINE t == Append(s, <<b, id>>)
<1>1. <<b, id>> \in Boot \X Id /\ b \in Nat /\ id \in Nat
      BY Numbers
<1>2. /\ t \in Seq(Boot \X Id) /\ Len(s) \in Nat
      /\ DOMAIN t = 1 .. Len(s) + 1 /\ DOMAIN s = 1 .. Len(s)
      /\ t[Len(s) + 1] = <<b, id>>
      /\ \A i \in 1 .. Len(s) : t[i] = s[i]
      BY <1>1
<1>3. \A i \in 1 .. Len(s) : s[i] \in Boot \X Id
      OBVIOUS
<1> HIDE DEF t
<1>4. \A i \in 1 .. Len(s) : t[i][1] <= b /\ (t[i][1] = b => t[i][2] <= id) /\ t[i] # <<b, id>>
  <2> SUFFICES ASSUME NEW i \in 1 .. Len(s)
               PROVE  s[i][1] <= b /\ (s[i][1] = b => s[i][2] <= id) /\ s[i] # <<b, id>>
      BY <1>2
  <2>1. s[i][1] \in Nat /\ s[i][2] \in Nat
        BY <1>3, Numbers
  <2>2. s[i][1] <= b /\ (s[i][1] = b => s[i][2] <= seen)
        BY <1>2 DEF UpTo
  <2>3. s[i] = <<b, id>> => s[i][1] = b /\ s[i][2] = id
        OBVIOUS
  <2>4. QED  BY <1>1, <2>1, <2>2, <2>3
<1>5. \A i \in DOMAIN t : t[i][1] <= b /\ (t[i][1] = b => t[i][2] <= id)
  <2> SUFFICES ASSUME NEW i \in DOMAIN t
               PROVE  t[i][1] <= b /\ (t[i][1] = b => t[i][2] <= id)
      OBVIOUS
  <2>1. CASE i \in 1 .. Len(s)
        BY <1>4, <2>1
  <2>2. CASE i = Len(s) + 1
        BY <1>1, <1>2, <2>2
  <2>3. QED  BY <1>2, <2>1, <2>2
<1>6. \A i, j \in DOMAIN t : t[i] = t[j] => i = j
  <2> SUFFICES ASSUME NEW i \in DOMAIN t, NEW j \in DOMAIN t, t[i] = t[j] PROVE i = j
      OBVIOUS
  <2>1. CASE i \in 1 .. Len(s) /\ j \in 1 .. Len(s)
        BY <1>2, <2>1 DEF UpTo
  <2>2. CASE i = Len(s) + 1 /\ j \in 1 .. Len(s)
        BY <1>2, <1>4, <2>2
  <2>3. CASE j = Len(s) + 1 /\ i \in 1 .. Len(s)
        BY <1>2, <1>4, <2>3
  <2>4. /\ i \in 1 .. Len(s) \/ i = Len(s) + 1
        /\ j \in 1 .. Len(s) \/ j = Len(s) + 1
        BY <1>2
  <2>5. QED  BY <2>1, <2>2, <2>3, <2>4
<1>7. QED  BY <1>5, <1>6 DEF UpTo, t

\* A message moves the page on to its number at least.
LEMMA MessageKeeps ==
  ASSUME LaneType, LaneType', PageInv, NEW id \in Id, page.boot = boot, page' = Message(id),
         UNCHANGED <<boot, thread>>
  PROVE  /\ PageInv' /\ page'.boot = boot /\ page'.on = page.on
         /\ page'.seen >= page.seen /\ page'.seen >= id
<1>1. /\ page \in Page /\ page' \in Page /\ boot \in Boot /\ id \in Nat /\ page.seen \in Nat
      /\ page.shown \in Seq(Boot \X Id) /\ boot \in Nat
      BY Pages, Numbers DEF LaneType, ServerTypes
<1>2. CASE id <= page.seen
  <2>1. page' = page /\ boot' = boot /\ thread' = thread
        BY <1>2 DEF Message
  <2>2. Shown' = Shown
        BY <2>1 DEF Shown
  <2>3. PageInv'
        BY <2>1, <2>2 DEF PageInv, Gapless, FirstShown
  <2>4. QED  BY <1>1, <1>2, <2>1, <2>3
<1>3. CASE id > page.seen
  <2> DEFINE all == Append(page.shown, <<boot, id>>)
             gap == page.missing \cup Missed(id)
  <2>1. page' = [page EXCEPT !.seen = id, !.shown = all, !.missing = gap]
        BY <1>1, <1>3, RowsOf
  <2> HIDE DEF all, gap
  <2>2. /\ page'.on = page.on /\ page'.boot = page.boot /\ page'.seen = id
        /\ page'.shown = all /\ page'.missing = gap
        BY <1>1, <2>1 DEF Page
  <2>3. UpTo(page'.shown, page'.boot, page'.seen)
        BY <1>1, <1>3, <2>2, ShownAfter DEF PageInv, all
  <2>4. page'.boot <= boot' /\ \A k \in Stream : page'.on = k /\ thread'[k] = "sending"
                                                => page'.boot = boot'
        BY <2>2 DEF PageInv
  <2>5. <<boot, id>> \in Boot \X Id
        BY <1>1
  <2>6. Elements(all) = Elements(page.shown) \cup {<<boot, id>>}
        BY <1>1, <2>5, Appended DEF all
  <2>7. \A s \in Id : s \in Shown' <=> s \in Shown \/ s = id
    <3>1. \A s \in Id : s \in Shown' <=> <<boot, s>> \in Elements(all)
      <4>1. \A s \in Id : s \in Shown' <=> <<boot', s>> \in Elements(page'.shown)
        <5>1. page' \in Page /\ boot' \in Boot
              BY <1>1
        <5>2. Elements(page'.shown) \subseteq Boot \X Id
          <6>1. page'.shown \in Seq(Boot \X Id)
                BY <1>1, Pages
          <6>2. QED  BY <6>1, Members
        <5>3. \A t \in Boot \X Id : t[1] \in Boot /\ t[2] \in Id /\ t = <<t[1], t[2]>>
              OBVIOUS
        <5>4. ASSUME NEW s \in Id, <<boot', s>> \in Elements(page'.shown) PROVE s \in Shown'
              BY <5>4 DEF Shown
        <5>5. ASSUME NEW s \in Id, s \in Shown' PROVE <<boot', s>> \in Elements(page'.shown)
          <6>1. PICK t \in Elements(page'.shown) : t[1] = boot' /\ t[2] = s
                BY <5>5 DEF Shown
          <6>2. QED  BY <5>2, <5>3, <6>1
        <5>6. QED  BY <5>4, <5>5
      <4>2. QED  BY <2>2, <4>1
    <3>2. \A s \in Id : <<boot, s>> = <<boot, id>> <=> s = id
          OBVIOUS
    <3>3. QED  BY <1>1, <2>6, <3>1, <3>2, ShownRows
  <2>8. Shown' \subseteq Id
    <3>1. page'.shown \in Seq(Boot \X Id)
          BY <1>1, Pages
    <3>2. Elements(page'.shown) \subseteq Boot \X Id
          BY <3>1, Members
    <3>3. QED  BY <3>2 DEF Shown
  <2>9. /\ Shown \subseteq Id /\ \A s \in Shown : s <= page.seen
        BY <1>1, ShownRows, ShownUpTo DEF PageInv
  <2>10. Gapless'
    <3>1. CASE page.seen = 0
      <4>1. Shown = {}
            BY <2>9, <3>1, Numbers
      <4>2. FirstShown(id)'
            BY <1>1, <2>7, <2>8, <4>1, Numbers DEF FirstShown
      <4>3. \A i \in id .. id : i = id
            BY <1>1
      <4>4. id \in Shown'
            BY <2>7
      <4>5. QED  BY <2>2, <4>2, <4>3, <4>4 DEF Gapless
    <3>2. CASE page.seen > 0
      <4>1. PICK f \in Id : /\ FirstShown(f)
                            /\ \A i \in f .. page.seen : i \in Shown \/ <<boot, i>> \in page.missing
            BY <3>2 DEF PageInv, Gapless
      <4>2. f \in Nat /\ f <= page.seen /\ f < id
            BY <1>1, <1>3, <2>9, <4>1, Numbers DEF FirstShown
      <4>3. FirstShown(f)'
            BY <1>1, <2>7, <2>8, <4>1, <4>2, Numbers DEF FirstShown
      <4>4. ASSUME NEW i \in f .. id
            PROVE  i \in Shown' \/ <<boot, i>> \in gap
        <5>1. i \in Id
              BY <1>1, <4>2, Numbers DEF Id
        <5>2. CASE i <= page.seen
              BY <1>1, <2>7, <4>1, <4>2, <5>1, <5>2 DEF gap
        <5>3. CASE i = id
              BY <2>7, <5>3
        <5>4. CASE i > page.seen /\ i < id
          <6>1. i \in page.seen + 1 .. id - 1
                BY <1>1, <4>2, <5>4
          <6>2. QED  BY <3>2, <6>1 DEF Missed, gap
        <5>5. i <= page.seen \/ i = id \/ (i > page.seen /\ i < id)
              BY <1>1, <4>2
        <5>6. QED  BY <5>2, <5>3, <5>4, <5>5
      <4>5. QED  BY <2>2, <4>1, <4>3, <4>4 DEF Gapless
    <3>3. QED  BY <1>1, <3>1, <3>2
  <2>11. QED  BY <1>1, <1>3, <2>2, <2>3, <2>4, <2>10 DEF PageInv
<1>4. QED  BY <1>1, <1>2, <1>3

LEMMA PageStays ==
  ASSUME PageInv, boot' = boot, page'.boot = page.boot, page'.seen = page.seen,
         page'.shown = page.shown, page'.missing = page.missing,
         \A k \in Stream : page'.on = k /\ thread'[k] = "sending" =>
                             page.on = k /\ thread[k] = "sending"
  PROVE  PageInv'
<1>1. Shown' = Shown
      BY DEF Shown
<1>2. Gapless'
      BY <1>1 DEF PageInv, Gapless, FirstShown
<1>3. QED  BY <1>2 DEF PageInv

LEMMA PageInit == Init => PageInv
BY DEF Init, PageInv, UpTo, Gapless

LEMMA PageNext == LaneType /\ LaneType' /\ PageInv /\ [Next]_vars => PageInv'
<1> SUFFICES ASSUME LaneType, LaneType', PageInv, [Next]_vars PROVE PageInv'
    OBVIOUS
<1>1. /\ page \in Page /\ boot \in Boot /\ page.boot \in Nat /\ boot \in Nat /\ page.seen \in Nat
      /\ thread \in [Stream -> {"new", "hello", "sending", "gone"}]
      BY Pages, Numbers DEF LaneType, ServerTypes, StreamTypes
<1>2. ASSUME NEW p \in Publisher, Publish(p) \/ \E n \in 1 .. BatchMax : Receive(p, n)
      PROVE  PageInv'
  <2>1. page' = page /\ boot' = boot /\ thread' = thread
        BY <1>2 DEF Publish, Receive, Number, Extend, Offer, OfferFull, Evict, server, streams
  <2>2. QED  BY <2>1, PageStays
<1>3. ASSUME NEW k \in Stream, Connect(k)
      PROVE  PageInv'
  <2>1. /\ page'.on = k /\ page'.boot = page.boot /\ page'.seen = page.seen
        /\ page'.shown = page.shown /\ page'.missing = page.missing
        BY <1>1, <1>3 DEF Connect, Page
  <2>2. thread'[k] # "sending" /\ boot' = boot
        BY <1>1, <1>3 DEF Connect
  <2>3. QED  BY <2>1, <2>2, PageStays
<1>4. ASSUME NEW k \in Stream, Hello(k)
      PROVE  PageInv'
  <2>1. /\ page'.on = page.on /\ page'.boot = boot /\ page'.seen = SeenAfter /\ boot' = boot
        /\ page'.shown = page.shown /\ page'.missing = page.missing
        BY <1>1, <1>4 DEF Hello, Page, server
  <2>2. Shown' = Shown
        BY <2>1 DEF Shown
  <2>3. CASE page.boot = boot
    <3>1. SeenAfter = page.seen
          BY <2>3 DEF SeenAfter
    <3>2. QED  BY <2>1, <2>2, <2>3, <3>1 DEF PageInv, Gapless, FirstShown
  <2>4. CASE page.boot # boot
    <3>1. SeenAfter = 0 /\ page.boot < boot
          BY <1>1, <2>4 DEF SeenAfter, PageInv
    <3>2. \A i \in DOMAIN page.shown : page.shown[i][1] \in Nat
      <4>1. page.shown \in Seq(Boot \X Id)
            BY <1>1, Pages
      <4>2. \A i \in DOMAIN page.shown : page.shown[i] \in Boot \X Id
            BY <4>1
      <4>3. QED  BY <4>2, Numbers
    <3>3. UpTo(page.shown, boot, 0)
          BY <1>1, <3>1, <3>2 DEF PageInv, UpTo
    <3>4. Gapless'
          BY <2>1, <3>1 DEF Gapless
    <3>5. QED  BY <1>1, <2>1, <3>1, <3>3, <3>4 DEF PageInv
  <2>5. QED  BY <2>3, <2>4
<1>5. ASSUME NEW k \in Stream, SendBacklog(k)
      PROVE  PageInv'
  <2>1. Head(backlog[k]) \in Id
        BY <1>5, HeadTail DEF SendBacklog, LaneType, StreamTypes
  <2>2. page.boot = boot
        BY <1>5 DEF SendBacklog, PageInv
  <2>3. QED  BY <1>5, <2>1, <2>2, MessageKeeps DEF SendBacklog, server
<1>6. ASSUME NEW k \in Stream, SendRow(k)
      PROVE  PageInv'
  <2>1. Head(queue[k]) \in Id
        BY <1>6, HeadTail DEF SendRow, LaneType, StreamTypes
  <2>2. page.boot = boot
        BY <1>6 DEF SendRow, PageInv
  <2>3. QED  BY <1>6, <2>1, <2>2, MessageKeeps DEF SendRow, server
<1>7. ASSUME NEW k \in Stream, Leave(k)
      PROVE  PageInv'
  <2>1. /\ page' = page /\ boot' = boot
        /\ \A j \in Stream : thread'[j] = "sending" => thread[j] = "sending"
        BY <1>1, <1>7 DEF Leave
  <2>2. QED  BY <2>1, PageStays
<1>8. CASE Cut
  <2>1. /\ page'.on = None /\ page'.boot = page.boot /\ page'.seen = page.seen /\ boot' = boot
        /\ page'.shown = page.shown /\ page'.missing = page.missing
        BY <1>1, <1>8 DEF Cut, Page, server
  <2>2. QED  BY <2>1, Numbers, PageStays
<1>9. CASE Restart
  <2>1. /\ page'.on = None /\ page'.boot = page.boot /\ page'.seen = page.seen /\ boot' = boot + 1
        /\ page'.shown = page.shown
        BY <1>1, <1>9 DEF Restart, Page
  <2>2. page'.boot <= boot' /\ page'.boot # boot'
        BY <1>1, <2>1 DEF PageInv
  <2>3. QED  BY <2>1, <2>2, Numbers DEF PageInv, Gapless
<1>10. CASE UNCHANGED vars
      BY <1>10, PageStays DEF vars, server, streams
<1>11. QED  BY <1>2, <1>3, <1>4, <1>5, <1>6, <1>7, <1>8, <1>9, <1>10 DEF Next, View

-----------------------------------------------------------------------------
LEMMA MemoryInit == Init => Memory
BY Numbers DEF Init, Memory

LEMMA MemoryNext == LaneType /\ LaneType' /\ Memory /\ [Next]_vars => Memory'
<1> SUFFICES ASSUME LaneType, LaneType', Memory, [Next]_vars PROVE Memory'
    OBVIOUS
<1>1. /\ queue \in [Stream -> Seq(Id)] /\ backlog \in [Stream -> Seq(Id)] /\ PostTypes
      /\ \A k \in Stream : Len(queue[k]) <= QueueMax /\ Len(queue[k]) \in Nat
      BY DEF LaneType, StreamTypes, Memory
<1>2. ASSUME NEW p \in Publisher,
             Number(p) \/ OfferFull(p) \/ \E n \in 1 .. BatchMax : Receive(p, n)
      PROVE  Memory'
      BY <1>2 DEF Memory, Number, OfferFull, Receive, server, streams
<1>3. ASSUME NEW p \in Publisher, Extend(p)
      PROVE  Memory'
  <2>1. post[p].ids \in Seq(Id) /\ ring \in Seq(Id)
        BY Posts DEF LaneType, PostTypes, ServerTypes
  <2>2. ring \o post[p].ids \in Seq(Id)
        BY <2>1, Joined
  <2>3. Len(ring') <= ReplayRows
        BY <1>3, <2>2, NewestOfType DEF Extend
  <2>4. QED  BY <1>3, <2>3 DEF Memory, Extend, streams
<1>4. ASSUME NEW p \in Publisher, Offer(p)
      PROVE  Memory'
  <2> DEFINE k == Offered(p).to
             more == Append(queue[k], Offered(p).id)
  <2>1. k \in Stream /\ Offered(p).id \in Id
        BY <1>1, <1>4, OfferedJob DEF Offer
  <2>2. /\ \/ Len(queue[k]) < QueueMax /\ queue' = [queue EXCEPT ![k] = more]
           \/ queue' = queue
        /\ ring' = ring /\ backlog' = backlog
        BY <1>4, Zenon DEF Offer, HasRoom, server
  <2>3. Len(more) = Len(queue[k]) + 1
        BY <1>1, <2>1, Appended
  <2>4. Len(queue[k]) < QueueMax => Len(more) <= QueueMax
        BY <1>1, <2>1, <2>3, Numbers
  <2> HIDE DEF more, k
  <2>5. QED  BY <1>1, <2>1, <2>2, <2>4 DEF Memory
<1>5. ASSUME NEW p \in Publisher, Evict(p)
      PROVE  Memory'
  <2> DEFINE k    == Offered(p).to
             rest == Tail(queue[k])
  <2>1. k \in Stream
        BY <1>1, <1>5, OfferedJob DEF Evict
  <2>2. /\ \/ queue[k] # <<>> /\ queue' = [queue EXCEPT ![k] = rest]
           \/ queue' = queue
        /\ ring' = ring /\ backlog' = backlog
        BY <1>5, Zenon DEF Evict, server
  <2>3. ASSUME queue[k] # <<>> PROVE Len(rest) <= QueueMax
    <3>1. queue[k] \in Seq(Id) /\ Len(queue[k]) <= QueueMax /\ Len(queue[k]) \in Nat
          BY <1>1, <2>1
    <3>2. Len(rest) = Len(queue[k]) - 1
          BY <2>3, <3>1, HeadTail
    <3>3. QED  BY <3>1, <3>2, Numbers
  <2> HIDE DEF rest, k
  <2>4. QED  BY <1>1, <2>1, <2>2, <2>3 DEF Memory
<1>6. ASSUME NEW k \in Stream, Connect(k)
      PROVE  Memory'
      BY <1>1, <1>6 DEF Memory, Connect
<1>7. ASSUME NEW k \in Stream, Hello(k)
      PROVE  Memory'
      BY <1>7 DEF Memory, Hello, server
<1>8. ASSUME NEW k \in Stream, SendBacklog(k)
      PROVE  Memory'
  <2>1. backlog[k] \in Seq(Id) /\ backlog[k] # <<>> /\ Len(backlog[k]) <= ReplayRows
        BY <1>1, <1>8 DEF SendBacklog, Memory
  <2>2. Len(Tail(backlog[k])) <= ReplayRows
        BY <2>1, HeadTail, Numbers
  <2>3. QED  BY <1>1, <1>8, <2>2 DEF Memory, SendBacklog, server
<1>9. ASSUME NEW k \in Stream, SendRow(k)
      PROVE  Memory'
  <2>1. queue[k] \in Seq(Id) /\ queue[k] # <<>>
        BY <1>1, <1>9 DEF SendRow
  <2>2. Len(Tail(queue[k])) <= QueueMax
        BY <1>1, <2>1, HeadTail, Numbers
  <2>3. QED  BY <1>1, <1>9, <2>2 DEF Memory, SendRow, server
<1>10. ASSUME NEW k \in Stream, Leave(k)
      PROVE  Memory'
      BY <1>1, <1>10, Numbers DEF Memory, Leave
<1>11. CASE Restart
      BY <1>11, Numbers DEF Memory, Restart
<1>12. CASE Cut \/ UNCHANGED vars
      BY <1>12 DEF Memory, Cut, vars, server, streams
<1>13. QED  BY <1>2, <1>3, <1>4, <1>5, <1>6, <1>7, <1>8, <1>9, <1>10, <1>11, <1>12
            DEF Next, Publish, View

-----------------------------------------------------------------------------
(***************************************************************************)
(* Where a row of this boot is, as long as the page has not seen it.       *)
(***************************************************************************)
\* The viewer of the page is listed, and a viewer that has not come has nothing.
Listed ==
  /\ \A k \in Stream : page.on = k => /\ thread[k] \in {"hello", "sending"}
                                      /\ k \in Elements(clients)
  /\ \A k \in Stream : thread[k] = "new" =>
       /\ dropped[k] = {} /\ k \notin Elements(clients)
       /\ \A p \in Publisher : \A j \in Elements(post[p].jobs) : j.to # k

\* The ring ends with the row that came last, and a post is offered when all of it
\* is in the ring.
InRing ==
  /\ order # <<>> => ring # <<>> /\ ring[Len(ring)] = order[Len(order)]
  /\ \A p \in Publisher : post[p].left > 0 \/ post[p].ids # <<>> => post[p].jobs = <<>>

InJobs(k, id) == \E p \in Publisher : [to |-> k, id |-> id] \in Elements(post[p].jobs)

\* A publisher is about to put a row into the room it has made.
Making(k) ==
  \E p \in Publisher : /\ post[p].jobs # <<>> /\ Offered(p).to = k
                       /\ ~post[p].full /\ HasRoom(k)

\* What was dropped is missing once a later row arrives, and one does, unless the
\* row was buried or the last one slipped.
Safe(k, d) ==
  \/ d <= SeenAfter \/ d \in buried[k]
  \/ \E s \in slipped[k] : d <= s
  \/ \E x \in Elements(queue[k]) : d <= x
  \/ \E x \in Id : d <= x /\ InJobs(k, x)
  \/ Making(k)

Where(k, id) ==
  \/ id <= SeenAfter \/ id \in Overtaking
  \/ \E r \in Elements(backlog[k]) : id <= r
  \/ id \in Elements(queue[k]) \/ InJobs(k, id)
  \/ id \in slipped[k] \/ id \in dropped[k]

OnItsWay(k) ==
  /\ \A id \in Elements(order) : Where(k, id)
  /\ \A d \in dropped[k] : Safe(k, d)

WayInv == Listed /\ InRing /\ \A k \in Stream : page.on = k => OnItsWay(k)

-----------------------------------------------------------------------------
LEMMA SeenNumber ==
  ASSUME LaneType
  PROVE  /\ SeenAfter \in Nat /\ page.seen \in Nat /\ Elements(order) \subseteq Id
         /\ \A k \in Stream : /\ Elements(queue[k]) \subseteq Id
                              /\ Elements(backlog[k]) \subseteq Id
                              /\ dropped[k] \subseteq Id /\ slipped[k] \subseteq Id
                              /\ queue[k] \in Seq(Id) /\ backlog[k] \in Seq(Id)
         /\ Id \subseteq Nat
<1>1. page.seen \in Nat
      BY Pages DEF LaneType
<1>2. SeenAfter \in Nat
      BY <1>1 DEF SeenAfter
<1>3. Elements(order) \subseteq Id
      BY Members DEF LaneType, ServerTypes
<1>4. ASSUME NEW k \in Stream
      PROVE  /\ Elements(queue[k]) \subseteq Id /\ Elements(backlog[k]) \subseteq Id
             /\ dropped[k] \subseteq Id /\ slipped[k] \subseteq Id
             /\ queue[k] \in Seq(Id) /\ backlog[k] \in Seq(Id)
  <2>1. queue[k] \in Seq(Id) /\ backlog[k] \in Seq(Id)
        BY DEF LaneType, StreamTypes
  <2>2. QED  BY <2>1, Members DEF LaneType, StreamTypes
<1>5. QED  BY <1>1, <1>2, <1>3, <1>4, Numbers

\* A step that leaves the rows on their way alone; a publisher finds a queue full
\* only if it is.
LEMMA WayStays ==
  ASSUME LaneType, LaneType', NEW k \in Stream, OnItsWay(k),
         SeenAfter <= SeenAfter', order' = order,
         backlog'[k] = backlog[k], queue'[k] = queue[k], dropped'[k] = dropped[k],
         slipped'[k] = slipped[k], buried'[k] = buried[k],
         \A q \in Publisher : /\ post'[q].jobs = post[q].jobs
                              /\ post'[q].jobs # <<>> /\ Offered(q).to = k /\ post'[q].full =>
                                   post[q].full \/ ~HasRoom(k)
  PROVE  OnItsWay(k)'
<1>1. Overtaking' = Overtaking /\ Elements(order') = Elements(order)
      BY DEF Overtaking
<1>2. \A id : InJobs(k, id)' <=> InJobs(k, id)
      BY DEF InJobs
<1>3. ASSUME Making(k) PROVE Making(k)'
  <2>1. PICK p \in Publisher :
           post[p].jobs # <<>> /\ Offered(p).to = k /\ ~post[p].full /\ HasRoom(k)
        BY <1>3 DEF Making
  <2>2. HasRoom(k)' /\ Offered(p)' = Offered(p)
        BY <2>1 DEF HasRoom, Offered
  <2>3. ~post'[p].full
        BY <2>1
  <2>4. QED  BY <2>1, <2>2, <2>3 DEF Making
<1>4. SeenAfter \in Nat /\ SeenAfter' \in Nat
  <2>1. page'.seen \in Nat
        BY Pages DEF LaneType
  <2>2. QED  BY <2>1, SeenNumber DEF SeenAfter
<1>5. ASSUME NEW id \in Nat, id <= SeenAfter PROVE id <= SeenAfter'
      BY <1>4, <1>5
<1>6. \A id \in Elements(order) : id \in Nat
      BY SeenNumber
<1>7. \A d \in dropped[k] : d \in Nat
      BY SeenNumber
<1>8. ASSUME NEW id \in Elements(order) PROVE Where(k, id)'
  <2>1. Where(k, id)
        BY DEF OnItsWay
  <2>2. QED  BY <1>1, <1>2, <1>5, <1>6, <2>1 DEF Where
<1>9. ASSUME NEW d \in dropped[k] PROVE Safe(k, d)'
  <2>1. Safe(k, d)
        BY DEF OnItsWay
  <2>2. QED  BY <1>2, <1>3, <1>5, <1>7, <2>1 DEF Safe
<1>10. QED  BY <1>1, <1>8, <1>9 DEF OnItsWay

LEMMA SeenSame ==
  ASSUME LaneType, page' = page, boot' = boot
  PROVE  SeenAfter' = SeenAfter /\ SeenAfter <= SeenAfter'
<1>1. SeenAfter' = SeenAfter /\ SeenAfter \in Nat
      BY SeenNumber DEF SeenAfter
<1>2. QED  BY <1>1

LEMMA ExtendWay ==
  ASSUME LaneType, LaneType', WayInv, NEW p \in Publisher, Extend(p),
         NEW k \in Stream, page.on = k
  PROVE  OnItsWay(k)'
<1> DEFINE ids  == post[p].ids
           work == JobsFor(ids, clients)
<1>1. /\ ids \in Seq(Id) /\ order \in Seq(Id) /\ clients \in Seq(Stream) /\ k \in Elements(clients)
      /\ post[p].jobs = <<>>
  <2>1. post[p] \in Post
        BY DEF LaneType, PostTypes
  <2>2. QED  BY <2>1, Posts DEF LaneType, ServerTypes, WayInv, Listed, InRing, Extend
<1>2. /\ post'[p].jobs = work /\ \A q \in Publisher \ {p} : post'[q] = post[q]
      /\ order' = order \o ids
  <2>1. post[p] \in Post
        BY DEF LaneType, PostTypes
  <2>2. /\ post'[p] = [post[p] EXCEPT !.ids = <<>>, !.jobs = work]
        /\ \A q \in Publisher \ {p} : post'[q] = post[q]
        BY ExtendPost DEF LaneType
  <2> HIDE DEF work
  <2>3. post'[p].jobs = work
        BY <2>1, <2>2 DEF Post
  <2>4. QED  BY <2>2, <2>3 DEF Extend
<1>3. Elements(order') = Elements(order) \cup Elements(ids)
      BY <1>1, <1>2, Joined
<1>4. \A id \in Elements(ids) : InJobs(k, id)'
      BY <1>1, <1>2, JobsForType DEF InJobs
<1> HIDE DEF work, ids
<1>5. Overtaking \subseteq Overtaking'
  <2>1. \A i \in DOMAIN order : i \in DOMAIN order' /\ order'[i] = order[i]
    <3>1. /\ order' \in Seq(Id) /\ Len(order') = Len(order) + Len(ids)
          /\ Len(order) \in Nat /\ Len(ids) \in Nat
          /\ \A i \in 1 .. Len(order) : order'[i] = order[i]
          BY <1>1, <1>2, Joined
    <3>2. DOMAIN order = 1 .. Len(order) /\ DOMAIN order' = 1 .. Len(order')
          BY <1>1, <3>1
    <3>3. QED  BY <3>1, <3>2
  <2>2. ASSUME NEW x \in Overtaking PROVE x \in Overtaking'
    <3>1. PICK h \in DOMAIN order :
            order[h] = x /\ \E j \in DOMAIN order : h < j /\ order[j] < order[h]
          BY <2>2 DEF Overtaking
    <3>2. PICK j \in DOMAIN order : h < j /\ order[j] < order[h]
          BY <3>1
    <3>3. /\ h \in DOMAIN order' /\ order'[h] = x
          /\ j \in DOMAIN order' /\ h < j /\ order'[j] < order'[h]
          BY <2>1, <3>1, <3>2
    <3>4. QED  BY <3>3 DEF Overtaking
  <2>3. QED  BY <2>2
<1>6. /\ backlog' = backlog /\ queue' = queue /\ dropped' = dropped /\ slipped' = slipped
      /\ buried' = buried /\ SeenAfter' = SeenAfter
      BY DEF Extend, streams, SeenAfter
<1>7. ASSUME NEW id, InJobs(k, id) PROVE InJobs(k, id)'
  <2>1. PICK q \in Publisher : [to |-> k, id |-> id] \in Elements(post[q].jobs)
        BY <1>7 DEF InJobs
  <2>2. q # p
        BY <1>1, <2>1 DEF Elements
  <2>3. QED  BY <1>2, <2>1, <2>2 DEF InJobs
<1>8. ASSUME Making(k) PROVE Making(k)'
  <2>1. PICK q \in Publisher :
            post[q].jobs # <<>> /\ Offered(q).to = k /\ ~post[q].full /\ HasRoom(k)
        BY <1>8 DEF Making
  <2>2. q # p
        BY <1>1, <2>1
  <2>3. post'[q] = post[q] /\ Offered(q)' = Offered(q) /\ HasRoom(k)'
        BY <1>2, <1>6, <2>1, <2>2 DEF Offered, HasRoom
  <2>4. QED  BY <2>1, <2>3 DEF Making
<1>9. OnItsWay(k)
      BY DEF WayInv
<1>10. ASSUME NEW id \in Elements(order) PROVE Where(k, id)'
  <2>1. Where(k, id)
        BY <1>9 DEF OnItsWay
  <2>2. QED  BY <1>5, <1>6, <1>7, <2>1 DEF Where
<1>11. ASSUME NEW id \in Elements(ids) PROVE Where(k, id)'
      BY <1>4 DEF Where
<1>12. ASSUME NEW d \in dropped[k] PROVE Safe(k, d)'
  <2>1. Safe(k, d)
        BY <1>9 DEF OnItsWay
  <2>2. QED  BY <1>6, <1>7, <1>8, <2>1 DEF Safe
<1>13. QED  BY <1>3, <1>6, <1>10, <1>11, <1>12 DEF OnItsWay

\* A job that is done: no other is lost.
LEMMA JobDone ==
  ASSUME PostTypes, NEW p \in Publisher, post[p].jobs # <<>>, post' = NextJob(p), NEW k \in Stream
  PROVE  /\ \A id : InJobs(k, id) => \/ InJobs(k, id)'
                                     \/ Offered(p).to = k /\ Offered(p).id = id
         /\ \A q \in Publisher \ {p} : post'[q] = post[q]
<1>1. /\ post'[p] = [post[p] EXCEPT !.jobs = Tail(post[p].jobs), !.full = FALSE]
      /\ \A q \in Publisher \ {p} : post'[q] = post[q]
      BY NextJobPost
<1>2. post'[p].jobs = Tail(post[p].jobs)
      BY <1>1 DEF PostTypes, Post
<1>3. ASSUME NEW id, InJobs(k, id), ~InJobs(k, id)'
      PROVE  Offered(p).to = k /\ Offered(p).id = id
  <2>1. PICK q \in Publisher : [to |-> k, id |-> id] \in Elements(post[q].jobs)
        BY <1>3 DEF InJobs
  <2>2. q = p
        BY <1>1, <1>3, <2>1 DEF InJobs
  <2>3. [to |-> k, id |-> id] \notin Elements(Tail(post[p].jobs))
        BY <1>2, <1>3 DEF InJobs
  <2>4. [to |-> k, id |-> id] = Offered(p)
        BY <2>1, <2>2, <2>3, OfferedJob
  <2>5. QED  BY <2>4
<1>4. QED  BY <1>1, <1>3

LEMMA OfferWay ==
  ASSUME LaneType, LaneType', WayInv, NEW p \in Publisher, Offer(p),
         NEW k \in Stream, page.on = k
  PROVE  OnItsWay(k)'
<1> DEFINE to == Offered(p).to
           x  == Offered(p).id
<1>1. /\ PostTypes /\ post[p].jobs # <<>> /\ ~post[p].full /\ post' = NextJob(p)
      /\ order' = order /\ backlog' = backlog /\ dropped' = dropped /\ slipped' = slipped
      /\ SeenAfter' = SeenAfter /\ Overtaking' = Overtaking
      BY DEF Offer, LaneType, server, SeenAfter, Overtaking
<1>2. /\ to \in Stream /\ x \in Id /\ queue[to] \in Seq(Id)
      /\ queue \in [Stream -> Seq(Id)] /\ buried \in [Stream -> SUBSET Id]
      BY <1>1, OfferedJob DEF LaneType, StreamTypes
<1>3. \/ /\ thread[to] # "gone"
         /\ queue' = [queue EXCEPT ![to] = Append(queue[to], x)]
         /\ buried' = [buried EXCEPT ![to] = buried[to] \cup {j \in dropped[to] : j > x}]
      \/ thread[to] = "gone" /\ queue' = queue /\ buried' = buried
      BY Zenon DEF Offer
<1>4. /\ \A id : InJobs(k, id) => InJobs(k, id)' \/ (to = k /\ x = id)
      /\ \A q \in Publisher \ {p} : post'[q] = post[q]
      BY <1>1, JobDone
<1>5. OnItsWay(k) /\ thread[k] # "gone"
      BY DEF WayInv, Listed
<1>6. \A id \in Elements(order) : Where(k, id)
      BY <1>5 DEF OnItsWay
<1>7. \A d \in dropped[k] : Safe(k, d)
      BY <1>5 DEF OnItsWay
<1> HIDE DEF to, x
<1>8. CASE to # k
  <2>1. queue'[k] = queue[k] /\ buried'[k] = buried[k]
        BY <1>2, <1>3, <1>8
  <2>2. ASSUME Making(k) PROVE Making(k)'
    <3>1. PICK q \in Publisher :
            post[q].jobs # <<>> /\ Offered(q).to = k /\ ~post[q].full /\ HasRoom(k)
          BY <2>2 DEF Making
    <3>2. q # p
          BY <1>8, <3>1 DEF to
    <3>3. post'[q] = post[q] /\ Offered(q)' = Offered(q) /\ HasRoom(k)'
          BY <1>4, <2>1, <3>1, <3>2 DEF Offered, HasRoom
    <3>4. QED  BY <3>1, <3>3 DEF Making
  <2>3. \A id \in Elements(order) : Where(k, id)'
        BY <1>1, <1>4, <1>6, <1>8, <2>1 DEF Where
  <2>4. \A d \in dropped[k] : Safe(k, d)'
        BY <1>1, <1>4, <1>7, <1>8, <2>1, <2>2 DEF Safe
  <2>5. QED  BY <1>1, <2>3, <2>4 DEF OnItsWay
<1>9. CASE to = k
  <2>1. queue'[k] = Append(queue[k], x) /\ buried'[k] = buried[k] \cup {j \in dropped[k] : j > x}
        BY <1>2, <1>3, <1>5, <1>9
  <2>2. Elements(queue'[k]) = Elements(queue[k]) \cup {x}
        BY <1>2, <1>9, <2>1, Appended
  <2>3. \A id \in Elements(order) : Where(k, id)'
        BY <1>1, <1>4, <1>6, <2>2 DEF Where
  <2>4. ASSUME NEW d \in dropped[k] PROVE Safe(k, d)'
    <3>1. d \in Nat /\ x \in Nat
          BY <1>2, SeenNumber
    <3>2. CASE d <= x
          BY <2>2, <3>2 DEF Safe
    <3>3. CASE d > x
          BY <2>1, <3>3 DEF Safe
    <3>4. QED  BY <3>1, <3>2, <3>3
  <2>5. QED  BY <1>1, <2>3, <2>4 DEF OnItsWay
<1>10. QED  BY <1>8, <1>9

LEMMA EvictWay ==
  ASSUME LaneType, LaneType', Memory, WayInv, NEW p \in Publisher, Evict(p),
         NEW k \in Stream, page.on = k
  PROVE  OnItsWay(k)'
<1> DEFINE to == Offered(p).to
           x  == Offered(p).id
<1>1. /\ PostTypes /\ post[p].jobs # <<>> /\ post[p].full
      /\ order' = order /\ backlog' = backlog /\ buried' = buried
      /\ SeenAfter' = SeenAfter /\ Overtaking' = Overtaking
      BY DEF Evict, LaneType, server, SeenAfter, Overtaking
<1>2. /\ to \in Stream /\ x \in Id /\ queue[to] \in Seq(Id)
      /\ queue \in [Stream -> Seq(Id)] /\ dropped \in [Stream -> SUBSET Id]
      /\ slipped \in [Stream -> SUBSET Id]
      BY <1>1, OfferedJob DEF LaneType, StreamTypes
<1>3. \/ /\ queue[to] # <<>>
         /\ queue' = [queue EXCEPT ![to] = Tail(queue[to])]
         /\ dropped' = [dropped EXCEPT ![to] = dropped[to] \cup {Head(queue[to])}]
         /\ post' = [post EXCEPT ![p].full = FALSE]
         /\ slipped' = slipped
      \/ /\ slipped' = [slipped EXCEPT ![to] = IF thread[to] = "gone" THEN slipped[to]
                                               ELSE slipped[to] \cup {x}]
         /\ post' = NextJob(p)
         /\ queue' = queue /\ dropped' = dropped
      BY Zenon DEF Evict
<1>4. OnItsWay(k) /\ thread[k] # "gone"
      BY DEF WayInv, Listed
<1>5. \A id \in Elements(order) : Where(k, id)
      BY <1>4 DEF OnItsWay
<1>6. \A d \in dropped[k] : Safe(k, d)
      BY <1>4 DEF OnItsWay
<1> HIDE DEF to, x
<1>7. CASE /\ queue[to] # <<>>
           /\ queue' = [queue EXCEPT ![to] = Tail(queue[to])]
           /\ dropped' = [dropped EXCEPT ![to] = dropped[to] \cup {Head(queue[to])}]
           /\ post' = [post EXCEPT ![p].full = FALSE]
           /\ slipped' = slipped
  <2>1. FALSE \in BOOLEAN
        OBVIOUS
  <2>2. /\ \A q \in Publisher \ {p} : post'[q] = post[q]
        /\ post'[p] = [post[p] EXCEPT !.full = FALSE]
        BY <1>1, <1>7, <2>1, FullPost
  <2>3. post'[p].jobs = post[p].jobs /\ ~post'[p].full
        BY <1>1, <2>2 DEF PostTypes, Post
  <2>4. \A q \in Publisher : post'[q].jobs = post[q].jobs
        BY <2>2, <2>3
  <2>5. CASE to # k
    <3>1. queue'[k] = queue[k] /\ dropped'[k] = dropped[k] /\ slipped'[k] = slipped[k]
          BY <1>2, <1>7, <2>5
    <3>2. \A q \in Publisher : post'[q].full => post[q].full
          BY <2>2, <2>3
    <3>3. SeenAfter <= SeenAfter'
          BY <1>1, SeenNumber
    <3>4. QED  BY <1>1, <1>4, <2>4, <3>1, <3>2, <3>3, WayStays
  <2>6. CASE to = k
    <3>1. queue[k] \in Seq(Id) /\ queue[k] # <<>>
          BY <1>2, <1>7, <2>6
    <3>2. /\ queue'[k] = Tail(queue[k]) /\ dropped'[k] = dropped[k] \cup {Head(queue[k])}
          /\ slipped'[k] = slipped[k]
          BY <1>2, <1>7, <2>6
    <3>3. Elements(queue[k]) = {Head(queue[k])} \cup Elements(Tail(queue[k]))
          /\ Len(Tail(queue[k])) = Len(queue[k]) - 1
          BY <3>1, HeadTail
    <3>4. \A id : InJobs(k, id)' <=> InJobs(k, id)
          BY <2>4 DEF InJobs
    <3>5. Making(k)'
      <4>1. Len(queue[k]) <= QueueMax /\ Len(queue[k]) \in Nat
            BY <3>1 DEF Memory
      <4>2. HasRoom(k)'
            BY <3>2, <3>3, <4>1, Numbers DEF HasRoom
      <4>3. Offered(p)' = Offered(p)
            BY <2>3 DEF Offered
      <4>4. QED  BY <1>1, <2>3, <2>6, <4>2, <4>3 DEF Making, to
    <3>6. \A id \in Elements(order) : Where(k, id)'
          BY <1>1, <1>5, <3>2, <3>3, <3>4 DEF Where
    <3>7. \A d : Safe(k, d)'
          BY <3>5 DEF Safe
    <3>8. QED  BY <1>1, <3>6, <3>7 DEF OnItsWay
  <2>7. QED  BY <2>5, <2>6
<1>8. CASE /\ slipped' = [slipped EXCEPT ![to] = IF thread[to] = "gone" THEN slipped[to]
                                                 ELSE slipped[to] \cup {x}]
           /\ post' = NextJob(p)
           /\ queue' = queue /\ dropped' = dropped
  <2>1. /\ \A id : InJobs(k, id) => InJobs(k, id)' \/ (to = k /\ x = id)
        /\ \A q \in Publisher \ {p} : post'[q] = post[q]
        BY <1>1, <1>8, JobDone DEF to, x
  <2>2. ASSUME Making(k) PROVE Making(k)'
    <3>1. PICK q \in Publisher :
            post[q].jobs # <<>> /\ Offered(q).to = k /\ ~post[q].full /\ HasRoom(k)
          BY <2>2 DEF Making
    <3>2. q # p
          BY <1>1, <3>1
    <3>3. post'[q] = post[q] /\ Offered(q)' = Offered(q) /\ HasRoom(k)'
          BY <1>8, <2>1, <3>1, <3>2 DEF Offered, HasRoom
    <3>4. QED  BY <3>1, <3>3 DEF Making
  <2>3. slipped[k] \subseteq slipped'[k] /\ (to = k => x \in slipped'[k])
        BY <1>2, <1>4, <1>8
  <2>4. \A id \in Elements(order) : Where(k, id)'
        BY <1>1, <1>5, <1>8, <2>1, <2>3 DEF Where
  <2>5. ASSUME NEW d \in dropped[k] PROVE Safe(k, d)'
    <3>1. Safe(k, d)
          BY <1>6
    <3>2. CASE \E y \in Id : d <= y /\ InJobs(k, y)
      <4>1. PICK y \in Id : d <= y /\ InJobs(k, y)
            BY <3>2
      <4>2. CASE InJobs(k, y)'
            BY <4>1, <4>2 DEF Safe
      <4>3. CASE to = k /\ x = y
            BY <2>3, <4>1, <4>3 DEF Safe
      <4>4. QED  BY <2>1, <4>1, <4>2, <4>3
    <3>3. CASE ~ \E y \in Id : d <= y /\ InJobs(k, y)
          BY <1>1, <1>8, <2>2, <2>3, <3>1, <3>3 DEF Safe
    <3>4. QED  BY <3>2, <3>3
  <2>6. QED  BY <1>1, <1>8, <2>4, <2>5 DEF OnItsWay
<1>9. QED  BY <1>3, <1>7, <1>8

\* The ring a new viewer copies ends with the row that came last; what has a higher
\* number came to it earlier.
LEMMA ConnectWay ==
  ASSUME LaneType, LaneType', WayInv, NEW k \in Stream, Connect(k)
  PROVE  OnItsWay(k)'
<1>1. /\ backlog' = [backlog EXCEPT ![k] = ring] /\ order' = order /\ dropped' = dropped
      /\ thread[k] = "new" /\ Overtaking' = Overtaking
      BY DEF Connect, Overtaking
<1>2. dropped'[k] = {}
      BY <1>1 DEF WayInv, Listed
<1>3. backlog'[k] = ring /\ order \in Seq(Id) /\ ring \in Seq(Id)
      BY <1>1 DEF LaneType, ServerTypes, StreamTypes
<1>4. ASSUME NEW id \in Elements(order) PROVE Where(k, id)'
  <2> DEFINE l == Len(order)
  <2>1. PICK i \in DOMAIN order : order[i] = id
        BY DEF Elements
  <2>2. /\ i \in 1 .. l /\ l \in DOMAIN order /\ l \in Nat /\ order[l] \in Id /\ id \in Id
        /\ order # <<>>
        BY <1>3, <2>1
  <2>3. ring # <<>> /\ ring[Len(ring)] = order[l]
        BY <2>2 DEF WayInv, InRing
  <2>4. Len(ring) \in DOMAIN ring
        BY <1>3, <2>3
  <2>5. order[l] \in Elements(backlog'[k])
        BY <1>3, <2>3, <2>4 DEF Elements
  <2>6. CASE id <= order[l]
        BY <2>5, <2>6 DEF Where
  <2>7. CASE order[l] < id
    <3>1. i # l
          BY <2>1, <2>2, <2>7, Numbers
    <3>2. i < l
          BY <2>2, <3>1
    <3>3. id \in Overtaking
          BY <2>1, <2>2, <2>7, <3>2 DEF Overtaking
    <3>4. QED  BY <1>1, <3>3 DEF Where
  <2>8. id <= order[l] \/ order[l] < id
    <3>1. id \in Nat /\ order[l] \in Nat
          BY <2>2, Numbers
    <3>2. QED  BY <3>1
  <2>9. QED  BY <2>6, <2>7, <2>8
<1>5. QED  BY <1>1, <1>2, <1>4 DEF OnItsWay

LEMMA SendWay ==
  ASSUME LaneType, LaneType', PageInv, WayInv, NEW k \in Stream, SendBacklog(k) \/ SendRow(k)
  PROVE  OnItsWay(k)'
<1>1. /\ page.on = k /\ page.boot = boot /\ boot' = boot /\ post' = post /\ order' = order
      /\ dropped' = dropped /\ slipped' = slipped /\ buried' = buried /\ thread' = thread
      /\ Overtaking' = Overtaking
      BY DEF SendBacklog, SendRow, server, PageInv, Overtaking
<1>2. OnItsWay(k)
      BY <1>1 DEF WayInv
<1>3. /\ queue[k] \in Seq(Id) /\ backlog[k] \in Seq(Id)
      /\ backlog \in [Stream -> Seq(Id)] /\ queue \in [Stream -> Seq(Id)]
      BY DEF LaneType, StreamTypes
<1>4. \A id : InJobs(k, id)' <=> InJobs(k, id)
      BY <1>1 DEF InJobs
<1>5. /\ \A id \in Elements(order) : Where(k, id) /\ id \in Nat
      /\ \A d \in dropped[k] : Safe(k, d) /\ d \in Nat
      BY <1>2, SeenNumber DEF OnItsWay
<1>6. SeenAfter = page.seen /\ page.seen \in Nat
      BY <1>1, SeenNumber DEF SeenAfter
<1>7. ASSUME NEW x \in Id, page' = Message(x)
      PROVE  SeenAfter' \in Nat /\ \A d \in Nat : d <= SeenAfter \/ d <= x => d <= SeenAfter'
  <2>1. page'.boot = boot /\ page'.seen >= page.seen /\ page'.seen >= x
        BY <1>1, <1>7, MessageKeeps
  <2>2. page'.seen \in Nat
        BY Pages DEF LaneType
  <2>3. SeenAfter' = page'.seen
        BY <1>1, <2>1 DEF SeenAfter
  <2>4. QED  BY <1>6, <2>1, <2>2, <2>3, Numbers
<1>8. CASE SendBacklog(k)
  <2> DEFINE x == Head(backlog[k])
  <2>1. /\ x \in Id /\ page' = Message(x) /\ queue' = queue
        /\ Elements(backlog[k]) = {x} \cup Elements(Tail(backlog[k]))
        BY <1>3, <1>8, HeadTail DEF SendBacklog
  <2>2. backlog'[k] = Tail(backlog[k])
        BY <1>3, <1>8 DEF SendBacklog
  <2>3. \A d \in Nat : d <= SeenAfter \/ d <= x => d <= SeenAfter'
        BY <1>7, <2>1
  <2> HIDE DEF x
  <2>4. Making(k)' <=> Making(k)
        BY <1>1, <2>1 DEF Making, Offered, HasRoom
  <2>5. ASSUME NEW id \in Elements(order) PROVE Where(k, id)'
        BY <1>1, <1>4, <1>5, <2>1, <2>2, <2>3 DEF Where
  <2>6. ASSUME NEW d \in dropped[k] PROVE Safe(k, d)'
        BY <1>1, <1>4, <1>5, <2>1, <2>3, <2>4 DEF Safe
  <2>7. QED  BY <1>1, <2>5, <2>6 DEF OnItsWay
<1>9. CASE SendRow(k)
  <2> DEFINE x == Head(queue[k])
  <2>1. /\ x \in Id /\ page' = Message(x) /\ backlog' = backlog
        /\ Elements(queue[k]) = {x} \cup Elements(Tail(queue[k]))
        /\ Len(Tail(queue[k])) = Len(queue[k]) - 1 /\ Len(queue[k]) \in Nat
        BY <1>3, <1>9, HeadTail DEF SendRow
  <2>2. queue'[k] = Tail(queue[k])
        BY <1>3, <1>9 DEF SendRow
  <2>3. \A d \in Nat : d <= SeenAfter \/ d <= x => d <= SeenAfter'
        BY <1>7, <2>1
  <2> HIDE DEF x
  <2>4. ASSUME Making(k) PROVE Making(k)'
    <3>1. HasRoom(k) => HasRoom(k)'
          BY <2>1, <2>2, Numbers DEF HasRoom
    <3>2. QED  BY <1>1, <2>4, <3>1 DEF Making, Offered
  <2>5. \A y \in Elements(queue[k]) : y \in Nat
        BY SeenNumber
  <2>6. ASSUME NEW id \in Elements(order) PROVE Where(k, id)'
    <3>1. id \in Elements(queue[k]) => id <= x \/ id \in Elements(queue'[k])
          BY <2>1, <2>2, <1>5
    <3>2. Where(k, id) /\ id \in Nat
          BY <1>5
    <3>3. QED  BY <1>1, <1>4, <2>1, <2>3, <3>1, <3>2 DEF Where
  <2>7. ASSUME NEW d \in dropped[k] PROVE Safe(k, d)'
    <3>1. (\E y \in Elements(queue[k]) : d <= y) => d <= x \/ \E y \in Elements(queue'[k]) : d <= y
          BY <2>1, <2>2
    <3>2. Safe(k, d) /\ d \in Nat
          BY <1>5
    <3>3. QED  BY <1>1, <1>4, <2>3, <2>4, <3>1, <3>2 DEF Safe
  <2>8. QED  BY <1>1, <2>6, <2>7 DEF OnItsWay
<1>10. QED  BY <1>8, <1>9

\* A viewer leaves the list only when its page has gone.
LEMMA ListedNext ==
  ASSUME LaneType, LaneType', Listed, [Next]_vars
  PROVE  Listed'
<1>1. /\ page \in Page /\ clients \in Seq(Stream) /\ PostTypes /\ None \notin Stream
      /\ thread \in [Stream -> {"new", "hello", "sending", "gone"}]
      /\ dropped \in [Stream -> SUBSET Id]
      BY Numbers DEF LaneType, ServerTypes, StreamTypes
<1>2. ASSUME page' = page, UNCHANGED <<clients, thread, dropped>>,
             \A p \in Publisher : \A j \in Elements(post'[p].jobs) :
               j \in Elements(post[p].jobs) \/ j.to \in Elements(clients)
      PROVE  Listed'
      BY <1>2 DEF Listed
<1>3. ASSUME NEW p \in Publisher,
             Number(p) \/ OfferFull(p) \/ \E n \in 1 .. BatchMax : Receive(p, n)
      PROVE  Listed'
  <2>1. page' = page /\ UNCHANGED <<clients, thread, dropped>>
        BY <1>3 DEF Number, OfferFull, Receive, server, streams
  <2>2. \A q \in Publisher : post'[q].jobs = post[q].jobs
    <3>1. ASSUME Number(p) PROVE \A q \in Publisher : post'[q].jobs = post[q].jobs
          BY <1>1, <3>1 DEF PostTypes, Post, Number
    <3>2. ASSUME OfferFull(p) PROVE \A q \in Publisher : post'[q].jobs = post[q].jobs
          BY <1>1, <3>2 DEF PostTypes, Post, OfferFull
    <3>3. ASSUME NEW n \in 1 .. BatchMax, Receive(p, n)
          PROVE  \A q \in Publisher : post'[q].jobs = post[q].jobs
          BY <1>1, <3>3 DEF PostTypes, Post, Receive
    <3>4. QED  BY <1>3, <3>1, <3>2, <3>3
  <2>3. QED  BY <1>2, <2>1, <2>2
<1>4. ASSUME NEW p \in Publisher, Extend(p)
      PROVE  Listed'
  <2> DEFINE work == JobsFor(post[p].ids, clients)
  <2>1. page' = page /\ UNCHANGED <<clients, thread, dropped>>
        BY <1>4 DEF Extend, streams
  <2>2. \A j \in Elements(work) : j.to \in Elements(clients)
        BY <1>1, Posts, JobsForType DEF PostTypes
  <2>3. /\ \A q \in Publisher \ {p} : post'[q] = post[q]
        /\ post'[p] = [post[p] EXCEPT !.ids = <<>>, !.jobs = work]
        BY <1>4, ExtendPost DEF LaneType
  <2> HIDE DEF work
  <2>4. post'[p].jobs = work
        BY <1>1, <2>3 DEF PostTypes, Post
  <2>5. QED  BY <1>2, <2>1, <2>2, <2>3, <2>4
<1>5. ASSUME NEW p \in Publisher, post[p].jobs # <<>>, post' = NextJob(p),
             page' = page, UNCHANGED <<clients, thread, dropped>>
      PROVE  Listed'
  <2>1. /\ \A q \in Publisher \ {p} : post'[q] = post[q]
        /\ post'[p] = [post[p] EXCEPT !.jobs = Tail(post[p].jobs), !.full = FALSE]
        BY <1>1, <1>5, NextJobPost
  <2>2. post'[p].jobs = Tail(post[p].jobs)
        BY <1>1, <2>1 DEF PostTypes, Post
  <2>3. Elements(Tail(post[p].jobs)) \subseteq Elements(post[p].jobs)
        BY <1>1, <1>5, OfferedJob
  <2>4. QED  BY <1>2, <1>5, <2>1, <2>2, <2>3
<1>6. ASSUME NEW p \in Publisher, Offer(p)
      PROVE  Listed'
      BY <1>5, <1>6 DEF Offer, server
<1>7. ASSUME NEW p \in Publisher, Evict(p)
      PROVE  Listed'
  <2> DEFINE k == Offered(p).to
  <2>1. /\ post[p].jobs # <<>> /\ page' = page /\ clients' = clients /\ thread' = thread
        /\ \/ /\ dropped' = [dropped EXCEPT ![k] = @ \cup {Head(queue[k])}]
              /\ post' = [post EXCEPT ![p].full = FALSE]
           \/ post' = NextJob(p) /\ dropped' = dropped
        BY <1>7, Zenon DEF Evict, server
  <2>2. k \in Stream /\ Offered(p) \in Elements(post[p].jobs)
        BY <1>1, <2>1, OfferedJob
  <2>3. thread[k] # "new"
        BY <2>2 DEF Listed
  <2> HIDE DEF k
  <2>4. CASE post' = NextJob(p) /\ dropped' = dropped
        BY <1>5, <2>1, <2>4
  <2>5. CASE /\ dropped' = [dropped EXCEPT ![k] = @ \cup {Head(queue[k])}]
             /\ post' = [post EXCEPT ![p].full = FALSE]
    <3>1. \A q \in Publisher : post'[q].jobs = post[q].jobs
          BY <1>1, <2>5 DEF PostTypes, Post
    <3>2. \A j \in Stream : thread[j] = "new" => dropped'[j] = dropped[j]
          BY <1>1, <2>3, <2>5
    <3>3. QED  BY <2>1, <3>1, <3>2 DEF Listed
  <2>6. QED  BY <2>1, <2>4, <2>5
<1>8. ASSUME NEW k \in Stream, Connect(k)
      PROVE  Listed'
  <2>1. page'.on = k /\ post' = post /\ dropped' = dropped
        BY <1>1, <1>8 DEF Connect, Page
  <2>2. Elements(clients') = Elements(clients) \cup {k}
        BY <1>1, <1>8, Appended DEF Connect
  <2>3. thread'[k] = "hello" /\ \A j \in Stream \ {k} : thread'[j] = thread[j]
        BY <1>1, <1>8 DEF Connect
  <2>4. QED  BY <2>1, <2>2, <2>3 DEF Listed
<1>9. ASSUME NEW k \in Stream, Hello(k)
      PROVE  Listed'
  <2>1. page'.on = page.on /\ UNCHANGED <<post, dropped, clients>>
        BY <1>1, <1>9 DEF Hello, Page, server
  <2>2. thread'[k] = "sending" /\ \A j \in Stream \ {k} : thread'[j] = thread[j]
        BY <1>1, <1>9 DEF Hello
  <2>3. QED  BY <2>1, <2>2 DEF Listed
<1>10. ASSUME NEW k \in Stream, SendBacklog(k) \/ SendRow(k)
      PROVE  Listed'
  <2>1. page'.on = page.on
    <3>1. \A id : Message(id).on = page.on
          BY <1>1 DEF Message, Page
    <3>2. QED  BY <1>10, <3>1 DEF SendBacklog, SendRow
  <2>2. UNCHANGED <<post, dropped, clients, thread>>
        BY <1>10 DEF SendBacklog, SendRow, server
  <2>3. QED  BY <2>1, <2>2 DEF Listed
<1>11. ASSUME NEW k \in Stream, Leave(k)
      PROVE  Listed'
  <2>1. /\ page' = page /\ post' = post /\ clients' = Unlisted(k) /\ page.on # k
        /\ thread[k] # "new" /\ thread'[k] = "gone"
        /\ \A j \in Stream \ {k} : thread'[j] = thread[j] /\ dropped'[j] = dropped[j]
        BY <1>1, <1>11 DEF Leave
  <2>2. /\ Elements(Unlisted(k)) \subseteq Elements(clients)
        /\ \A j \in Elements(clients) : j # k => j \in Elements(Unlisted(k))
        BY <1>1, UnlistedType
  <2>3. QED  BY <2>1, <2>2 DEF Listed
<1>12. CASE Cut
  <2>1. page'.on = None /\ UNCHANGED <<post, dropped, clients, thread>>
        BY <1>1, <1>12 DEF Cut, Page, server, streams
  <2>2. QED  BY <1>1, <2>1 DEF Listed
<1>13. CASE Restart
  <2>1. /\ page'.on = None /\ clients' = <<>> /\ \A p \in Publisher : post'[p].jobs = <<>>
        /\ \A k \in Stream : dropped'[k] = {}
        BY <1>1, <1>13 DEF Restart, Page, Idle
  <2>2. Elements(<<>>) = {}
        BY DEF Elements
  <2>3. QED  BY <1>1, <2>1, <2>2 DEF Listed
<1>14. CASE UNCHANGED vars
      BY <1>14 DEF vars, server, streams, Listed
<1>15. QED  BY <1>3, <1>4, <1>6, <1>7, <1>8, <1>9, <1>10, <1>11, <1>12, <1>13, <1>14
            DEF Next, Publish, View

\* The ring and the order grow together, and a post is offered after that.
LEMMA InRingNext ==
  ASSUME LaneType, LaneType', InRing, [Next]_vars
  PROVE  InRing'
<1>1. /\ ring \in Seq(Id) /\ order \in Seq(Id) /\ PostTypes
      BY DEF LaneType, ServerTypes
<1>2. ASSUME UNCHANGED <<ring, order>>,
             \A q \in Publisher : post'[q].left > 0 \/ post'[q].ids # <<>> =>
                                    post'[q].jobs = <<>>
      PROVE  InRing'
      BY <1>2 DEF InRing
<1>3. ASSUME NEW p \in Publisher, NEW n \in 1 .. BatchMax, Receive(p, n)
      PROVE  InRing'
  <2>1. post[p].jobs = <<>> /\ UNCHANGED <<ring, order>>
        BY <1>3 DEF Receive, Idle, server
  <2>2. \A q \in Publisher : post'[q].jobs = post[q].jobs
        BY <1>1, <1>3 DEF PostTypes, Post, Receive
  <2>3. \A q \in Publisher \ {p} : post'[q] = post[q]
        BY <1>1, <1>3, ReceivePost
  <2>4. QED  BY <1>2, <2>1, <2>2, <2>3 DEF InRing
<1>4. ASSUME NEW p \in Publisher, Number(p)
      PROVE  InRing'
  <2>1. post[p].jobs = <<>> /\ UNCHANGED <<ring, order>>
        BY <1>4 DEF Number, InRing
  <2>2. \A q \in Publisher : post'[q].jobs = post[q].jobs
        BY <1>1, <1>4 DEF PostTypes, Post, Number
  <2>3. \A q \in Publisher \ {p} : post'[q] = post[q]
        BY <1>1, <1>4 DEF PostTypes, Post, Number
  <2>4. QED  BY <1>2, <2>1, <2>2, <2>3 DEF InRing
<1>5. ASSUME NEW p \in Publisher, Extend(p)
      PROVE  InRing'
  <2> DEFINE ids  == post[p].ids
             work == JobsFor(ids, clients)
             more == order \o ids
             all  == ring \o ids
  <2>1. ids \in Seq(Id) /\ ids # <<>> /\ post[p].left = 0 /\ post[p] \in Post
    <3>1. post[p] \in Post
          BY <1>1 DEF PostTypes
    <3>2. QED  BY <1>5, <3>1, Posts DEF Extend
  <2>2. /\ post'[p] = [post[p] EXCEPT !.ids = <<>>, !.jobs = work]
        /\ \A q \in Publisher \ {p} : post'[q] = post[q]
        /\ order' = more /\ ring' = NewestOf(all)
        BY <1>5, ExtendPost DEF LaneType, Extend
  <2>3. post'[p].left = 0 /\ post'[p].ids = <<>>
    <3> HIDE DEF work, ids
    <3> QED  BY <2>1, <2>2 DEF Post
  <2>4. /\ Len(ids) \in 1 .. Len(ids) /\ Len(order) \in Nat /\ Len(ring) \in Nat /\ Len(ids) \in Nat
        /\ Len(ids) >= 1
        BY <1>1, <2>1
  <2> HIDE DEF ids, work
  <2>5. more[Len(more)] = ids[Len(ids)] /\ more # <<>>
    <3>1. /\ more \in Seq(Id) /\ Len(more) = Len(order) + Len(ids)
          /\ more[Len(order) + Len(ids)] = ids[Len(ids)]
          BY <1>1, <2>1, <2>4, Joined
    <3>2. Len(more) >= 1
          BY <2>4, <3>1
    <3> HIDE DEF more
    <3>3. QED  BY <3>1, <3>2
  <2>6. all[Len(all)] = ids[Len(ids)] /\ all # <<>> /\ all \in Seq(Id)
    <3>1. /\ all \in Seq(Id) /\ Len(all) = Len(ring) + Len(ids)
          /\ all[Len(ring) + Len(ids)] = ids[Len(ids)]
          BY <1>1, <2>1, <2>4, Joined
    <3>2. Len(all) >= 1
          BY <2>4, <3>1
    <3> HIDE DEF all
    <3>3. QED  BY <3>1, <3>2
  <2> HIDE DEF more, all
  <2>7. ring' # <<>> /\ ring'[Len(ring')] = order'[Len(order')]
    <3>1. NewestOf(all) # <<>> /\ NewestOf(all)[Len(NewestOf(all))] = all[Len(all)]
          BY <2>6, NewestOfType
    <3>2. QED  BY <2>2, <2>5, <2>6, <3>1, Zenon
  <2>8. ASSUME NEW q \in Publisher, post'[q].left > 0 \/ post'[q].ids # <<>>
        PROVE  post'[q].jobs = <<>>
    <3>1. q # p
          BY <2>3, <2>8
    <3>2. post'[q] = post[q]
          BY <2>2, <3>1
    <3>3. post[q].left > 0 \/ post[q].ids # <<>>
          BY <2>8, <3>2
    <3>4. QED  BY <3>2, <3>3 DEF InRing
  <2>9. QED  BY <2>7, <2>8 DEF InRing
<1>6. ASSUME NEW p \in Publisher, post[p].jobs # <<>>, post' = NextJob(p), UNCHANGED <<ring, order>>
      PROVE  InRing'
  <2>1. /\ \A q \in Publisher \ {p} : post'[q] = post[q]
        /\ post'[p] = [post[p] EXCEPT !.jobs = Tail(post[p].jobs), !.full = FALSE]
        BY <1>1, <1>6, NextJobPost
  <2>2. post'[p].left = post[p].left /\ post'[p].ids = post[p].ids
        BY <1>1, <2>1 DEF PostTypes, Post
  <2>3. ~(post[p].left > 0) /\ post[p].ids = <<>>
        BY <1>6 DEF InRing
  <2>4. QED  BY <1>2, <1>6, <2>1, <2>2, <2>3 DEF InRing
<1>7. ASSUME NEW p \in Publisher, NEW b \in BOOLEAN, post' = [post EXCEPT ![p].full = b],
             UNCHANGED <<ring, order>>
      PROVE  InRing'
  <2>1. \A q \in Publisher : /\ post'[q].left = post[q].left /\ post'[q].ids = post[q].ids
                             /\ post'[q].jobs = post[q].jobs
        BY <1>1, <1>7 DEF PostTypes, Post
  <2>2. QED  BY <1>2, <1>7, <2>1 DEF InRing
<1>8. ASSUME NEW p \in Publisher, Offer(p) \/ OfferFull(p) \/ Evict(p)
      PROVE  InRing'
  <2>1. /\ post[p].jobs # <<>> /\ UNCHANGED <<ring, order>>
        /\ \/ post' = NextJob(p) \/ post' = [post EXCEPT ![p].full = TRUE]
           \/ post' = [post EXCEPT ![p].full = FALSE]
        BY <1>8, Zenon DEF Offer, OfferFull, Evict, server
  <2>2. TRUE \in BOOLEAN /\ FALSE \in BOOLEAN
        OBVIOUS
  <2>3. QED  BY <1>6, <1>7, <2>1, <2>2
<1>9. ASSUME NEW k \in Stream, Connect(k) \/ View(k)
      PROVE  InRing'
  <2>1. UNCHANGED <<ring, order, post>>
        BY <1>9 DEF Connect, View, Hello, SendBacklog, SendRow, Leave, server
  <2>2. QED  BY <2>1 DEF InRing
<1>10. CASE Cut \/ UNCHANGED vars
      BY <1>10 DEF Cut, vars, server, InRing
<1>11. CASE Restart
      BY <1>11 DEF Restart, Idle, InRing
<1>12. QED  BY <1>3, <1>4, <1>5, <1>8, <1>9, <1>10, <1>11 DEF Next, Publish

-----------------------------------------------------------------------------
LEMMA WayInit == Init => WayInv
<1> SUFFICES ASSUME Init PROVE WayInv
    OBVIOUS
<1>1. /\ page.on = None /\ clients = <<>> /\ order = <<>>
      /\ \A k \in Stream : thread[k] = "new" /\ dropped[k] = {}
      /\ \A p \in Publisher : post[p].jobs = <<>>
      BY DEF Init, Idle
<1>2. Elements(<<>>) = {} /\ None \notin Stream
      BY Numbers DEF Elements
<1>3. Listed /\ InRing
      BY <1>1, <1>2 DEF Listed, InRing
<1>4. QED  BY <1>1, <1>2, <1>3 DEF WayInv

LEMMA WayNext == LaneType /\ LaneType' /\ Memory /\ PageInv /\ WayInv /\ [Next]_vars => WayInv'
<1> SUFFICES ASSUME LaneType, LaneType', Memory, PageInv, WayInv, [Next]_vars PROVE WayInv'
    OBVIOUS
<1>1. /\ page \in Page /\ PostTypes /\ None \notin Stream /\ SeenAfter \in Nat
      BY Numbers, SeenNumber DEF LaneType
<1>2. Listed' /\ InRing'
      BY ListedNext, InRingNext DEF WayInv
<1>3. SUFFICES ASSUME NEW k \in Stream, page'.on = k PROVE OnItsWay(k)'
      BY <1>2 DEF WayInv
<1>4. ASSUME NEW p \in Publisher,
             Number(p) \/ OfferFull(p) \/ \E n \in 1 .. BatchMax : Receive(p, n)
      PROVE  OnItsWay(k)'
  <2>1. /\ page' = page /\ boot' = boot /\ order' = order
        /\ UNCHANGED <<backlog, queue, dropped, slipped, buried>>
        BY <1>4 DEF Number, OfferFull, Receive, server, streams
  <2>2. \A q \in Publisher : /\ post'[q].jobs = post[q].jobs
                             /\ post'[q].full => post[q].full \/ ~HasRoom(Offered(q).to)
    <3>1. ASSUME Number(p)
          PROVE  \A q \in Publisher : post'[q].jobs = post[q].jobs /\ post'[q].full = post[q].full
          BY <1>1, <3>1 DEF PostTypes, Post, Number
    <3>2. ASSUME OfferFull(p)
          PROVE  \A q \in Publisher : /\ post'[q].jobs = post[q].jobs
                                      /\ post'[q].full => post[q].full \/ q = p
          BY <1>1, <3>2 DEF PostTypes, Post, OfferFull
    <3>3. ASSUME NEW n \in 1 .. BatchMax, Receive(p, n)
          PROVE  \A q \in Publisher : post'[q].jobs = post[q].jobs /\ post'[q].full = post[q].full
          BY <1>1, <3>3 DEF PostTypes, Post, Receive
    <3>4. OfferFull(p) => ~HasRoom(Offered(p).to)
          BY DEF OfferFull, Refused
    <3>5. QED  BY <1>4, <3>1, <3>2, <3>3, <3>4
  <2>3. OnItsWay(k) /\ SeenAfter <= SeenAfter'
        BY <1>3, <2>1, SeenSame DEF WayInv
  <2>4. QED  BY <2>1, <2>2, <2>3, WayStays
<1>5. ASSUME NEW p \in Publisher, Extend(p) \/ Offer(p) \/ Evict(p)
      PROVE  OnItsWay(k)'
  <2>1. page.on = k
        BY <1>3, <1>5 DEF Extend, Offer, Evict
  <2>2. QED  BY <1>5, <2>1, ExtendWay, OfferWay, EvictWay
<1>6. ASSUME NEW j \in Stream, Connect(j)
      PROVE  OnItsWay(k)'
  <2>1. page'.on = j
        BY <1>1, <1>6 DEF Connect, Page
  <2>2. QED  BY <1>3, <1>6, <2>1, ConnectWay
<1>7. ASSUME NEW j \in Stream, Hello(j)
      PROVE  OnItsWay(k)'
  <2>1. /\ page'.on = page.on /\ page'.boot = boot /\ page'.seen = SeenAfter /\ boot' = boot
        BY <1>1, <1>7 DEF Hello, Page, server
  <2>2. /\ order' = order /\ UNCHANGED <<post, backlog, queue, dropped, slipped, buried>>
        BY <1>7 DEF Hello, server
  <2>3. SeenAfter' = SeenAfter
        BY <2>1 DEF SeenAfter
  <2>4. SeenAfter <= SeenAfter'
        BY <1>1, <2>3
  <2>5. OnItsWay(k)
        BY <1>3, <2>1 DEF WayInv
  <2>6. QED  BY <2>2, <2>4, <2>5, WayStays
<1>8. ASSUME NEW j \in Stream, SendBacklog(j) \/ SendRow(j)
      PROVE  OnItsWay(k)'
  <2>1. page'.on = page.on /\ page.on = j
    <3>1. \A id : Message(id).on = page.on
          BY <1>1 DEF Message, Page
    <3>2. QED  BY <1>8, <3>1 DEF SendBacklog, SendRow
  <2>2. QED  BY <1>3, <1>8, <2>1, SendWay
<1>9. ASSUME NEW j \in Stream, Leave(j)
      PROVE  OnItsWay(k)'
  <2>1. /\ page' = page /\ page.on # j /\ boot' = boot /\ order' = order /\ post' = post
        /\ backlog' = [backlog EXCEPT ![j] = <<>>] /\ queue' = [queue EXCEPT ![j] = <<>>]
        /\ dropped' = [dropped EXCEPT ![j] = {}] /\ slipped' = [slipped EXCEPT ![j] = {}]
        /\ buried' = [buried EXCEPT ![j] = {}]
        BY <1>9 DEF Leave
  <2>2. /\ backlog'[k] = backlog[k] /\ queue'[k] = queue[k] /\ dropped'[k] = dropped[k]
        /\ slipped'[k] = slipped[k] /\ buried'[k] = buried[k]
        BY <1>3, <2>1 DEF LaneType, StreamTypes
  <2>3. OnItsWay(k) /\ SeenAfter <= SeenAfter'
        BY <1>3, <2>1, SeenSame DEF WayInv
  <2>4. QED  BY <2>1, <2>2, <2>3, WayStays
<1>10. CASE Cut \/ Restart
  <2>1. page'.on = None
        BY <1>1, <1>10 DEF Cut, Restart, Page
  <2>2. QED  BY <1>1, <1>3, <2>1
<1>11. CASE UNCHANGED vars
  <2>1. /\ page' = page /\ boot' = boot /\ order' = order /\ post' = post
        /\ UNCHANGED <<backlog, queue, dropped, slipped, buried>>
        BY <1>11 DEF vars, server, streams
  <2>2. OnItsWay(k) /\ SeenAfter <= SeenAfter'
        BY <1>3, <2>1, SeenSame DEF WayInv
  <2>3. QED  BY <2>1, <2>2, WayStays
<1>12. QED  BY <1>4, <1>5, <1>6, <1>7, <1>8, <1>9, <1>10, <1>11 DEF Next, Publish, View

-----------------------------------------------------------------------------
(***************************************************************************)
(* The theorems.                                                           *)
(***************************************************************************)
LaneSafe == LaneInv /\ PageInv /\ Memory /\ WayInv

LEMMA LaneIsSafe == Spec => []LaneSafe
<1>1. Init => LaneSafe
      BY TypeInit, PageInit, MemoryInit, WayInit DEF LaneSafe
<1>2. LaneSafe /\ [Next]_vars => LaneSafe'
  <2> SUFFICES ASSUME LaneSafe, [Next]_vars PROVE LaneSafe'
      OBVIOUS
  <2>1. LaneInv' /\ LaneType /\ LaneType'
        BY TypeNext DEF LaneSafe, LaneInv
  <2>2. PageInv' /\ Memory' /\ WayInv'
        BY <2>1, PageNext, MemoryNext, WayNext DEF LaneSafe
  <2>3. QED  BY <2>1, <2>2 DEF LaneSafe
<1>3. QED  BY <1>1, <1>2, PTL DEF Spec

\* Every variable keeps its type: no more rows are numbered than were posted, and no
\* ring or queue grows past its bound (publish, Client.offer, Handler.stream).
THEOREM TypeCorrect == Spec => []TypeOK
<1>1. LaneSafe => TypeOK
  <2> SUFFICES ASSUME LaneSafe PROVE TypeOK
      OBVIOUS
  <2>1. LaneType /\ Memory /\ seq \in 0 .. rows
        BY SeqInRows DEF LaneSafe, LaneInv
  <2>2. QED  BY <2>1 DEF LaneType, ServerTypes, PostTypes, StreamTypes, Memory, TypeOK
<1>2. QED  BY <1>1, LaneIsSafe, PTL

\* A page never shows a record twice, however many posts, streams, restarts and
\* rows there are (shifter.js, onmessage and the hello event).
THEOREM RowsAreShownOnce == Spec => []NoRowTwice
<1>1. LaneSafe => NoRowTwice
      BY DEF LaneSafe, PageInv, UpTo, NoRowTwice
<1>2. QED  BY <1>1, LaneIsSafe, PTL

\* The server holds at most REPLAY_ROWS rows in its ring and in a viewer's backlog
\* and CLIENT_QUEUE_MAX in a viewer's queue (Client.offer, publish, stream).
THEOREM MemoryIsBounded == Spec => []Memory
<1>1. LaneSafe => Memory
      BY DEF LaneSafe
<1>2. QED  BY <1>1, LaneIsSafe, PTL

\* A page with nothing on its way shows every record of this boot from the first it
\* showed, or reports it missing, whatever the interleaving of posts, viewers, full
\* queues, reconnects and restarts (publish, Client.offer, Handler.stream, onmessage).
THEOREM DrainedPagesAreCurrent == Spec => []DrainedPageIsCurrent
<1>1. LaneSafe => DrainedPageIsCurrent
  <2> SUFFICES ASSUME LaneSafe, NEW k \in Stream, Drained(k), NEW id \in Elements(order)
               PROVE  \/ id \in Shown \/ <<boot, id>> \in page.missing
                      \/ Shown # {} /\ \A s \in Shown : id < s
                      \/ /\ id > page.seen
                         /\ id \in Overtaking \cup buried[k] \/ \E s \in slipped[k] : s >= id
      BY DEF DrainedPageIsCurrent
  <2>1. LaneType /\ PageInv /\ OnItsWay(k)
        BY DEF LaneSafe, LaneInv, WayInv, Drained
  <2>2. /\ page.boot = boot /\ backlog[k] = <<>> /\ queue[k] = <<>>
        /\ \A p \in Publisher : \A j \in Elements(post[p].jobs) : j.to # k
        BY <2>1 DEF PageInv, Drained
  <2>3. /\ SeenAfter = page.seen /\ page.seen \in Nat /\ id \in Id /\ id \in Nat /\ id >= 1
        /\ Elements(queue[k]) = {} /\ Elements(backlog[k]) = {}
        BY <2>1, <2>2, SeenNumber, Members, Numbers DEF SeenAfter
  <2>4. ~Making(k) /\ \A x : ~InJobs(k, x)
    <3>1. ASSUME NEW p \in Publisher, post[p].jobs # <<>> PROVE Offered(p).to # k
          BY <2>1, <2>2, <3>1, OfferedJob DEF LaneType
    <3>2. ASSUME NEW x, NEW p \in Publisher PROVE [to |-> k, id |-> x] \notin Elements(post[p].jobs)
          BY <2>2
    <3>3. QED  BY <3>1, <3>2 DEF Making, InJobs
  <2>5. CASE id <= page.seen
    <3>1. PICK f \in Id : /\ FirstShown(f)
                          /\ \A i \in f .. page.seen : i \in Shown \/ <<boot, i>> \in page.missing
          BY <2>1, <2>2, <2>3, <2>5 DEF PageInv, Gapless
    <3>2. f \in Nat /\ f \in Shown /\ \A s \in Shown : f <= s /\ s \in Nat
      <4>1. Shown \subseteq Id
            BY <2>1, ShownRows DEF LaneType, ServerTypes
      <4>2. QED  BY <3>1, <4>1, Numbers DEF FirstShown
    <3>3. CASE f <= id
      <4>1. id \in f .. page.seen
            BY <2>3, <2>5, <3>2, <3>3
      <4>2. QED  BY <3>1, <4>1
    <3>4. CASE id < f
      <4>1. \A s \in Shown : id < s
            BY <2>3, <3>2, <3>4
      <4>2. QED  BY <3>2, <4>1
    <3>5. QED  BY <2>3, <3>2, <3>3, <3>4
  <2>6. CASE id > page.seen
    <3>1. \A d \in Nat : d > page.seen => ~(d <= page.seen)
          BY <2>3
    <3>2. id \in Overtaking \/ id \in slipped[k] \/ id \in dropped[k]
          BY <2>1, <2>3, <2>4, <2>6, <3>1 DEF OnItsWay, Where
    <3>3. CASE id \in dropped[k]
      <4>1. Safe(k, id)
            BY <2>1, <3>3 DEF OnItsWay
      <4>2. id \in buried[k] \/ \E s \in slipped[k] : id <= s
            BY <2>3, <2>4, <2>6, <3>1, <4>1 DEF Safe
      <4>3. \A s \in slipped[k] : id <= s => s >= id
            BY <2>1, <2>3, SeenNumber
      <4>4. QED  BY <2>6, <4>2, <4>3
    <3>4. id \in slipped[k] => \E s \in slipped[k] : s >= id
          BY <2>3
    <3>5. QED  BY <2>6, <3>2, <3>3, <3>4
  <2>7. QED  BY <2>3, <2>5, <2>6
<1>2. QED  BY <1>1, LaneIsSafe, PTL
=============================================================================
