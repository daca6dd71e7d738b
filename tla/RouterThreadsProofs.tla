------------------------- MODULE RouterThreadsProofs -------------------------
(***************************************************************************)
(* For every set of operations that follow the discipline of the locks,    *)
(* and any number of them under way at once: no two threads race, none can *)
(* wait for another in a circle, no change of the links is missed.         *)
(*                                                                         *)
(* The argument has two halves.  The first is about one operation alone:   *)
(* an annotation says which locks are held before each of its steps, each  *)
(* step may be taken with these locks, and none are held at the end.  Such *)
(* annotations are put together as the operations are, from shared pieces. *)
(* The second is about all threads: each holds what the annotation of its  *)
(* operation says, so that what the locks exclude is excluded.             *)
(*                                                                         *)
(* The refresh of our update is the one operation that may return early.   *)
(* It looks whether it is due without any lock, and asks for no routes.    *)
(***************************************************************************)
EXTENDS RouterThreads, TLAPS

-----------------------------------------------------------------------------
(* One operation: what is held before each of its steps.                   *)

LockModes == Locks \X {"rd", "wr"}

Acts == {"use", "signal", "enqueue", "date", "trigger", "change", "swap", "clear",
         "compute"}

\* The steps an operation can have.
AnyStep ==
    {Rd(l) : l \in Locks} \cup {Wr(l) : l \in Locks} \cup {Un(S) : S \in SUBSET Locks}
    \cup {Do(act, r, w) : act \in Acts, r \in SUBSET Structures, w \in SUBSET Structures}

\* Those, and the one after which an operation may return.
AnyStepOrDue == AnyStep \cup {Due}

\* Lock k comes before lock l.
Below(k,
      l) == \E i, j \in DOMAIN LockOrder : LockOrder[i] = k /\ LockOrder[j] = l /\ i < j

Holds(S, l) == \E mode \in {"rd", "wr"} : <<l, mode>> \in S

\* The locks a structure is written under, and read under.  Addresses, masks and
\* activity of the interfaces are written by no operation that follows the
\* discipline; neighbours are written under two locks, read under one of them.
MayWrite(S, x) ==
    \/ x \in {"cache", "queue", "rtable", "lsuq"} /\ <<x, "wr">> \in S
    \/ x \in {"links", "updated"} /\ <<"routers", "wr">> \in S
    \/ x = "nbrs" /\ <<"iflist", "wr">> \in S /\ <<"routers", "wr">> \in S

MayRead(S, x) ==
    \/ x = "ifaces"
    \/ x \in {"cache", "queue", "rtable", "lsuq"} /\ Holds(S, x)
    \/ x \in {"links", "updated"} /\ Holds(S, "routers")
    \/ x = "nbrs" /\ (Holds(S, "iflist") \/ Holds(S, "routers"))

\* The locks held after a step, and what a step may do with the locks it has.
HeldAfter(S, s) ==
    CASE s.act = "lock" -> S \cup {<<s.lock, s.mode>>}
      [] s.act = "unlock" -> {h \in S : h[1] \notin s.locks}
      [] OTHER -> S

Allowed(S, s) ==
    /\ s.act = "lock" => \A h \in S : Below(h[1], s.lock)
    /\ \A x \in s.writes : MayWrite(S, x)
    /\ \A x \in s.reads : MayRead(S, x) \/ (s.act = "due" /\ x = "updated")
    /\ s.act = "due" => S = {}

\* h[i] is what is held after i steps of P, from S at first to T at last.
Annotates(h, S, P, T) ==
    /\ h \in [0 .. Len(P) -> SUBSET LockModes]
    /\ h[0] = S /\ h[Len(P)] = T
    /\ \A i \in 1 .. Len(P) : Allowed(h[i - 1], P[i]) /\ h[i] = HeldAfter(h[i - 1], P[i])

FitsIn(X, S, P, T) == P \in Seq(X) /\ Len(P) > 0 /\ \E h : Annotates(h, S, P, T)

Fits(S, P, T) == FitsIn(AnyStep, S, P, T)

\* Two pieces that fit together make one.
LEMMA FitsInConcat ==
    ASSUME NEW X, NEW S, NEW T, NEW U, NEW P, NEW Q, FitsIn(X, S, P, T), FitsIn(X, T, Q, U)
    PROVE  FitsIn(X, S, P \o Q, U)
<1>1. PICK g : Annotates(g, S, P, T)
  BY DEF FitsIn
<1>2. PICK h : Annotates(h, T, Q, U)
  BY DEF FitsIn
<1>3. P \in Seq(X) /\ Q \in Seq(X) /\ Len(P) > 0
  BY DEF FitsIn
<1> DEFINE n == Len(P)
           m == Len(Q)
           k == [i \in 0 .. n + m |-> IF i <= n THEN g[i] ELSE h[i - n]]
<1>4. n \in Nat /\ m \in Nat /\ n > 0 /\ Len(P \o Q) = n + m /\ P \o Q \in Seq(X)
  BY <1>3
<1>5. /\ \A i \in 1 .. n : (P \o Q)[i] = P[i]
      /\ \A i \in n + 1 .. n + m : (P \o Q)[i] = Q[i - n]
  BY <1>3
<1>6. /\ g \in [0 .. n -> SUBSET LockModes] /\ g[0] = S /\ g[n] = T
      /\ \A i \in 1 .. n : Allowed(g[i - 1], P[i]) /\ g[i] = HeldAfter(g[i - 1], P[i])
  BY <1>1 DEF Annotates
<1>7. /\ h \in [0 .. m -> SUBSET LockModes] /\ h[0] = T /\ h[m] = U
      /\ \A i \in 1 .. m : Allowed(h[i - 1], Q[i]) /\ h[i] = HeldAfter(h[i - 1], Q[i])
  BY <1>2 DEF Annotates
<1> HIDE DEF n, m
<1>8. k \in [0 .. n + m -> SUBSET LockModes] /\ k[0] = S /\ k[n + m] = U
  <2>1. ASSUME NEW i \in 0 .. n + m
        PROVE  (IF i <= n THEN g[i] ELSE h[i - n]) \in SUBSET LockModes
    <3>1. CASE i <= n
      <4>1. i \in 0 .. n
        BY <1>4, <3>1
      <4> QED
        BY <1>6, <3>1, <4>1
    <3>2. CASE ~(i <= n)
      <4>1. i - n \in 0 .. m
        BY <1>4, <3>2
      <4> QED
        BY <1>7, <3>2, <4>1
    <3> QED
      BY <3>1, <3>2
  <2>2. 0 \in 0 .. n + m /\ 0 <= n /\ n + m \in 0 .. n + m
    BY <1>4
  <2>3. k[n + m] = U
    <3>1. CASE m = 0
      BY <1>4, <1>6, <1>7, <2>2, <3>1
    <3>2. CASE m # 0
      <4>1. ASSUME NEW i \in 0 .. n + m, i = n + m
            PROVE  k[i] = h[m]
        <5>1. ~(i <= n) /\ i - n = m
          BY <1>4, <3>2, <4>1
        <5>2. k[i] = IF i <= n THEN g[i] ELSE h[i - n]
          OBVIOUS
        <5> QED
          BY <5>1, <5>2, Zenon
      <4> QED
        BY <1>7, <2>2, <4>1, Zenon
    <3> QED
      BY <3>1, <3>2
  <2> QED
    BY <1>6, <2>1, <2>2, <2>3
<1>9. ASSUME NEW i \in 1 .. n + m
      PROVE  Allowed(k[i - 1], (P \o Q)[i]) /\ k[i] = HeldAfter(k[i - 1], (P \o Q)[i])
  <2>1. CASE i <= n
    BY <1>4, <1>5, <1>6, <2>1
  <2>2. CASE i > n
    <3>1. i - n \in 1 .. m /\ i \in 0 .. n + m /\ i - 1 \in 0 .. n + m /\ ~(i <= n)
          /\ i \in n + 1 .. n + m
      BY <1>4, <2>2
    <3>2. k[i] = h[i - n]
      BY <3>1
    <3>3. k[i - 1] = h[i - n - 1]
      <4>1. CASE i = n + 1
        BY <1>4, <1>6, <1>7, <3>1, <4>1
      <4>2. CASE i # n + 1
        <5>1. ~(i - 1 <= n) /\ i - 1 - n = i - n - 1
          BY <1>4, <3>1, <4>2
        <5> QED
          BY <3>1, <5>1
      <4> QED
        BY <4>1, <4>2
    <3> HIDE DEF k
    <3> QED
      BY <1>5, <1>7, <3>1, <3>2, <3>3
  <2> QED
    BY <1>4, <2>1, <2>2
<1>10. Annotates(k, S, P \o Q, U)
  BY <1>4, <1>8, <1>9 DEF Annotates
<1> QED
  BY <1>4, <1>10 DEF FitsIn

LEMMA FitsConcat ==
    ASSUME NEW S, NEW T, NEW U, NEW P, NEW Q, Fits(S, P, T), Fits(T, Q, U)
    PROVE  Fits(S, P \o Q, U)
BY FitsInConcat DEF Fits

\* One step is a piece; one is added.
LEMMA FitsStep ==
    ASSUME NEW S \in SUBSET LockModes, NEW s \in AnyStep, Allowed(S, s),
           HeldAfter(S, s) \in SUBSET LockModes
    PROVE  Fits(S, <<s>>, HeldAfter(S, s))
<1> DEFINE h == [i \in 0 .. 1 |-> IF i = 0 THEN S ELSE HeldAfter(S, s)]
<1>1. <<s>> \in Seq(AnyStep) /\ Len(<<s>>) = 1 /\ <<s>>[1] = s
  OBVIOUS
<1>2. Annotates(h, S, <<s>>, HeldAfter(S, s))
  BY <1>1 DEF Annotates
<1> QED
  BY <1>1, <1>2 DEF Fits, FitsIn

LEMMA FitsTuple ==
    ASSUME NEW S, NEW T, NEW U, NEW P, NEW s, Fits(S, P, T), Fits(T, <<s>>, U)
    PROVE  Fits(S, Append(P, s), U)
<1>1. P \in Seq(AnyStep) /\ <<s>> \in Seq(AnyStep)
  BY DEF Fits, FitsIn
<1>2. s \in AnyStep
  BY <1>1
<1>3. Append(P, s) = P \o <<s>>
  BY <1>1, <1>2
<1> QED
  BY <1>3, FitsConcat

\* After each step that changes the links or clears the flag that asks for
\* routes, a later one sets the flag or computes the routes.
Notices(P) ==
    \A i \in DOMAIN P : P[i].act \in {"change", "clear"} =>
        \E j \in DOMAIN P : j > i /\ P[j].act \in {"trigger", "compute"}

Good(S, P, T) == Fits(S, P, T) /\ Notices(P)

\* The flag and the routes are left alone; so they are when it may return early.
AskFree(P) ==
    \A i \in DOMAIN P : P[i].act \notin {"change", "clear", "trigger", "compute"}

Quits(P) == (\E i \in DOMAIN P : P[i].act = "due") => AskFree(P)

\* A whole operation.
Sound(P) == FitsIn(AnyStepOrDue, {}, P, {}) /\ Notices(P) /\ Quits(P)

LEMMA GoodSound == ASSUME NEW P, Good({}, P, {}) PROVE Sound(P)
<1>1. P \in Seq(AnyStep) /\ Len(P) > 0 /\ \E h : Annotates(h, {}, P, {})
  BY DEF Good, Fits, FitsIn
<1>2. P \in Seq(AnyStepOrDue)
  BY <1>1 DEF AnyStepOrDue
<1>3. \A s \in AnyStep : s.act # "due"
  BY DEF AnyStep, Rd, Wr, Un, Do, Acts
<1>4. Quits(P)
  BY <1>1, <1>3 DEF Quits
<1> QED
  BY <1>1, <1>2, <1>4 DEF Sound, FitsIn, Good

LEMMA AskFreeConcat ==
    ASSUME NEW X, NEW P \in Seq(X), NEW Q \in Seq(X), AskFree(P), AskFree(Q)
    PROVE  P \o Q \in Seq(X) /\ AskFree(P \o Q)
<1>1. /\ DOMAIN (P \o Q) = 1 .. Len(P) + Len(Q)
      /\ DOMAIN P = 1 .. Len(P) /\ DOMAIN Q = 1 .. Len(Q)
      /\ Len(P) \in Nat /\ Len(Q) \in Nat
      /\ \A i \in 1 .. Len(P) : (P \o Q)[i] = P[i]
      /\ \A i \in Len(P) + 1 .. Len(P) + Len(Q) : (P \o Q)[i] = Q[i - Len(P)]
  OBVIOUS
<1>2. ASSUME NEW i \in DOMAIN (P \o Q)
      PROVE  (P \o Q)[i].act \notin {"change", "clear", "trigger", "compute"}
  <2>1. CASE i <= Len(P)
    <3>1. i \in DOMAIN P /\ (P \o Q)[i] = P[i]
      BY <1>1, <2>1
    <3> QED
      BY <3>1 DEF AskFree
  <2>2. CASE ~(i <= Len(P))
    <3>1. i - Len(P) \in DOMAIN Q /\ (P \o Q)[i] = Q[i - Len(P)]
      BY <1>1, <2>2
    <3> QED
      BY <3>1 DEF AskFree
  <2> QED
    BY <2>1, <2>2
<1> QED
  BY <1>2 DEF AskFree

\* Two pieces keep this, and the second alone is enough if it asks for routes.
LEMMA NoticesConcat ==
    ASSUME NEW P \in Seq(AnyStep), NEW Q \in Seq(AnyStep), Notices(Q),
           Notices(P) \/ \E j \in DOMAIN Q : Q[j].act \in {"trigger", "compute"}
    PROVE  Notices(P \o Q)
<1> DEFINE R == P \o Q
           Told(s) == s.act \in {"trigger", "compute"}
           Asks(s) == s.act \in {"change", "clear"}
<1>1. /\ Len(P) \in Nat /\ Len(Q) \in Nat /\ Len(R) = Len(P) + Len(Q)
      /\ DOMAIN P = 1 .. Len(P) /\ DOMAIN Q = 1 .. Len(Q) /\ DOMAIN R = 1 .. Len(P) + Len(Q)
      /\ \A i \in 1 .. Len(P) : R[i] = P[i]
      /\ \A i \in 1 .. Len(Q) : R[Len(P) + i] = Q[i]
  OBVIOUS
<1>2. /\ \A i \in DOMAIN Q : Asks(Q[i]) => \E j \in DOMAIN Q : j > i /\ Told(Q[j])
      /\ \/ \A i \in DOMAIN P : Asks(P[i]) => \E j \in DOMAIN P : j > i /\ Told(P[j])
         \/ \E j \in DOMAIN Q : Told(Q[j])
  BY DEF Notices
<1> HIDE DEF R, Told, Asks
<1>3. ASSUME NEW i \in DOMAIN R, Asks(R[i])
      PROVE  \E j \in DOMAIN R : j > i /\ Told(R[j])
  <2>1. CASE i <= Len(P) /\ \E j \in DOMAIN Q : Told(Q[j])
    <3>1. PICK j \in DOMAIN Q : Told(Q[j])
      BY <2>1
    <3>2. Len(P) + j \in DOMAIN R /\ Len(P) + j > i /\ R[Len(P) + j] = Q[j]
      BY <1>1, <1>3, <2>1
    <3> QED
      BY <3>1, <3>2
  <2>2. CASE i <= Len(P) /\ ~\E j \in DOMAIN Q : Told(Q[j])
    <3>1. i \in DOMAIN P /\ R[i] = P[i]
      BY <1>1, <1>3, <2>2
    <3>2. PICK j \in DOMAIN P : j > i /\ Told(P[j])
      BY <1>2, <1>3, <2>2, <3>1
    <3>3. j \in DOMAIN R /\ R[j] = P[j]
      BY <1>1
    <3> QED
      BY <3>2, <3>3
  <2>3. CASE i > Len(P)
    <3>1. i - Len(P) \in DOMAIN Q /\ R[i] = Q[i - Len(P)]
      BY <1>1, <1>3, <2>3
    <3>2. PICK j \in DOMAIN Q : j > i - Len(P) /\ Told(Q[j])
      BY <1>2, <1>3, <3>1
    <3>3. Len(P) + j \in DOMAIN R /\ Len(P) + j > i /\ R[Len(P) + j] = Q[j]
      BY <1>1, <1>3, <3>2
    <3> QED
      BY <3>2, <3>3
  <2> QED
    BY <1>1, <1>3, <2>1, <2>2, <2>3
<1> QED
  BY <1>3 DEF Notices, R, Told, Asks

\* Pieces that fit and notice, put together.
LEMMA GoodConcat ==
    ASSUME NEW S, NEW T, NEW U, NEW P, NEW Q, Good(S, P, T), Good(T, Q, U)
    PROVE  Good(S, P \o Q, U)
BY FitsConcat, NoticesConcat DEF Good, Fits, FitsIn

LEMMA GoodTold ==
    ASSUME NEW S, NEW T, NEW U, NEW P, NEW Q, Fits(S, P, T), Good(T, Q, U),
           \E j \in DOMAIN Q : Q[j].act \in {"trigger", "compute"}
    PROVE  Good(S, P \o Q, U)
BY FitsConcat, NoticesConcat DEF Good, Fits, FitsIn

LEMMA GoodTuple ==
    ASSUME NEW S, NEW T, NEW U, NEW P, NEW s, Good(S, P, T), Good(T, <<s>>, U)
    PROVE  Good(S, Append(P, s), U)
<1>1. P \in Seq(AnyStep) /\ <<s>> \in Seq(AnyStep)
  BY DEF Good, Fits, FitsIn
<1>2. s \in AnyStep
  BY <1>1
<1>3. Append(P, s) = P \o <<s>>
  BY <1>1, <1>2
<1> QED
  BY <1>3, GoodConcat

LEMMA StepOf == ASSUME NEW S, NEW T, NEW s, Fits(S, <<s>>, T) PROVE s \in AnyStep
<1>1. <<s>> \in Seq(AnyStep)
  BY DEF Fits, FitsIn
<1> QED
  BY <1>1

\* Short lists of steps, from their steps.
LEMMA FitsTwo ==
    ASSUME NEW S0, NEW S1, NEW S2,
           NEW a, NEW b,
           Fits(S0, <<a>>, S1), Fits(S1, <<b>>, S2)
    PROVE  Fits(S0, <<a, b>>, S2)
<1>1. Fits(S0, <<a>>, S1)
  OBVIOUS
<1>2. {a, b} \subseteq AnyStep
  BY StepOf
<1>3. <<a, b>> = Append(<<a>>, b)
  BY <1>2
<1> QED
  BY <1>1, <1>3, FitsTuple

LEMMA FitsThree ==
    ASSUME NEW S0, NEW S1, NEW S2, NEW S3,
           NEW a, NEW b, NEW c,
           Fits(S0, <<a>>, S1), Fits(S1, <<b>>, S2), Fits(S2, <<c>>, S3)
    PROVE  Fits(S0, <<a, b, c>>, S3)
<1>1. Fits(S0, <<a, b>>, S2)
  BY FitsTwo
<1>2. {a, b, c} \subseteq AnyStep
  BY StepOf
<1>3. <<a, b, c>> = Append(<<a, b>>, c)
  BY <1>2
<1> QED
  BY <1>1, <1>3, FitsTuple

LEMMA FitsFour ==
    ASSUME NEW S0, NEW S1, NEW S2, NEW S3, NEW S4,
           NEW a, NEW b, NEW c, NEW d,
           Fits(S0, <<a>>, S1), Fits(S1, <<b>>, S2), Fits(S2, <<c>>, S3),
           Fits(S3, <<d>>, S4)
    PROVE  Fits(S0, <<a, b, c, d>>, S4)
<1>1. Fits(S0, <<a, b, c>>, S3)
  BY FitsThree
<1>2. {a, b, c, d} \subseteq AnyStep
  BY StepOf
<1>3. <<a, b, c, d>> = Append(<<a, b, c>>, d)
  BY <1>2
<1> QED
  BY <1>1, <1>3, FitsTuple

LEMMA FitsFive ==
    ASSUME NEW S0, NEW S1, NEW S2, NEW S3, NEW S4, NEW S5,
           NEW a, NEW b, NEW c, NEW d, NEW e,
           Fits(S0, <<a>>, S1), Fits(S1, <<b>>, S2), Fits(S2, <<c>>, S3),
           Fits(S3, <<d>>, S4), Fits(S4, <<e>>, S5)
    PROVE  Fits(S0, <<a, b, c, d, e>>, S5)
<1>1. Fits(S0, <<a, b, c, d>>, S4)
  BY FitsFour
<1>2. {a, b, c, d, e} \subseteq AnyStep
  BY StepOf
<1>3. <<a, b, c, d, e>> = Append(<<a, b, c, d>>, e)
  BY <1>2
<1> QED
  BY <1>1, <1>3, FitsTuple

LEMMA FitsSix ==
    ASSUME NEW S0, NEW S1, NEW S2, NEW S3, NEW S4, NEW S5, NEW S6,
           NEW a, NEW b, NEW c, NEW d, NEW e, NEW f,
           Fits(S0, <<a>>, S1), Fits(S1, <<b>>, S2), Fits(S2, <<c>>, S3),
           Fits(S3, <<d>>, S4), Fits(S4, <<e>>, S5), Fits(S5, <<f>>, S6)
    PROVE  Fits(S0, <<a, b, c, d, e, f>>, S6)
<1>1. Fits(S0, <<a, b, c, d, e>>, S5)
  BY FitsFive
<1>2. {a, b, c, d, e, f} \subseteq AnyStep
  BY StepOf
<1>3. <<a, b, c, d, e, f>> = Append(<<a, b, c, d, e>>, f)
  BY <1>2
<1> QED
  BY <1>1, <1>3, FitsTuple

LEMMA GoodTwo ==
    ASSUME NEW S0, NEW S1, NEW S2,
           NEW a, NEW b,
           Good(S0, <<a>>, S1), Good(S1, <<b>>, S2)
    PROVE  Good(S0, <<a, b>>, S2)
<1>1. Good(S0, <<a>>, S1)
  OBVIOUS
<1>2. {a, b} \subseteq AnyStep
  BY StepOf DEF Good
<1>3. <<a, b>> = Append(<<a>>, b)
  BY <1>2
<1> QED
  BY <1>1, <1>3, GoodTuple

LEMMA GoodThree ==
    ASSUME NEW S0, NEW S1, NEW S2, NEW S3,
           NEW a, NEW b, NEW c,
           Good(S0, <<a>>, S1), Good(S1, <<b>>, S2), Good(S2, <<c>>, S3)
    PROVE  Good(S0, <<a, b, c>>, S3)
<1>1. Good(S0, <<a, b>>, S2)
  BY GoodTwo
<1>2. {a, b, c} \subseteq AnyStep
  BY StepOf DEF Good
<1>3. <<a, b, c>> = Append(<<a, b>>, c)
  BY <1>2
<1> QED
  BY <1>1, <1>3, GoodTuple

LEMMA GoodFour ==
    ASSUME NEW S0, NEW S1, NEW S2, NEW S3, NEW S4,
           NEW a, NEW b, NEW c, NEW d,
           Good(S0, <<a>>, S1), Good(S1, <<b>>, S2), Good(S2, <<c>>, S3),
           Good(S3, <<d>>, S4)
    PROVE  Good(S0, <<a, b, c, d>>, S4)
<1>1. Good(S0, <<a, b, c>>, S3)
  BY GoodThree
<1>2. {a, b, c, d} \subseteq AnyStep
  BY StepOf DEF Good
<1>3. <<a, b, c, d>> = Append(<<a, b, c>>, d)
  BY <1>2
<1> QED
  BY <1>1, <1>3, GoodTuple

LEMMA GoodFive ==
    ASSUME NEW S0, NEW S1, NEW S2, NEW S3, NEW S4, NEW S5,
           NEW a, NEW b, NEW c, NEW d, NEW e,
           Good(S0, <<a>>, S1), Good(S1, <<b>>, S2), Good(S2, <<c>>, S3),
           Good(S3, <<d>>, S4), Good(S4, <<e>>, S5)
    PROVE  Good(S0, <<a, b, c, d, e>>, S5)
<1>1. Good(S0, <<a, b, c, d>>, S4)
  BY GoodFour
<1>2. {a, b, c, d, e} \subseteq AnyStep
  BY StepOf DEF Good
<1>3. <<a, b, c, d, e>> = Append(<<a, b, c, d>>, e)
  BY <1>2
<1> QED
  BY <1>1, <1>3, GoodTuple

LEMMA GoodSix ==
    ASSUME NEW S0, NEW S1, NEW S2, NEW S3, NEW S4, NEW S5, NEW S6,
           NEW a, NEW b, NEW c, NEW d, NEW e, NEW f,
           Good(S0, <<a>>, S1), Good(S1, <<b>>, S2), Good(S2, <<c>>, S3),
           Good(S3, <<d>>, S4), Good(S4, <<e>>, S5), Good(S5, <<f>>, S6)
    PROVE  Good(S0, <<a, b, c, d, e, f>>, S6)
<1>1. Good(S0, <<a, b, c, d, e>>, S5)
  BY GoodFive
<1>2. {a, b, c, d, e, f} \subseteq AnyStep
  BY StepOf DEF Good
<1>3. <<a, b, c, d, e, f>> = Append(<<a, b, c, d, e>>, f)
  BY <1>2
<1> QED
  BY <1>1, <1>3, GoodTuple

LEMMA GoodSeven ==
    ASSUME NEW S0, NEW S1, NEW S2, NEW S3, NEW S4, NEW S5, NEW S6, NEW S7,
           NEW a, NEW b, NEW c, NEW d, NEW e, NEW f, NEW g,
           Good(S0, <<a>>, S1), Good(S1, <<b>>, S2), Good(S2, <<c>>, S3),
           Good(S3, <<d>>, S4), Good(S4, <<e>>, S5), Good(S5, <<f>>, S6),
           Good(S6, <<g>>, S7)
    PROVE  Good(S0, <<a, b, c, d, e, f, g>>, S7)
<1>1. Good(S0, <<a, b, c, d, e, f>>, S6)
  BY GoodSix
<1>2. {a, b, c, d, e, f, g} \subseteq AnyStep
  BY StepOf DEF Good
<1>3. <<a, b, c, d, e, f, g>> = Append(<<a, b, c, d, e, f>>, g)
  BY <1>2
<1> QED
  BY <1>1, <1>3, GoodTuple

\* A step that does not ask for the routes to be computed.
LEMMA NoticesStep ==
    ASSUME NEW s, s.act \notin {"change", "clear"}
    PROVE  Notices(<<s>>)
BY DEF Notices

\* Steps that take a lock, give locks back, and use what the locks allow.
LEMMA GoodRd ==
    ASSUME NEW S \in SUBSET LockModes, NEW l \in Locks, \A h \in S : Below(h[1], l),
           NEW T, T = S \cup {<<l, "rd">>}
    PROVE  Good(S, <<Rd(l)>>, T)
<1> DEFINE s == Rd(l)
<1>1. s.act = "lock" /\ s.lock = l /\ s.mode = "rd" /\ s.reads = {} /\ s.writes = {}
  BY DEF Rd
<1>2. s \in AnyStep
  BY DEF AnyStep
<1> HIDE DEF s
<1>3. Allowed(S, s)
  BY <1>1 DEF Allowed
<1>4. HeldAfter(S, s) = T /\ T \in SUBSET LockModes
  BY <1>1 DEF HeldAfter, LockModes
<1>5. Fits(S, <<s>>, T) /\ Notices(<<s>>)
  BY <1>1, <1>2, <1>3, <1>4, FitsStep, NoticesStep
<1> QED
  BY <1>5 DEF s, Good

LEMMA GoodWr ==
    ASSUME NEW S \in SUBSET LockModes, NEW l \in Locks, \A h \in S : Below(h[1], l),
           NEW T, T = S \cup {<<l, "wr">>}
    PROVE  Good(S, <<Wr(l)>>, T)
<1> DEFINE s == Wr(l)
<1>1. s.act = "lock" /\ s.lock = l /\ s.mode = "wr" /\ s.reads = {} /\ s.writes = {}
  BY DEF Wr
<1>2. s \in AnyStep
  BY DEF AnyStep
<1> HIDE DEF s
<1>3. Allowed(S, s)
  BY <1>1 DEF Allowed
<1>4. HeldAfter(S, s) = T /\ T \in SUBSET LockModes
  BY <1>1 DEF HeldAfter, LockModes
<1>5. Fits(S, <<s>>, T) /\ Notices(<<s>>)
  BY <1>1, <1>2, <1>3, <1>4, FitsStep, NoticesStep
<1> QED
  BY <1>5 DEF s, Good

LEMMA GoodUn ==
    ASSUME NEW S \in SUBSET LockModes, NEW L \in SUBSET Locks,
           NEW T, T = {h \in S : h[1] \notin L}
    PROVE  Good(S, <<Un(L)>>, T)
<1> DEFINE s == Un(L)
<1>1. s.act = "unlock" /\ s.locks = L /\ s.reads = {} /\ s.writes = {}
  BY DEF Un
<1>2. s \in AnyStep
  BY DEF AnyStep
<1> HIDE DEF s
<1>3. Allowed(S, s)
  BY <1>1 DEF Allowed
<1>4. HeldAfter(S, s) = T /\ T \in SUBSET LockModes
  BY <1>1 DEF HeldAfter
<1>5. Fits(S, <<s>>, T) /\ Notices(<<s>>)
  BY <1>1, <1>2, <1>3, <1>4, FitsStep, NoticesStep
<1> QED
  BY <1>5 DEF s, Good

LEMMA FitsDo ==
    ASSUME NEW S \in SUBSET LockModes, NEW act \in Acts,
           NEW r \in SUBSET Structures, NEW w \in SUBSET Structures,
           \A x \in w : MayWrite(S, x), \A x \in r : MayRead(S, x)
    PROVE  Fits(S, <<Do(act, r, w)>>, S)
<1> DEFINE s == Do(act, r, w)
<1>1. /\ s.act = act /\ s.reads = r /\ s.writes = w
      /\ act # "lock" /\ act # "unlock" /\ act # "due"
  BY DEF Do, Acts
<1>2. s \in AnyStep
  BY DEF AnyStep
<1> HIDE DEF s
<1>3. Allowed(S, s)
  BY <1>1 DEF Allowed
<1>4. HeldAfter(S, s) = S
  BY <1>1 DEF HeldAfter
<1>5. Fits(S, <<s>>, S)
  BY <1>2, <1>3, <1>4, FitsStep
<1> QED
  BY <1>5 DEF s

LEMMA GoodDo ==
    ASSUME NEW S \in SUBSET LockModes, NEW act \in Acts \ {"change", "clear"},
           NEW r \in SUBSET Structures, NEW w \in SUBSET Structures,
           \A x \in w : MayWrite(S, x), \A x \in r : MayRead(S, x)
    PROVE  Good(S, <<Do(act, r, w)>>, S)
<1>1. Do(act, r, w).act = act
  BY DEF Do
<1>2. Notices(<<Do(act, r, w)>>)
  BY <1>1, NoticesStep
<1> QED
  BY <1>2, FitsDo DEF Good

\* The order of the locks.
LEMMA Order ==
    /\ \A l \in {"queue", "iflist", "rtable", "routers", "lsuq"} : Below("cache", l)
    /\ \A l \in {"iflist", "rtable", "routers", "lsuq"} : Below("queue", l)
    /\ \A l \in {"rtable", "routers", "lsuq"} : Below("iflist", l)
    /\ \A l \in {"routers", "lsuq"} : Below("rtable", l)
    /\ Below("routers", "lsuq")
<1>1. /\ LockOrder[1] = "cache" /\ LockOrder[2] = "queue" /\ LockOrder[3] = "iflist"
      /\ LockOrder[4] = "rtable" /\ LockOrder[5] = "routers" /\ LockOrder[6] = "lsuq"
      /\ DOMAIN LockOrder = 1 .. 6
  BY DEF LockOrder
<1>2. \A i, j \in 1 .. 6 : i < j => Below(LockOrder[i], LockOrder[j])
  BY <1>1 DEF Below
<1> QED
  BY <1>1, <1>2

\* A lock is not below itself.
LEMMA OrderStrict == \A l \in Locks : ~Below(l, l)
<1>1. /\ LockOrder[1] = "cache" /\ LockOrder[2] = "queue" /\ LockOrder[3] = "iflist"
      /\ LockOrder[4] = "rtable" /\ LockOrder[5] = "routers" /\ LockOrder[6] = "lsuq"
      /\ DOMAIN LockOrder = 1 .. 6
  BY DEF LockOrder
<1> QED
  BY <1>1 DEF Below, Locks

-----------------------------------------------------------------------------
(* The operations, piece by piece.                                         *)

\* The locks under which a packet is sent, and under which neighbours are written.
PathHeld == {<<"cache", "rd">>, <<"queue", "wr">>, <<"iflist", "rd">>, <<"rtable", "rd">>}
HelloHeld == {<<"cache", "rd">>, <<"queue", "wr">>, <<"iflist", "wr">>,
              <<"rtable", "rd">>, <<"routers", "wr">>}

\* The locks of the path of a packet are taken in their order.
LEMMA GoodPath ==
    Good({}, PathLocks, PathHeld)
<1>1. Good({}, <<Rd("cache")>>, {<<"cache", "rd">>})
  BY GoodRd DEF Locks, LockModes
<1>2. Good({<<"cache", "rd">>}, <<Wr("queue")>>, {<<"cache", "rd">>, <<"queue", "wr">>})
  <2>1. \A h \in {<<"cache", "rd">>} : Below(h[1], "queue")
    BY Order
  <2>2. {<<"cache", "rd">>, <<"queue", "wr">>}
       = {<<"cache", "rd">>} \cup {<<"queue", "wr">>}
    OBVIOUS
  <2>3. {<<"cache", "rd">>} \in SUBSET LockModes /\ "queue" \in Locks
    BY DEF LockModes, Locks
  <2> QED
    BY <2>1, <2>2, <2>3, GoodWr, Zenon
<1>3. Good({<<"cache", "rd">>, <<"queue", "wr">>}, <<Rd("iflist")>>,
           {<<"cache", "rd">>, <<"queue", "wr">>, <<"iflist", "rd">>})
  <2>1. \A h \in {<<"cache", "rd">>, <<"queue", "wr">>} : Below(h[1], "iflist")
    BY Order
  <2>2. {<<"cache", "rd">>, <<"queue", "wr">>, <<"iflist", "rd">>}
       = {<<"cache", "rd">>, <<"queue", "wr">>} \cup {<<"iflist", "rd">>}
    OBVIOUS
  <2>3. {<<"cache", "rd">>, <<"queue", "wr">>} \in SUBSET LockModes /\ "iflist" \in Locks
    BY DEF LockModes, Locks
  <2> QED
    BY <2>1, <2>2, <2>3, GoodRd, Zenon
<1>4. Good({<<"cache", "rd">>, <<"queue", "wr">>, <<"iflist", "rd">>}, <<Rd("rtable")>>,
           {<<"cache", "rd">>, <<"queue", "wr">>, <<"iflist", "rd">>, <<"rtable", "rd">>})
  <2>1. \A h \in {<<"cache", "rd">>, <<"queue", "wr">>, <<"iflist", "rd">>} :
          Below(h[1], "rtable")
    BY Order
  <2>2. {<<"cache", "rd">>, <<"queue", "wr">>, <<"iflist", "rd">>, <<"rtable", "rd">>}
       = {<<"cache", "rd">>, <<"queue", "wr">>,
          <<"iflist", "rd">>} \cup {<<"rtable", "rd">>}
    OBVIOUS
  <2>3. {<<"cache", "rd">>, <<"queue", "wr">>,
         <<"iflist", "rd">>} \in SUBSET LockModes /\ "rtable" \in Locks
    BY DEF LockModes, Locks
  <2> QED
    BY <2>1, <2>2, <2>3, GoodRd, Zenon
<1> QED
  BY <1>1, <1>2, <1>3, <1>4, GoodFour DEF PathLocks, PathHeld

\* They are given back together, in whatever mode they are held.
LEMMA GoodPathUnlock ==
    ASSUME NEW S \in SUBSET LockModes,
           \A h \in S : h[1] \in {"cache", "queue", "iflist", "rtable"}
    PROVE  Good(S, PathUnlock, {})
<1>1. {h \in S : h[1] \notin {"cache", "queue", "iflist", "rtable"}} = {}
  OBVIOUS
<1> QED
  BY <1>1, GoodUn DEF PathUnlock, Locks

\* A packet is sent under them.
LEMMA GoodSend == Good(PathHeld, send_ip, PathHeld)
<1>1. PathHeld \in SUBSET LockModes
  BY DEF PathHeld, LockModes, Locks
<1>2. /\ \A x \in {"queue"} : MayWrite(PathHeld, x)
      /\ \A x \in {"ifaces", "rtable", "cache"} : MayRead(PathHeld, x)
  BY DEF PathHeld, MayWrite, MayRead, Holds
<1> QED
  BY <1>1, <1>2, GoodDo DEF send_ip, Use, Acts, Structures

LEMMA GoodPathSend == Good({}, PathLocks \o send_ip \o PathUnlock, {})
<1>1. Good(PathHeld, PathUnlock, {})
  BY GoodPathUnlock DEF PathHeld, LockModes, Locks
<1> QED
  BY <1>1, GoodPath, GoodSend, GoodConcat

LEMMA GoodForward == Good({}, process_ip_packet, {}) /\ Good({}, send_ip_packet, {})
BY GoodPathSend DEF process_ip_packet, send_ip_packet

\* Updates are queued and built under the mutex of the router list.
Flooding(S) ==
    /\ S \in SUBSET LockModes /\ <<"routers", "wr">> \in S
    /\ \A h \in S : Below(h[1], "lsuq")

LEMMA GoodBroadcast == ASSUME NEW S, Flooding(S) PROVE Good(S,
                                                            broadcast_pwospf_lsu_packet, S)
<1> DEFINE T == S \cup {<<"lsuq", "wr">>}
<1>1. Good(S, <<Use({"ifaces", "nbrs"}, {})>>, S)
  BY GoodDo DEF Flooding, Use, Acts, Structures, MayRead, Holds
<1>2. Good(S, <<Wr("lsuq")>>, T)
  BY GoodWr DEF Flooding, Locks
<1>3. T \in SUBSET LockModes
  BY DEF Flooding, LockModes, Locks
<1>4. Good(T, <<Do("enqueue", {}, {"lsuq"})>>, T)
  BY <1>3, GoodDo DEF Acts, Structures, MayWrite
<1>5. S = {h \in T : h[1] \notin {"lsuq"}}
  BY OrderStrict DEF Flooding, Locks
<1>6. Good(T, <<Un({"lsuq"})>>, S)
  BY <1>3, <1>5, GoodUn DEF Locks
<1> QED
  BY <1>1, <1>2, <1>4, <1>6, GoodFour DEF broadcast_pwospf_lsu_packet

LEMMA GoodFlood == ASSUME NEW S, Flooding(S) PROVE Good(S, start_lsu_bcast_flood, S)
<1>1. /\ Good(S, <<Do("date", {"links"}, {"links", "updated"})>>, S)
      /\ Good(S, <<Do("date", {"links"}, {"updated"})>>, S)
  BY GoodDo DEF Flooding, Acts, Structures, MayWrite, MayRead, Holds
<1> QED
  BY <1>1, GoodBroadcast, GoodConcat DEF start_lsu_bcast_flood

LEMMA GoodPropagate ==
    ASSUME NEW S, Flooding(S)
    PROVE  /\ Good(S, propagate_pwospf_changes, S)
           /\ \E j \in DOMAIN propagate_pwospf_changes :
                 propagate_pwospf_changes[j].act \in {"trigger", "compute"}
<1> DEFINE told == <<Do("trigger", {}, {})>>
<1>1. Good(S, told, S)
  BY GoodDo DEF Flooding, Acts, Structures
<1>2. Good(S, propagate_pwospf_changes, S)
  BY <1>1, GoodFlood, GoodConcat DEF propagate_pwospf_changes
<1>3. told \in Seq(AnyStep) /\ start_lsu_bcast_flood \in Seq(AnyStep)
  BY <1>1, GoodFlood DEF Good, Fits, FitsIn
<1>4. Len(told) = 1 /\ told[1] = Do("trigger", {}, {})
  OBVIOUS
<1>5. 1 \in DOMAIN propagate_pwospf_changes /\ propagate_pwospf_changes[1] = told[1]
  BY <1>3, <1>4 DEF propagate_pwospf_changes
<1> QED
  BY <1>2, <1>4, <1>5 DEF Do

\* A HELLO enters the path of a packet, leaves it and enters it again.
LEMMA GoodHello ==
    ASSUME NEW steps, NEW T \in SUBSET LockModes, Good(HelloHeld, steps, T),
           \A h \in T : h[1] \in {"cache", "queue", "iflist", "rtable"}
    PROVE  Good({}, HelloSection(steps), {})
<1>1. Good({<<"cache", "rd">>, <<"queue", "wr">>, <<"iflist", "rd">>, <<"rtable", "rd">>},
           <<Un({"rtable", "iflist"}), Wr("iflist"), Rd("rtable"), Wr("routers")>>,
           {<<"cache", "rd">>, <<"queue", "wr">>, <<"iflist", "wr">>, <<"rtable", "rd">>,
            <<"routers", "wr">>})
<2>1. Good({<<"cache", "rd">>, <<"queue", "wr">>, <<"iflist", "rd">>, <<"rtable", "rd">>},
           <<Un({"rtable", "iflist"})>>,
           {<<"cache", "rd">>, <<"queue", "wr">>})
    <3>1. {<<"cache", "rd">>, <<"queue", "wr">>}
         = {h \in {<<"cache", "rd">>, <<"queue", "wr">>, <<"iflist", "rd">>,
                   <<"rtable", "rd">>} : h[1] \notin {"rtable", "iflist"}}
      OBVIOUS
    <3> QED
      BY <3>1, GoodUn DEF Locks, LockModes
<2>2. Good({<<"cache", "rd">>, <<"queue", "wr">>}, <<Wr("iflist")>>,
           {<<"cache", "rd">>, <<"queue", "wr">>, <<"iflist", "wr">>})
    <3>1. \A h \in {<<"cache", "rd">>, <<"queue", "wr">>} : Below(h[1], "iflist")
      BY Order
    <3>2. {<<"cache", "rd">>, <<"queue", "wr">>, <<"iflist", "wr">>}
         = {<<"cache", "rd">>, <<"queue", "wr">>} \cup {<<"iflist", "wr">>}
      OBVIOUS
    <3>3. {<<"cache", "rd">>, <<"queue",
                                "wr">>} \in SUBSET LockModes /\ "iflist" \in Locks
      BY DEF LockModes, Locks
    <3> QED
      BY <3>1, <3>2, <3>3, GoodWr, Zenon
<2>3. Good({<<"cache", "rd">>, <<"queue", "wr">>, <<"iflist", "wr">>}, <<Rd("rtable")>>,
           {<<"cache", "rd">>, <<"queue", "wr">>, <<"iflist", "wr">>, <<"rtable", "rd">>})
    <3>1. \A h \in {<<"cache", "rd">>, <<"queue", "wr">>,
                    <<"iflist", "wr">>} : Below(h[1], "rtable")
      BY Order
    <3>2. {<<"cache", "rd">>, <<"queue", "wr">>, <<"iflist", "wr">>, <<"rtable", "rd">>}
         = {<<"cache", "rd">>, <<"queue", "wr">>,
            <<"iflist", "wr">>} \cup {<<"rtable", "rd">>}
      OBVIOUS
    <3>3. {<<"cache", "rd">>, <<"queue", "wr">>,
           <<"iflist", "wr">>} \in SUBSET LockModes /\ "rtable" \in Locks
      BY DEF LockModes, Locks
    <3> QED
      BY <3>1, <3>2, <3>3, GoodRd, Zenon
<2>4. Good({<<"cache", "rd">>, <<"queue", "wr">>, <<"iflist", "wr">>, <<"rtable", "rd">>},
           <<Wr("routers")>>,
           {<<"cache", "rd">>, <<"queue", "wr">>, <<"iflist", "wr">>, <<"rtable", "rd">>,
            <<"routers", "wr">>})
    <3>1. \A h \in {<<"cache", "rd">>, <<"queue", "wr">>, <<"iflist", "wr">>,
                    <<"rtable", "rd">>} : Below(h[1], "routers")
      BY Order
    <3>2. {<<"cache", "rd">>, <<"queue", "wr">>, <<"iflist", "wr">>, <<"rtable", "rd">>,
           <<"routers", "wr">>}
         = {<<"cache", "rd">>, <<"queue", "wr">>, <<"iflist", "wr">>,
            <<"rtable", "rd">>} \cup {<<"routers", "wr">>}
      OBVIOUS
    <3>3. {<<"cache", "rd">>, <<"queue", "wr">>, <<"iflist", "wr">>,
           <<"rtable", "rd">>} \in SUBSET LockModes /\ "routers" \in Locks
      BY DEF LockModes, Locks
    <3> QED
      BY <3>1, <3>2, <3>3, GoodWr, Zenon
  <2> QED
    BY <2>1, <2>2, <2>3, <2>4, GoodFour
<1> QED
  BY <1>1, GoodPath, GoodPathUnlock, GoodConcat DEF HelloSection, PathHeld, HelloHeld

\* A HELLO from a neighbour already known.
LEMMA GoodHelloKnown ==
    Good({}, HelloKnown, {})
<1>1. Good({<<"cache", "rd">>, <<"queue", "wr">>, <<"iflist", "wr">>, <<"rtable", "rd">>,
            <<"routers", "wr">>},
           <<Do("use", {"ifaces"}, {"nbrs"}), Un({"routers"})>>,
           {<<"cache", "rd">>, <<"queue", "wr">>, <<"iflist", "wr">>, <<"rtable", "rd">>})
<2>1. Good({<<"cache", "rd">>, <<"queue", "wr">>, <<"iflist", "wr">>, <<"rtable", "rd">>,
            <<"routers", "wr">>}, <<Do("use", {"ifaces"}, {"nbrs"})>>,
           {<<"cache", "rd">>, <<"queue", "wr">>, <<"iflist", "wr">>, <<"rtable", "rd">>,
            <<"routers", "wr">>})
    BY GoodDo DEF Locks, LockModes, Structures, Acts, MayWrite, MayRead, Holds
<2>2. Good({<<"cache", "rd">>, <<"queue", "wr">>, <<"iflist", "wr">>, <<"rtable", "rd">>,
            <<"routers", "wr">>}, <<Un({"routers"})>>,
           {<<"cache", "rd">>, <<"queue", "wr">>, <<"iflist", "wr">>, <<"rtable", "rd">>})
    <3>1. {<<"cache", "rd">>, <<"queue", "wr">>, <<"iflist", "wr">>, <<"rtable", "rd">>}
         = {h \in {<<"cache", "rd">>, <<"queue", "wr">>, <<"iflist", "wr">>,
                   <<"rtable", "rd">>, <<"routers", "wr">>} : h[1] \notin {"routers"}}
      OBVIOUS
    <3> QED
      BY <3>1, GoodUn DEF Locks, LockModes
  <2> QED
    BY <2>1, <2>2, GoodTwo
<1> QED
  BY <1>1, GoodHello DEF HelloKnown, Use, HelloHeld, LockModes, Locks

\* A HELLO from a new neighbour.
LEMMA GoodHelloNew ==
    Good({}, process_pwospf_hello_packet, {})
<1>1. Fits({<<"cache", "rd">>, <<"queue", "wr">>, <<"iflist", "wr">>, <<"rtable", "rd">>,
            <<"routers", "wr">>}, <<Do("change", {"ifaces"}, {"nbrs", "links"})>>,
           {<<"cache", "rd">>, <<"queue", "wr">>, <<"iflist", "wr">>, <<"rtable", "rd">>,
            <<"routers", "wr">>})
  <2>1. {<<"cache", "rd">>, <<"queue", "wr">>, <<"iflist", "wr">>, <<"rtable", "rd">>,
         <<"routers", "wr">>} \in SUBSET LockModes
    BY DEF LockModes, Locks
  <2>2. \A x \in {"nbrs", "links"} : MayWrite({<<"cache", "rd">>, <<"queue", "wr">>,
                                               <<"iflist", "wr">>, <<"rtable",
                                                                     "rd">>, <<"routers",
                                                                               "wr">>}, x)
    BY DEF MayWrite
  <2>3. \A x \in {"ifaces"} : MayRead({<<"cache", "rd">>, <<"queue", "wr">>,
                                       <<"iflist", "wr">>, <<"rtable",
                                                             "rd">>, <<"routers",
                                                                       "wr">>}, x)
    BY DEF MayRead, Holds
  <2> QED
    BY <2>1, <2>2, <2>3, FitsDo DEF Acts, Structures
<1>2. Good({<<"cache", "rd">>, <<"queue", "wr">>, <<"iflist", "wr">>, <<"rtable", "rd">>,
            <<"routers", "wr">>},
           <<Un({"routers"}), Do("signal", {}, {})>>,
           {<<"cache", "rd">>, <<"queue", "wr">>, <<"iflist", "wr">>, <<"rtable", "rd">>})
<2>1. Good({<<"cache", "rd">>, <<"queue", "wr">>, <<"iflist", "wr">>, <<"rtable", "rd">>,
            <<"routers", "wr">>}, <<Un({"routers"})>>,
           {<<"cache", "rd">>, <<"queue", "wr">>, <<"iflist", "wr">>, <<"rtable", "rd">>})
    <3>1. {<<"cache", "rd">>, <<"queue", "wr">>, <<"iflist", "wr">>, <<"rtable", "rd">>}
         = {h \in {<<"cache", "rd">>, <<"queue", "wr">>, <<"iflist", "wr">>,
                   <<"rtable", "rd">>, <<"routers", "wr">>} : h[1] \notin {"routers"}}
      OBVIOUS
    <3> QED
      BY <3>1, GoodUn DEF Locks, LockModes
<2>2. Good({<<"cache", "rd">>, <<"queue", "wr">>, <<"iflist", "wr">>, <<"rtable", "rd">>},
           <<Do("signal", {}, {})>>,
           {<<"cache", "rd">>, <<"queue", "wr">>, <<"iflist", "wr">>, <<"rtable", "rd">>})
    BY GoodDo DEF Locks, LockModes, Structures, Acts, MayWrite, MayRead, Holds
  <2> QED
    BY <2>1, <2>2, GoodTwo
<1>3. Flooding(HelloHeld)
  BY Order DEF Flooding, HelloHeld, LockModes, Locks
<1>4. Good(HelloHeld,
           <<Do("change", {"ifaces"}, {"nbrs", "links"})>> \o propagate_pwospf_changes,
           HelloHeld)
  BY <1>1, <1>3, GoodPropagate, GoodTold DEF HelloHeld
<1>5. Good(HelloHeld,
           <<Do("change", {"ifaces"}, {"nbrs", "links"})>> \o propagate_pwospf_changes
               \o <<Un({"routers"}), Signal>>,
           {<<"cache", "rd">>, <<"queue", "wr">>, <<"iflist", "wr">>, <<"rtable", "rd">>})
  BY <1>2, <1>4, GoodConcat DEF HelloHeld, Signal
<1> QED
  BY <1>5, GoodHello DEF process_pwospf_hello_packet, LockModes, Locks

\* An update with news.
LEMMA GoodLsu ==
    Good({}, process_pwospf_lsu_packet, {})
<1>1. Fits({<<"cache", "rd">>, <<"queue", "wr">>, <<"iflist", "rd">>, <<"rtable", "rd">>},
           <<Un({"rtable"}), Wr("rtable"), Wr("routers"), Do("change", {}, {"links"})>>,
           {<<"cache", "rd">>, <<"queue", "wr">>, <<"iflist", "rd">>, <<"rtable", "wr">>,
            <<"routers", "wr">>})
<2>1. Fits({<<"cache", "rd">>, <<"queue", "wr">>, <<"iflist", "rd">>, <<"rtable", "rd">>},
           <<Un({"rtable"})>>,
           {<<"cache", "rd">>, <<"queue", "wr">>, <<"iflist", "rd">>})
    <3>1. {<<"cache", "rd">>, <<"queue", "wr">>, <<"iflist", "rd">>}
         = {h \in {<<"cache", "rd">>, <<"queue", "wr">>, <<"iflist", "rd">>,
                   <<"rtable", "rd">>} : h[1] \notin {"rtable"}}
      OBVIOUS
    <3> QED
      BY <3>1, GoodUn DEF Locks, LockModes, Good
<2>2. Fits({<<"cache", "rd">>, <<"queue", "wr">>, <<"iflist", "rd">>}, <<Wr("rtable")>>,
           {<<"cache", "rd">>, <<"queue", "wr">>, <<"iflist", "rd">>, <<"rtable", "wr">>})
    <3>1. \A h \in {<<"cache", "rd">>, <<"queue", "wr">>,
                    <<"iflist", "rd">>} : Below(h[1], "rtable")
      BY Order
    <3>2. {<<"cache", "rd">>, <<"queue", "wr">>, <<"iflist", "rd">>, <<"rtable", "wr">>}
         = {<<"cache", "rd">>, <<"queue", "wr">>,
            <<"iflist", "rd">>} \cup {<<"rtable", "wr">>}
      OBVIOUS
    <3>3. {<<"cache", "rd">>, <<"queue", "wr">>,
           <<"iflist", "rd">>} \in SUBSET LockModes /\ "rtable" \in Locks
      BY DEF LockModes, Locks
    <3> QED
      BY <3>1, <3>2, <3>3, GoodWr DEF Good
<2>3. Fits({<<"cache", "rd">>, <<"queue", "wr">>, <<"iflist", "rd">>, <<"rtable", "wr">>},
           <<Wr("routers")>>,
           {<<"cache", "rd">>, <<"queue", "wr">>, <<"iflist", "rd">>, <<"rtable", "wr">>,
            <<"routers", "wr">>})
    <3>1. \A h \in {<<"cache", "rd">>, <<"queue", "wr">>, <<"iflist", "rd">>,
                    <<"rtable", "wr">>} : Below(h[1], "routers")
      BY Order
    <3>2. {<<"cache", "rd">>, <<"queue", "wr">>, <<"iflist", "rd">>, <<"rtable", "wr">>,
           <<"routers", "wr">>}
         = {<<"cache", "rd">>, <<"queue", "wr">>, <<"iflist", "rd">>,
            <<"rtable", "wr">>} \cup {<<"routers", "wr">>}
      OBVIOUS
    <3>3. {<<"cache", "rd">>, <<"queue", "wr">>, <<"iflist", "rd">>,
           <<"rtable", "wr">>} \in SUBSET LockModes /\ "routers" \in Locks
      BY DEF LockModes, Locks
    <3> QED
      BY <3>1, <3>2, <3>3, GoodWr DEF Good
<2>4. Fits({<<"cache", "rd">>, <<"queue", "wr">>, <<"iflist", "rd">>, <<"rtable", "wr">>,
            <<"routers", "wr">>}, <<Do("change", {}, {"links"})>>,
           {<<"cache", "rd">>, <<"queue", "wr">>, <<"iflist", "rd">>, <<"rtable", "wr">>,
            <<"routers", "wr">>})
    <3>1. {<<"cache", "rd">>, <<"queue", "wr">>, <<"iflist", "rd">>, <<"rtable", "wr">>,
           <<"routers", "wr">>} \in SUBSET LockModes
      BY DEF LockModes, Locks
    <3>2. \A x \in {"links"} : MayWrite({<<"cache", "rd">>, <<"queue", "wr">>,
                                         <<"iflist", "rd">>, <<"rtable",
                                                               "wr">>, <<"routers",
                                                                         "wr">>}, x)
      BY DEF MayWrite
    <3>3. \A x \in {} : MayRead({<<"cache", "rd">>, <<"queue", "wr">>, <<"iflist", "rd">>,
                                 <<"rtable", "wr">>, <<"routers", "wr">>}, x)
      BY DEF MayRead, Holds
    <3> QED
      BY <3>1, <3>2, <3>3, FitsDo DEF Acts, Structures
  <2> QED
    BY <2>1, <2>2, <2>3, <2>4, FitsFour
<1>2. Good({<<"cache", "rd">>, <<"queue", "wr">>, <<"iflist", "rd">>, <<"rtable", "wr">>,
            <<"routers", "wr">>},
           <<Un({"routers"}), Do("signal", {}, {})>>,
           {<<"cache", "rd">>, <<"queue", "wr">>, <<"iflist", "rd">>, <<"rtable", "wr">>})
<2>1. Good({<<"cache", "rd">>, <<"queue", "wr">>, <<"iflist", "rd">>, <<"rtable", "wr">>,
            <<"routers", "wr">>}, <<Un({"routers"})>>,
           {<<"cache", "rd">>, <<"queue", "wr">>, <<"iflist", "rd">>, <<"rtable", "wr">>})
    <3>1. {<<"cache", "rd">>, <<"queue", "wr">>, <<"iflist", "rd">>, <<"rtable", "wr">>}
         = {h \in {<<"cache", "rd">>, <<"queue", "wr">>, <<"iflist", "rd">>,
                   <<"rtable", "wr">>, <<"routers", "wr">>} : h[1] \notin {"routers"}}
      OBVIOUS
    <3> QED
      BY <3>1, GoodUn DEF Locks, LockModes
<2>2. Good({<<"cache", "rd">>, <<"queue", "wr">>, <<"iflist", "rd">>, <<"rtable", "wr">>},
           <<Do("signal", {}, {})>>,
           {<<"cache", "rd">>, <<"queue", "wr">>, <<"iflist", "rd">>, <<"rtable", "wr">>})
    BY GoodDo DEF Locks, LockModes, Structures, Acts, MayWrite, MayRead, Holds
  <2> QED
    BY <2>1, <2>2, GoodTwo
<1> DEFINE S == {<<"cache", "rd">>, <<"queue", "wr">>, <<"iflist", "rd">>,
                 <<"rtable", "wr">>, <<"routers", "wr">>}
           news == <<Un({"rtable"}), Wr("rtable"), Wr("routers"),
                     Do("change", {}, {"links"})>>
<1>3. Flooding(S)
  BY Order DEF Flooding, LockModes, Locks
<1>4. /\ Fits({}, PathLocks, PathHeld) /\ Fits(PathHeld, news, S)
      /\ Fits(S, broadcast_pwospf_lsu_packet, S)
  BY <1>1, <1>3, GoodPath, GoodBroadcast DEF Good, PathHeld
<1>5. Good(S, propagate_pwospf_changes, S)
      /\ \E j \in DOMAIN propagate_pwospf_changes :
            propagate_pwospf_changes[j].act \in {"trigger", "compute"}
  BY <1>3, GoodPropagate
<1>6. Good(S, <<Un({"routers"}), Signal>>,
           {<<"cache", "rd">>, <<"queue", "wr">>, <<"iflist", "rd">>, <<"rtable", "wr">>})
  BY <1>2 DEF Signal
<1>7. Good({<<"cache", "rd">>, <<"queue", "wr">>, <<"iflist", "rd">>, <<"rtable", "wr">>},
           PathUnlock, {})
  BY GoodPathUnlock DEF LockModes, Locks
<1> HIDE DEF S, news
<1>8. Good({},
           PathLocks \o news \o broadcast_pwospf_lsu_packet \o propagate_pwospf_changes,
           S)
  BY <1>4, <1>5, FitsConcat, GoodTold
<1> QED
  BY <1>6, <1>7, <1>8, GoodConcat DEF process_pwospf_lsu_packet, news

\* An ARP request.
LEMMA GoodArpRequest ==
    Good({}, process_arp_request, {})
<1>1. Good({}, <<Rd("iflist")>>, {<<"iflist", "rd">>})
  BY GoodRd DEF Locks, LockModes
<1>2. Good({<<"iflist", "rd">>}, <<Do("use", {"ifaces"}, {})>>, {<<"iflist", "rd">>})
  BY GoodDo DEF Locks, LockModes, Structures, Acts, MayWrite, MayRead, Holds
<1>3. Good({<<"iflist", "rd">>}, <<Un({"iflist"})>>, {})
  BY GoodUn DEF Locks, LockModes
<1> QED
  BY <1>1, <1>2, <1>3, GoodThree DEF process_arp_request, Use

\* An ARP reply.
LEMMA GoodArpReply ==
    Good({}, process_arp_reply, {})
<1>1. Good({}, <<Wr("cache")>>, {<<"cache", "wr">>})
  BY GoodWr DEF Locks, LockModes
<1>2. Good({<<"cache", "wr">>}, <<Do("use", {}, {"cache"})>>, {<<"cache", "wr">>})
  BY GoodDo DEF Locks, LockModes, Structures, Acts, MayWrite, MayRead, Holds
<1>3. Good({<<"cache", "wr">>}, <<Un({"cache"})>>, {})
  BY GoodUn DEF Locks, LockModes
<1>4. Good({}, <<Rd("cache")>>, {<<"cache", "rd">>})
  BY GoodRd DEF Locks, LockModes
<1>5. Good({<<"cache", "rd">>}, <<Wr("queue")>>, {<<"cache", "rd">>, <<"queue", "wr">>})
  <2>1. \A h \in {<<"cache", "rd">>} : Below(h[1], "queue")
    BY Order
  <2>2. {<<"cache", "rd">>, <<"queue", "wr">>}
       = {<<"cache", "rd">>} \cup {<<"queue", "wr">>}
    OBVIOUS
  <2>3. {<<"cache", "rd">>} \in SUBSET LockModes /\ "queue" \in Locks
    BY DEF LockModes, Locks
  <2> QED
    BY <2>1, <2>2, <2>3, GoodWr, Zenon
<1>6. Good({<<"cache", "rd">>, <<"queue", "wr">>}, <<Do("use", {"cache"}, {"queue"})>>,
           {<<"cache", "rd">>, <<"queue", "wr">>})
  BY GoodDo DEF Locks, LockModes, Structures, Acts, MayWrite, MayRead, Holds
<1>7. Good({<<"cache", "rd">>, <<"queue", "wr">>}, <<Un({"queue", "cache"})>>, {})
  <2>1. {}
       = {h \in {<<"cache", "rd">>, <<"queue", "wr">>} : h[1] \notin {"queue", "cache"}}
    OBVIOUS
  <2> QED
    BY <2>1, GoodUn DEF Locks, LockModes
<1> QED
  BY <1>1, <1>2, <1>3, <1>4, <1>5, <1>6, <1>7, GoodSeven DEF process_arp_reply, Use

\* A command of the ARP cache.
LEMMA GoodArpCommand ==
    Good({}, ArpCommand, {})
<1>1. Good({}, <<Wr("cache")>>, {<<"cache", "wr">>})
  BY GoodWr DEF Locks, LockModes
<1>2. Good({<<"cache", "wr">>}, <<Do("use", {}, {"cache"})>>, {<<"cache", "wr">>})
  BY GoodDo DEF Locks, LockModes, Structures, Acts, MayWrite, MayRead, Holds
<1>3. Good({<<"cache", "wr">>}, <<Un({"cache"})>>, {})
  BY GoodUn DEF Locks, LockModes
<1> QED
  BY <1>1, <1>2, <1>3, GoodThree DEF ArpCommand, Use

\* The thread of the ARP queue.
LEMMA GoodArpSecond ==
    Good({}, arp_thread, {})
<1>1. Good({}, ArpCommand \o PathLocks, PathHeld)
  BY GoodArpCommand, GoodPath, GoodConcat
<1>2. Good(PathHeld, PathUnlock, {})
  BY GoodPathUnlock DEF PathHeld, LockModes, Locks
<1> QED
  BY <1>1, <1>2, GoodSend, GoodConcat DEF arp_thread, ArpCommand

\* The thread that sends updates.
LEMMA GoodBcast ==
    Good({}, pwospf_lsu_bcast_thread, {})
<1>1. Good({}, <<Wr("lsuq"), Do("swap", {}, {"lsuq"}), Un({"lsuq"})>>, {})
<2>1. Good({}, <<Wr("lsuq")>>, {<<"lsuq", "wr">>})
    BY GoodWr DEF Locks, LockModes
<2>2. Good({<<"lsuq", "wr">>}, <<Do("swap", {}, {"lsuq"})>>, {<<"lsuq", "wr">>})
    BY GoodDo DEF Locks, LockModes, Structures, Acts, MayWrite, MayRead, Holds
<2>3. Good({<<"lsuq", "wr">>}, <<Un({"lsuq"})>>, {})
    BY GoodUn DEF Locks, LockModes
  <2> QED
    BY <2>1, <2>2, <2>3, GoodThree
<1>2. Good(PathHeld, PathUnlock, {})
  BY GoodPathUnlock DEF PathHeld, LockModes, Locks
<1> QED
  BY <1>1, <1>2, GoodPath, GoodSend, GoodConcat DEF pwospf_lsu_bcast_thread

\* A neighbour has timed out.
LEMMA GoodHelloTimeout ==
    Good({}, broadcast_pwospf_hello_packet, {})
<1>1. Fits({},
           <<Wr("iflist"), Wr("routers"), Do("change", {"ifaces"}, {"nbrs", "links"}),
             Un({"routers"}), Wr("routers")>>,
           {<<"iflist", "wr">>, <<"routers", "wr">>})
<2>1. Fits({}, <<Wr("iflist")>>, {<<"iflist", "wr">>})
    BY GoodWr DEF Locks, LockModes, Good
<2>2. Fits({<<"iflist", "wr">>}, <<Wr("routers")>>,
           {<<"iflist", "wr">>, <<"routers", "wr">>})
    <3>1. \A h \in {<<"iflist", "wr">>} : Below(h[1], "routers")
      BY Order
    <3>2. {<<"iflist", "wr">>, <<"routers", "wr">>}
         = {<<"iflist", "wr">>} \cup {<<"routers", "wr">>}
      OBVIOUS
    <3>3. {<<"iflist", "wr">>} \in SUBSET LockModes /\ "routers" \in Locks
      BY DEF LockModes, Locks
    <3> QED
      BY <3>1, <3>2, <3>3, GoodWr DEF Good
<2>3. Fits({<<"iflist", "wr">>, <<"routers", "wr">>},
           <<Do("change", {"ifaces"}, {"nbrs", "links"})>>,
           {<<"iflist", "wr">>, <<"routers", "wr">>})
    <3>1. {<<"iflist", "wr">>, <<"routers", "wr">>} \in SUBSET LockModes
      BY DEF LockModes, Locks
    <3>2. \A x \in {"nbrs", "links"} : MayWrite({<<"iflist", "wr">>, <<"routers", "wr">>},
                                                x)
      BY DEF MayWrite
    <3>3. \A x \in {"ifaces"} : MayRead({<<"iflist", "wr">>, <<"routers", "wr">>}, x)
      BY DEF MayRead, Holds
    <3> QED
      BY <3>1, <3>2, <3>3, FitsDo DEF Acts, Structures
<2>4. Fits({<<"iflist", "wr">>, <<"routers", "wr">>}, <<Un({"routers"})>>,
           {<<"iflist", "wr">>})
    <3>1. {<<"iflist", "wr">>}
         = {h \in {<<"iflist", "wr">>, <<"routers", "wr">>} : h[1] \notin {"routers"}}
      OBVIOUS
    <3> QED
      BY <3>1, GoodUn DEF Locks, LockModes, Good
<2>5. Fits({<<"iflist", "wr">>}, <<Wr("routers")>>,
           {<<"iflist", "wr">>, <<"routers", "wr">>})
    <3>1. \A h \in {<<"iflist", "wr">>} : Below(h[1], "routers")
      BY Order
    <3>2. {<<"iflist", "wr">>, <<"routers", "wr">>}
         = {<<"iflist", "wr">>} \cup {<<"routers", "wr">>}
      OBVIOUS
    <3>3. {<<"iflist", "wr">>} \in SUBSET LockModes /\ "routers" \in Locks
      BY DEF LockModes, Locks
    <3> QED
      BY <3>1, <3>2, <3>3, GoodWr DEF Good
  <2> QED
    BY <2>1, <2>2, <2>3, <2>4, <2>5, FitsFive
<1>2. Good({<<"iflist", "wr">>, <<"routers", "wr">>},
           <<Un({"routers"}), Do("signal", {}, {}), Un({"iflist"})>>,
           {})
<2>1. Good({<<"iflist", "wr">>, <<"routers", "wr">>}, <<Un({"routers"})>>,
           {<<"iflist", "wr">>})
    <3>1. {<<"iflist", "wr">>}
         = {h \in {<<"iflist", "wr">>, <<"routers", "wr">>} : h[1] \notin {"routers"}}
      OBVIOUS
    <3> QED
      BY <3>1, GoodUn DEF Locks, LockModes
<2>2. Good({<<"iflist", "wr">>}, <<Do("signal", {}, {})>>, {<<"iflist", "wr">>})
    BY GoodDo DEF Locks, LockModes, Structures, Acts, MayWrite, MayRead, Holds
<2>3. Good({<<"iflist", "wr">>}, <<Un({"iflist"})>>, {})
    BY GoodUn DEF Locks, LockModes
  <2> QED
    BY <2>1, <2>2, <2>3, GoodThree
<1>3. Flooding({<<"iflist", "wr">>, <<"routers", "wr">>})
  BY Order DEF Flooding, LockModes, Locks
<1> QED
  BY <1>1, <1>2, <1>3, GoodPropagate, GoodTold, GoodConcat
  DEF broadcast_pwospf_hello_packet, Signal

\* No neighbour has timed out.
LEMMA GoodHelloQuiet ==
    Good({}, HelloQuiet, {})
<1>1. Good({}, <<Wr("iflist")>>, {<<"iflist", "wr">>})
  BY GoodWr DEF Locks, LockModes
<1>2. Good({<<"iflist", "wr">>}, <<Wr("routers")>>,
           {<<"iflist", "wr">>, <<"routers", "wr">>})
  <2>1. \A h \in {<<"iflist", "wr">>} : Below(h[1], "routers")
    BY Order
  <2>2. {<<"iflist", "wr">>, <<"routers", "wr">>}
       = {<<"iflist", "wr">>} \cup {<<"routers", "wr">>}
    OBVIOUS
  <2>3. {<<"iflist", "wr">>} \in SUBSET LockModes /\ "routers" \in Locks
    BY DEF LockModes, Locks
  <2> QED
    BY <2>1, <2>2, <2>3, GoodWr, Zenon
<1>3. Good({<<"iflist", "wr">>, <<"routers", "wr">>},
           <<Do("use", {"ifaces", "nbrs"}, {})>>,
           {<<"iflist", "wr">>, <<"routers", "wr">>})
  BY GoodDo DEF Locks, LockModes, Structures, Acts, MayWrite, MayRead, Holds
<1>4. Good({<<"iflist", "wr">>, <<"routers", "wr">>}, <<Un({"routers", "iflist"})>>, {})
  <2>1. {}
       = {h \in {<<"iflist", "wr">>, <<"routers", "wr">>} : h[1] \notin {"routers",
                                                                         "iflist"}}
    OBVIOUS
  <2> QED
    BY <2>1, GoodUn DEF Locks, LockModes
<1> QED
  BY <1>1, <1>2, <1>3, <1>4, GoodFour DEF HelloQuiet, Use

\* An update of ours asks for no routes.
LEMMA FloodAskFree ==
    AskFree(start_lsu_bcast_flood) /\ start_lsu_bcast_flood \in Seq(AnyStep)
<1> DEFINE first == <<Do("date", {"links"}, {"links", "updated"})>>
           last == <<Do("date", {"links"}, {"updated"})>>
<1>1. AskFree(first) /\ AskFree(last) /\ AskFree(broadcast_pwospf_lsu_packet)
  BY DEF AskFree, broadcast_pwospf_lsu_packet, Do, Use, Wr, Un
<1>2. {Do("date", {"links"}, {"links", "updated"}), Do("date", {"links"}, {"updated"}),
       Use({"ifaces", "nbrs"}, {}), Wr("lsuq"), Do("enqueue", {}, {"lsuq"}), Un({"lsuq"})}
         \subseteq AnyStep
  <2>1. Wr("lsuq") \in AnyStep /\ Un({"lsuq"}) \in AnyStep
    BY DEF AnyStep, Locks
  <2>2. \A act \in Acts, r, w \in SUBSET Structures : Do(act, r, w) \in AnyStep
    BY DEF AnyStep
  <2> QED
    BY <2>1, <2>2 DEF Acts, Structures, Use
<1>3. first \in Seq(AnyStep) /\ last \in Seq(AnyStep)
      /\ broadcast_pwospf_lsu_packet \in Seq(AnyStep)
  BY <1>2 DEF broadcast_pwospf_lsu_packet
<1> HIDE DEF first, last
<1>4. first \o broadcast_pwospf_lsu_packet \in Seq(AnyStep)
      /\ AskFree(first \o broadcast_pwospf_lsu_packet)
  BY <1>1, <1>3, AskFreeConcat, Zenon
<1>5. (first \o broadcast_pwospf_lsu_packet) \o last \in Seq(AnyStep)
      /\ AskFree((first \o broadcast_pwospf_lsu_packet) \o last)
  BY <1>1, <1>3, <1>4, AskFreeConcat, Zenon
<1> QED
  BY <1>5, Zenon DEF start_lsu_bcast_flood, first, last

\* The thread that refreshes our update returns early when it holds no lock.
LEMMA SoundRefresh == Sound(pwospf_lsu_thread)
<1> DEFINE look == <<Wr("routers"), Do("use", {"links"}, {}), Un({"routers"})>>
           due == <<Due>>
           enter == <<Wr("routers")>>
           leave == <<Un({"routers"}), Do("signal", {}, {})>>
           mutex == {<<"routers", "wr">>}
<1>1. Good({}, look, {})
  <2>1. Good({}, <<Wr("routers")>>, mutex)
    BY GoodWr DEF Locks, LockModes
  <2>2. Good(mutex, <<Do("use", {"links"}, {})>>, mutex)
    BY GoodDo DEF Locks, LockModes, Structures, Acts, MayWrite, MayRead, Holds
  <2>3. Good(mutex, <<Un({"routers"})>>, {})
    BY GoodUn DEF Locks, LockModes
  <2> QED
    BY <2>1, <2>2, <2>3, GoodThree
<1>2. Good({}, enter, mutex)
  BY GoodWr DEF Locks, LockModes
<1>3. Good(mutex, leave, {})
  <2>1. Good(mutex, <<Un({"routers"})>>, {})
    BY GoodUn DEF Locks, LockModes
  <2>2. Good({}, <<Do("signal", {}, {})>>, {})
    BY GoodDo DEF Locks, LockModes, Structures, Acts, MayWrite, MayRead, Holds
  <2> QED
    BY <2>1, <2>2, GoodTwo
<1>4. Flooding(mutex)
  BY Order DEF Flooding, LockModes, Locks
<1>5. FitsIn(AnyStepOrDue, {}, due, {})
  <2>1. Due.act = "due" /\ Due.reads = {"updated"} /\ Due.writes = {}
    BY DEF Due, Do
  <2>2. Allowed({}, Due) /\ HeldAfter({}, Due) = {}
    BY <2>1 DEF Allowed, HeldAfter
  <2>3. Annotates([i \in 0 .. 1 |-> {}], {}, due, {})
    BY <2>2 DEF Annotates, LockModes
  <2>4. due \in Seq(AnyStepOrDue) /\ Len(due) > 0
    BY DEF AnyStepOrDue
  <2> QED
    BY <2>3, <2>4 DEF FitsIn
<1>6. AskFree(look) /\ AskFree(due) /\ AskFree(enter) /\ AskFree(leave)
  BY DEF AskFree, Due, Do, Wr, Un
<1>7. look \in Seq(AnyStep) /\ enter \in Seq(AnyStep) /\ leave \in Seq(AnyStep)
  BY <1>1, <1>2, <1>3 DEF Good, Fits, FitsIn
<1>8. due \in Seq(AnyStepOrDue)
  BY DEF AnyStepOrDue
<1>9. pwospf_lsu_thread = (((look \o due) \o enter) \o start_lsu_bcast_flood) \o leave
  <2>1. /\ Wr("routers") \in AnyStepOrDue /\ Do("use", {"links"}, {}) \in AnyStepOrDue
        /\ Un({"routers"}) \in AnyStepOrDue /\ Due \in AnyStepOrDue
    BY <1>7, <1>8 DEF AnyStepOrDue
  <2>2. <<Wr("routers"), Do("use", {"links"}, {}), Un({"routers"}), Due, Wr("routers")>>
          = (look \o due) \o enter
    BY <2>1
  <2> QED
    BY <2>2, Zenon DEF pwospf_lsu_thread, Use, Signal
<1> HIDE DEF look, due, enter, leave, mutex
<1>10. ASSUME NEW S, NEW P, NEW T, Good(S, P, T)
       PROVE  FitsIn(AnyStepOrDue, S, P, T)
  BY <1>10 DEF Good, Fits, FitsIn, AnyStepOrDue
<1>11. FitsIn(AnyStepOrDue, {}, pwospf_lsu_thread, {})
  <2>1. /\ FitsIn(AnyStepOrDue, {}, look, {}) /\ FitsIn(AnyStepOrDue, {}, enter, mutex)
        /\ FitsIn(AnyStepOrDue, mutex, start_lsu_bcast_flood, mutex)
        /\ FitsIn(AnyStepOrDue, mutex, leave, {})
    BY <1>1, <1>2, <1>3, <1>4, <1>10, GoodFlood, Zenon
  <2>2. FitsIn(AnyStepOrDue, {}, look \o due, {})
    BY <1>5, <2>1, FitsInConcat, Zenon
  <2>3. FitsIn(AnyStepOrDue, {}, (look \o due) \o enter, mutex)
    BY <2>1, <2>2, FitsInConcat, Zenon
  <2>4. FitsIn(AnyStepOrDue, {}, ((look \o due) \o enter) \o start_lsu_bcast_flood, mutex)
    BY <2>1, <2>3, FitsInConcat, Zenon
  <2> QED
    BY <1>9, <2>1, <2>4, FitsInConcat, Zenon
<1>12. AskFree(pwospf_lsu_thread)
  <2>1. /\ look \in Seq(AnyStepOrDue) /\ enter \in Seq(AnyStepOrDue)
        /\ leave \in Seq(AnyStepOrDue) /\ start_lsu_bcast_flood \in Seq(AnyStepOrDue)
        /\ AskFree(start_lsu_bcast_flood)
    BY <1>7, FloodAskFree DEF AnyStepOrDue
  <2>2. look \o due \in Seq(AnyStepOrDue) /\ AskFree(look \o due)
    BY <1>6, <1>8, <2>1, AskFreeConcat, Zenon
  <2>3. (look \o due) \o enter \in Seq(AnyStepOrDue) /\ AskFree((look \o due) \o enter)
    BY <1>6, <2>1, <2>2, AskFreeConcat, Zenon
  <2>4. /\ ((look \o due) \o enter) \o start_lsu_bcast_flood \in Seq(AnyStepOrDue)
        /\ AskFree(((look \o due) \o enter) \o start_lsu_bcast_flood)
    BY <2>1, <2>3, AskFreeConcat, Zenon
  <2> QED
    BY <1>6, <1>9, <2>1, <2>4, AskFreeConcat, Zenon
<1> QED
  BY <1>11, <1>12 DEF Sound, Notices, Quits, AskFree

\* The thread that forgets routers.
LEMMA GoodLsuTimeout ==
    Good({}, pwospf_lsu_timeout_thread, {})
<1>1. Fits({}, <<Wr("routers"), Do("change", {}, {"links"})>>, {<<"routers", "wr">>})
<2>1. Fits({}, <<Wr("routers")>>, {<<"routers", "wr">>})
    BY GoodWr DEF Locks, LockModes, Good
<2>2. Fits({<<"routers", "wr">>}, <<Do("change", {}, {"links"})>>, {<<"routers", "wr">>})
    <3>1. {<<"routers", "wr">>} \in SUBSET LockModes
      BY DEF LockModes, Locks
    <3>2. \A x \in {"links"} : MayWrite({<<"routers", "wr">>}, x)
      BY DEF MayWrite
    <3>3. \A x \in {} : MayRead({<<"routers", "wr">>}, x)
      BY DEF MayRead, Holds
    <3> QED
      BY <3>1, <3>2, <3>3, FitsDo DEF Acts, Structures
  <2> QED
    BY <2>1, <2>2, FitsTwo
<1>2. Good({<<"routers", "wr">>}, <<Un({"routers"}), Do("signal", {}, {})>>, {})
<2>1. Good({<<"routers", "wr">>}, <<Un({"routers"})>>, {})
    BY GoodUn DEF Locks, LockModes
<2>2. Good({}, <<Do("signal", {}, {})>>, {})
    BY GoodDo DEF Locks, LockModes, Structures, Acts, MayWrite, MayRead, Holds
  <2> QED
    BY <2>1, <2>2, GoodTwo
<1>3. Flooding({<<"routers", "wr">>})
  BY Order DEF Flooding, LockModes, Locks
<1> QED
  BY <1>1, <1>2, <1>3, GoodPropagate, GoodTold, GoodConcat
  DEF pwospf_lsu_timeout_thread, Signal

\* Commands of the routing table, of the router list.
LEMMA GoodRouteCommand ==
    Good({}, RouteCommand, {})
<1>1. Good({}, <<Wr("rtable")>>, {<<"rtable", "wr">>})
  BY GoodWr DEF Locks, LockModes
<1>2. Good({<<"rtable", "wr">>}, <<Do("use", {}, {"rtable"})>>, {<<"rtable", "wr">>})
  BY GoodDo DEF Locks, LockModes, Structures, Acts, MayWrite, MayRead, Holds
<1>3. Good({<<"rtable", "wr">>}, <<Un({"rtable"})>>, {})
  BY GoodUn DEF Locks, LockModes
<1> QED
  BY <1>1, <1>2, <1>3, GoodThree DEF RouteCommand, Use

\* The command that shows routers and neighbours.
LEMMA GoodShow ==
    Good({}, cli_show_pwospf_info, {})
<1>1. Good({}, <<Wr("routers")>>, {<<"routers", "wr">>})
  BY GoodWr DEF Locks, LockModes
<1>2. Good({<<"routers", "wr">>}, <<Do("use", {"links", "updated"}, {})>>,
           {<<"routers", "wr">>})
  BY GoodDo DEF Locks, LockModes, Structures, Acts, MayWrite, MayRead, Holds
<1>3. Good({<<"routers", "wr">>}, <<Un({"routers"})>>, {})
  BY GoodUn DEF Locks, LockModes
<1>4. Good({}, <<Rd("iflist")>>, {<<"iflist", "rd">>})
  BY GoodRd DEF Locks, LockModes
<1>5. Good({<<"iflist", "rd">>}, <<Do("use", {"ifaces", "nbrs"}, {})>>,
           {<<"iflist", "rd">>})
  BY GoodDo DEF Locks, LockModes, Structures, Acts, MayWrite, MayRead, Holds
<1>6. Good({<<"iflist", "rd">>}, <<Un({"iflist"})>>, {})
  BY GoodUn DEF Locks, LockModes
<1> QED
  BY <1>1, <1>2, <1>3, <1>4, <1>5, <1>6, GoodSix DEF cli_show_pwospf_info, Use

\* The command that sends an update.
LEMMA GoodSendLsu ==
    Good({}, cli_pwospf_send_lsu, {})
<1>1. Good({}, <<Wr("routers")>>, {<<"routers", "wr">>})
  BY GoodWr DEF Locks, LockModes
<1>2. Good({<<"routers", "wr">>}, <<Un({"routers"}), Do("signal", {}, {})>>, {})
<2>1. Good({<<"routers", "wr">>}, <<Un({"routers"})>>, {})
    BY GoodUn DEF Locks, LockModes
<2>2. Good({}, <<Do("signal", {}, {})>>, {})
    BY GoodDo DEF Locks, LockModes, Structures, Acts, MayWrite, MayRead, Holds
  <2> QED
    BY <2>1, <2>2, GoodTwo
<1>3. Flooding({<<"routers", "wr">>})
  BY Order DEF Flooding, LockModes, Locks
<1> QED
  BY <1>1, <1>2, <1>3, GoodFlood, GoodConcat DEF cli_pwospf_send_lsu, Signal

\* The address a connection is sent from.
LEMMA GoodSource ==
    Good({}, find_srcip, {})
<1>1. Good({}, <<Rd("iflist")>>, {<<"iflist", "rd">>})
  BY GoodRd DEF Locks, LockModes
<1>2. Good({<<"iflist", "rd">>}, <<Rd("rtable")>>,
           {<<"iflist", "rd">>, <<"rtable", "rd">>})
  <2>1. \A h \in {<<"iflist", "rd">>} : Below(h[1], "rtable")
    BY Order
  <2>2. {<<"iflist", "rd">>, <<"rtable", "rd">>}
       = {<<"iflist", "rd">>} \cup {<<"rtable", "rd">>}
    OBVIOUS
  <2>3. {<<"iflist", "rd">>} \in SUBSET LockModes /\ "rtable" \in Locks
    BY DEF LockModes, Locks
  <2> QED
    BY <2>1, <2>2, <2>3, GoodRd, Zenon
<1>3. Good({<<"iflist", "rd">>, <<"rtable", "rd">>},
           <<Do("use", {"ifaces", "rtable"}, {})>>,
           {<<"iflist", "rd">>, <<"rtable", "rd">>})
  BY GoodDo DEF Locks, LockModes, Structures, Acts, MayWrite, MayRead, Holds
<1>4. Good({<<"iflist", "rd">>, <<"rtable", "rd">>}, <<Un({"rtable", "iflist"})>>, {})
  <2>1. {}
       = {h \in {<<"iflist", "rd">>, <<"rtable", "rd">>} : h[1] \notin {"rtable",
                                                                        "iflist"}}
    OBVIOUS
  <2> QED
    BY <2>1, GoodUn DEF Locks, LockModes
<1> QED
  BY <1>1, <1>2, <1>3, <1>4, GoodFour DEF find_srcip, Use

\* The computation of routes.
LEMMA FitsDijkstra ==
    Fits({}, dijkstra_thread, {})
<1>1. Fits({}, <<Do("clear", {}, {})>>, {})
  BY FitsDo DEF Locks, LockModes, Structures, Acts, MayWrite, MayRead, Holds
<1>2. Fits({}, <<Rd("iflist")>>, {<<"iflist", "rd">>})
  BY GoodRd DEF Locks, LockModes, Good
<1>3. Fits({<<"iflist", "rd">>}, <<Wr("rtable")>>,
           {<<"iflist", "rd">>, <<"rtable", "wr">>})
  <2>1. \A h \in {<<"iflist", "rd">>} : Below(h[1], "rtable")
    BY Order
  <2>2. {<<"iflist", "rd">>, <<"rtable", "wr">>}
       = {<<"iflist", "rd">>} \cup {<<"rtable", "wr">>}
    OBVIOUS
  <2>3. {<<"iflist", "rd">>} \in SUBSET LockModes /\ "rtable" \in Locks
    BY DEF LockModes, Locks
  <2> QED
    BY <2>1, <2>2, <2>3, GoodWr DEF Good
<1>4. Fits({<<"iflist", "rd">>, <<"rtable", "wr">>}, <<Wr("routers")>>,
           {<<"iflist", "rd">>, <<"rtable", "wr">>, <<"routers", "wr">>})
  <2>1. \A h \in {<<"iflist", "rd">>, <<"rtable", "wr">>} : Below(h[1], "routers")
    BY Order
  <2>2. {<<"iflist", "rd">>, <<"rtable", "wr">>, <<"routers", "wr">>}
       = {<<"iflist", "rd">>, <<"rtable", "wr">>} \cup {<<"routers", "wr">>}
    OBVIOUS
  <2>3. {<<"iflist", "rd">>, <<"rtable",
                               "wr">>} \in SUBSET LockModes /\ "routers" \in Locks
    BY DEF LockModes, Locks
  <2> QED
    BY <2>1, <2>2, <2>3, GoodWr DEF Good
<1>5. Fits({<<"iflist", "rd">>, <<"rtable", "wr">>, <<"routers", "wr">>},
           <<Do("compute", {"ifaces", "links"}, {"links", "rtable"})>>,
           {<<"iflist", "rd">>, <<"rtable", "wr">>, <<"routers", "wr">>})
  <2>1. {<<"iflist", "rd">>, <<"rtable", "wr">>, <<"routers", "wr">>} \in SUBSET LockModes
    BY DEF LockModes, Locks
  <2>2. \A x \in {"links", "rtable"} : MayWrite({<<"iflist", "rd">>, <<"rtable", "wr">>,
                                                 <<"routers", "wr">>}, x)
    BY DEF MayWrite
  <2>3. \A x \in {"ifaces", "links"} : MayRead({<<"iflist", "rd">>, <<"rtable", "wr">>,
                                                <<"routers", "wr">>}, x)
    BY DEF MayRead, Holds
  <2> QED
    BY <2>1, <2>2, <2>3, FitsDo DEF Acts, Structures
<1>6. Fits({<<"iflist", "rd">>, <<"rtable", "wr">>, <<"routers", "wr">>},
           <<Un({"routers", "rtable", "iflist"})>>,
           {})
  <2>1. {}
       = {h \in {<<"iflist", "rd">>, <<"rtable", "wr">>,
                 <<"routers", "wr">>} : h[1] \notin {"routers", "rtable", "iflist"}}
    OBVIOUS
  <2> QED
    BY <2>1, GoodUn DEF Locks, LockModes, Good
<1> QED
  BY <1>1, <1>2, <1>3, <1>4, <1>5, <1>6, FitsSix DEF dijkstra_thread

LEMMA GoodDijkstra == Good({}, dijkstra_thread, {})
<1>1. /\ DOMAIN dijkstra_thread = 1 .. 6
      /\ dijkstra_thread[1].act = "clear" /\ dijkstra_thread[2].act = "lock"
      /\ dijkstra_thread[3].act = "lock" /\ dijkstra_thread[4].act = "lock"
      /\ dijkstra_thread[5].act = "compute" /\ dijkstra_thread[6].act = "unlock"
  BY DEF dijkstra_thread, Do, Rd, Wr, Un
<1>2. Notices(dijkstra_thread)
  BY <1>1 DEF Notices
<1> QED
  BY <1>2, FitsDijkstra DEF Good

\* No operation occurs that breaks it.
OnlyDisciplined == Operations \cap UndisciplinedOperations = {}

\* Every operation begins and ends without locks.
LEMMA Disciplined ==
    ASSUME OnlyDisciplined, NEW o \in Operations
    PROVE  Sound(Program[o])
<1>1. o \in {"forward", "hello_new", "hello_known", "lsu_new", "arp_request", "arp_reply",
             "arp_second", "hello_timeout", "hello_quiet", "lsu_refresh", "lsu_timeout",
             "bcast", "dijkstra", "cli_arp", "cli_route", "cli_show", "cli_lsu", "tcp_send",
             "tcp_route"}
  BY RouterThreadsAssumption
  DEF OnlyDisciplined, UndisciplinedOperations, AllOperations, Program
<1>2. CASE o \in {"forward", "hello_new", "hello_known", "lsu_new", "arp_request",
                  "arp_reply"}
  BY <1>2, GoodForward, GoodHelloNew, GoodHelloKnown, GoodLsu, GoodArpRequest,
     GoodArpReply, GoodSound
  DEF Program
<1>3. CASE o \in {"arp_second", "hello_timeout", "hello_quiet", "lsu_refresh",
                  "lsu_timeout"}
  BY <1>3, GoodArpSecond, GoodHelloTimeout, GoodHelloQuiet, SoundRefresh, GoodLsuTimeout,
     GoodSound
  DEF Program
<1>4. CASE o \in {"bcast", "dijkstra", "cli_arp", "cli_route"}
  BY <1>4, GoodBcast, GoodDijkstra, GoodArpCommand, GoodRouteCommand, GoodSound
  DEF Program
<1>5. CASE o \in {"cli_show", "cli_lsu", "tcp_send", "tcp_route"}
  BY <1>5, GoodShow, GoodSendLsu, GoodForward, GoodSource, GoodSound
  DEF Program
<1> QED
  BY <1>1, <1>2, <1>3, <1>4, <1>5

-----------------------------------------------------------------------------
(* All threads.  The inductive invariant: besides its types, the locks a   *)
(* thread holds are those its operation has taken and not given back.      *)

\* The locks held before each step of an operation.
Ann(o) == CHOOSE h : Annotates(h, {}, Program[o], {})

\* They are what the operation's annotation says.
LEMMA AnnFits ==
    ASSUME OnlyDisciplined, NEW o \in Operations
    PROVE  /\ Program[o] \in Seq(AnyStepOrDue) /\ Len(Program[o]) \in Nat \ {0}
           /\ DOMAIN Program[o] = 1 .. Len(Program[o])
           /\ Annotates(Ann(o), {}, Program[o], {})
           /\ Notices(Program[o]) /\ Quits(Program[o])
<1>1. Sound(Program[o])
  BY Disciplined
<1>2. \E h : Annotates(h, {}, Program[o], {})
  BY <1>1 DEF Sound, FitsIn
<1> QED
  BY <1>1, <1>2 DEF Sound, FitsIn, Ann

Exclusive ==
    \A t, u \in Threads, l \in Locks :
        t # u /\ <<l, "wr">> \in held[t]
            => <<l, "rd">> \notin held[u] /\ <<l, "wr">> \notin held[u]

Typed ==
    /\ op \in [Threads -> Operations \cup {"idle"}]
    /\ at \in [Threads -> Nat]
    /\ held \in [Threads -> SUBSET LockModes]
    /\ lsuq \in BOOLEAN /\ woken \in BOOLEAN /\ dirty \in BOOLEAN
    /\ stale \in BOOLEAN /\ recent \in BOOLEAN

\* A thread is idle without locks, or within an operation of its own, and
\* holds what the operation has taken.
Placed(t) ==
    \/ op[t] = "idle" /\ at[t] = 1 /\ held[t] = {}
    \/ /\ op[t] \in Operations /\ ThreadOf(op[t]) = t
       /\ at[t] \in 1 .. Len(Program[op[t]])
       /\ held[t] = Ann(op[t])[at[t] - 1]

IInv == Typed /\ Exclusive /\ (\A t \in Threads : Placed(t)) /\ ChangesAreNoticed

\* Idling is no operation.
LEMMA NotIdle == "idle" \notin Operations
BY RouterThreadsAssumption DEF AllOperations, Program

\* What is known of the step a thread is about to take.
LEMMA AtStep ==
    ASSUME OnlyDisciplined, IInv, NEW t \in Active
    PROVE  /\ t \in Threads /\ op[t] \in Operations /\ ThreadOf(op[t]) = t
           /\ at[t] \in 1 .. Len(Program[op[t]])
           /\ Len(Program[op[t]]) \in Nat \ {0}
           /\ DOMAIN Program[op[t]] = 1 .. Len(Program[op[t]])
           /\ Step(t) \in AnyStepOrDue
           /\ held[t] = Ann(op[t])[at[t] - 1]
           /\ Allowed(held[t], Step(t))
           /\ Ann(op[t])[at[t]] = HeldAfter(held[t], Step(t))
           /\ HeldAfter(held[t], Step(t)) \in SUBSET LockModes
           /\ Ann(op[t])[0] = {} /\ Ann(op[t])[Len(Program[op[t]])] = {}
           /\ Notices(Program[op[t]]) /\ Quits(Program[op[t]])
<1>1. t \in Threads /\ op[t] # "idle" /\ Placed(t)
  BY DEF Active, IInv
<1>2. /\ op[t] \in Operations /\ ThreadOf(op[t]) = t
      /\ at[t] \in 1 .. Len(Program[op[t]])
      /\ held[t] = Ann(op[t])[at[t] - 1]
  BY <1>1 DEF Placed
<1>3. /\ Program[op[t]] \in Seq(AnyStepOrDue) /\ Len(Program[op[t]]) \in Nat \ {0}
      /\ DOMAIN Program[op[t]] = 1 .. Len(Program[op[t]])
      /\ Annotates(Ann(op[t]), {}, Program[op[t]], {})
      /\ Notices(Program[op[t]]) /\ Quits(Program[op[t]])
  BY <1>2, AnnFits
<1>4. Step(t) \in AnyStepOrDue
  BY <1>2, <1>3 DEF Step
<1>5. /\ Allowed(Ann(op[t])[at[t] - 1], Step(t))
      /\ Ann(op[t])[at[t]] = HeldAfter(Ann(op[t])[at[t] - 1], Step(t))
      /\ Ann(op[t])[at[t]] \in SUBSET LockModes
      /\ Ann(op[t])[0] = {} /\ Ann(op[t])[Len(Program[op[t]])] = {}
  <2> DEFINE n == Len(Program[op[t]])
             a == Ann(op[t])
  <2>1. /\ a \in [0 .. n -> SUBSET LockModes] /\ a[0] = {} /\ a[n] = {}
        /\ \A i \in 1 .. n : /\ Allowed(a[i - 1], Program[op[t]][i])
                            /\ a[i] = HeldAfter(a[i - 1], Program[op[t]][i])
    BY <1>3 DEF Annotates
  <2>2. at[t] \in 1 .. n /\ at[t] \in 0 .. n /\ n \in Nat
    BY <1>2, <1>3
  <2> HIDE DEF n, a
  <2>3. Allowed(a[at[t] - 1], Step(t)) /\ a[at[t]] = HeldAfter(a[at[t] - 1], Step(t))
    BY <2>1, <2>2 DEF Step
  <2>4. a[at[t]] \in SUBSET LockModes
    BY <2>1, <2>2
  <2> QED
    BY <2>1, <2>3, <2>4 DEF n, a
<1> QED
  BY <1>1, <1>2, <1>3, <1>4, <1>5

\* A step that takes and gives back what it says leaves every thread placed.
LEMMA StaysPlaced ==
    ASSUME OnlyDisciplined, IInv, NEW t \in Active, GoOn(t),
           held' = [held EXCEPT ![t] = HeldAfter(held[t], Step(t))]
    PROVE  /\ op' \in [Threads -> Operations \cup {"idle"}]
           /\ at' \in [Threads -> Nat]
           /\ held' \in [Threads -> SUBSET LockModes]
           /\ \A u \in Threads : Placed(u)'
<1> DEFINE n == Len(Program[op[t]])
           T == HeldAfter(held[t], Step(t))
<1>1. /\ t \in Threads /\ op[t] \in Operations /\ ThreadOf(op[t]) = t
      /\ at[t] \in 1 .. n /\ n \in Nat \ {0} /\ T \in SUBSET LockModes
      /\ Ann(op[t])[at[t]] = T /\ Ann(op[t])[n] = {}
  BY AtStep
<1>2. Typed /\ \A u \in Threads : Placed(u)
  BY DEF IInv
<1>3. held' \in [Threads -> SUBSET LockModes] /\ held'[t] = T
      /\ \A u \in Threads \ {t} : held'[u] = held[u]
  <2> HIDE DEF T
  <2> QED
    BY <1>1, <1>2 DEF Typed, T
<1>4. CASE at[t] < n
  <2>1. op' = op /\ at' = [at EXCEPT ![t] = at[t] + 1]
    BY <1>4 DEF GoOn
  <2>2. /\ at' \in [Threads -> Nat] /\ at'[t] = at[t] + 1
        /\ \A u \in Threads \ {t} : at'[u] = at[u]
    BY <1>1, <1>2, <2>1 DEF Typed
  <2>3. at'[t] \in 1 .. n /\ at'[t] - 1 = at[t]
    BY <1>1, <1>4, <2>2
  <2>4. Placed(t)'
    BY <1>1, <1>3, <2>1, <2>3 DEF Placed
  <2>5. \A u \in Threads \ {t} : Placed(u)'
    BY <1>2, <1>3, <2>1, <2>2 DEF Placed
  <2> QED
    BY <1>2, <1>3, <2>1, <2>2, <2>4, <2>5 DEF Typed
<1>5. CASE ~(at[t] < n)
  <2>1. op' = [op EXCEPT ![t] = "idle"] /\ at' = [at EXCEPT ![t] = 1]
    BY <1>5 DEF GoOn, Return
  <2>2. at[t] = n
    BY <1>1, <1>5
  <2>3. /\ op' \in [Threads -> Operations \cup {"idle"}] /\ at' \in [Threads -> Nat]
        /\ op'[t] = "idle" /\ at'[t] = 1
        /\ \A u \in Threads \ {t} : op'[u] = op[u] /\ at'[u] = at[u]
    BY <1>1, <1>2, <2>1 DEF Typed
  <2>4. Placed(t)'
    BY <1>1, <1>3, <2>2, <2>3 DEF Placed
  <2>5. \A u \in Threads \ {t} : Placed(u)'
    BY <1>2, <1>3, <2>3 DEF Placed
  <2> QED
    BY <1>3, <2>3, <2>4, <2>5
<1> QED
  BY <1>4, <1>5

\* A thread has still to ask for the routes, or to compute them.
Pending(u) ==
    u \in Active /\ \E i \in DOMAIN Program[op[u]] :
        i >= at[u] /\ Program[op[u]][i].act \in {"trigger", "compute"}

\* A step that is neither leaves it to be done, and one that changes the links
\* or clears the flag is followed by one.
LEMMA StaysPending ==
    ASSUME OnlyDisciplined, IInv, NEW t \in Active, GoOn(t)
    PROVE  /\ \A u \in Active \ {t} : Pending(u) => Pending(u)'
           /\ Pending(t) /\ Step(t).act \notin {"trigger", "compute"} => Pending(t)'
           /\ Step(t).act \in {"change", "clear"} => Pending(t)'
<1> DEFINE n == Len(Program[op[t]])
           P == Program[op[t]]
<1>1. /\ t \in Threads /\ op[t] \in Operations /\ at[t] \in 1 .. n /\ n \in Nat \ {0}
      /\ DOMAIN P = 1 .. n /\ Notices(P)
  BY AtStep
<1>2. Typed
  BY DEF IInv
<1>3. \A u \in Threads \ {t} : op'[u] = op[u] /\ at'[u] = at[u]
  BY <1>1, <1>2 DEF GoOn, Return, Typed
<1>4. \A u \in Active \ {t} : Pending(u) => Pending(u)'
  BY <1>3 DEF Pending, Active
<1>5. ASSUME NEW i \in DOMAIN P, i > at[t], P[i].act \in {"trigger", "compute"}
      PROVE  Pending(t)'
  <2>1. at[t] < n
    BY <1>1, <1>5
  <2>2. op' = op /\ at'[t] = at[t] + 1
    BY <1>1, <1>2, <2>1 DEF GoOn, Typed
  <2>3. i >= at'[t]
    BY <1>1, <1>5, <2>2
  <2>4. t \in Active'
    BY <2>2 DEF Active
  <2> QED
    BY <1>5, <2>2, <2>3, <2>4 DEF Pending
<1>6. ASSUME Pending(t), Step(t).act \notin {"trigger", "compute"}
      PROVE  Pending(t)'
  <2>1. PICK i \in DOMAIN P : i >= at[t] /\ P[i].act \in {"trigger", "compute"}
    BY <1>6 DEF Pending
  <2>2. i # at[t]
    BY <1>6, <2>1 DEF Step
  <2> QED
    BY <1>1, <1>5, <2>1, <2>2
<1>7. ASSUME Step(t).act \in {"change", "clear"}
      PROVE  Pending(t)'
  <2>1. at[t] \in DOMAIN P /\ P[at[t]].act \in {"change", "clear"}
    BY <1>1, <1>7 DEF Step
  <2>2. PICK j \in DOMAIN P : j > at[t] /\ P[j].act \in {"trigger", "compute"}
    BY <1>1, <2>1 DEF Notices
  <2> QED
    BY <1>5, <2>2
<1> QED
  BY <1>4, <1>6, <1>7

\* Who writes a structure excludes whoever uses it, as long as a lock is given
\* only to a thread that may have it.
LEMMA StaysExclusive ==
    ASSUME Typed, Exclusive, NEW t \in Threads, NEW T \in SUBSET LockModes,
           held' = [held EXCEPT ![t] = T],
           \/ T \subseteq held[t]
           \/ \E l \in Locks, mode \in {"rd", "wr"} :
                 T = held[t] \cup {<<l, mode>>} /\ Grantable(t, l, mode)
    PROVE  Exclusive'
<1>1. held'[t] = T /\ \A u \in Threads \ {t} : held'[u] = held[u]
  BY DEF Typed
<1>2. CASE T \subseteq held[t]
  BY <1>1, <1>2 DEF Exclusive
<1>3. CASE \E l \in Locks, mode \in {"rd", "wr"} :
              T = held[t] \cup {<<l, mode>>} /\ Grantable(t, l, mode)
  <2>1. PICK l \in Locks, mode \in {"rd", "wr"} :
            T = held[t] \cup {<<l, mode>>} /\ Grantable(t, l, mode)
    BY <1>3
  <2>2. \A u \in Threads \ {t} :
            /\ <<l, "wr">> \notin held[u]
            /\ <<l, "rd">> \in held[u] => mode = "rd"
    BY <2>1 DEF Grantable
  <2>3. SUFFICES ASSUME NEW v \in Threads, NEW u \in Threads, NEW k \in Locks,
                        v # u, <<k, "wr">> \in held'[v]
                 PROVE  <<k, "rd">> \notin held'[u] /\ <<k, "wr">> \notin held'[u]
    BY DEF Exclusive
  <2>4. CASE v = t
    BY <1>1, <2>1, <2>2, <2>3, <2>4 DEF Exclusive
  <2>5. CASE u = t
    BY <1>1, <2>1, <2>2, <2>3, <2>5 DEF Exclusive
  <2>6. CASE v # t /\ u # t
    BY <1>1, <2>3, <2>6 DEF Exclusive
  <2> QED
    BY <2>4, <2>5, <2>6
<1> QED
  BY <1>2, <1>3

Noticed == stale => dirty \/ \E t \in Active : Pending(t)

LEMMA NoticedSame == ChangesAreNoticed <=> Noticed
BY DEF ChangesAreNoticed, Noticed, Pending

LEMMA InitInv == Init => IInv
<1> SUFFICES ASSUME Init PROVE IInv
  OBVIOUS
<1>1. Typed
  BY DEF Init, Typed
<1>2. Exclusive /\ \A t \in Threads : Placed(t)
  BY DEF Init, Exclusive, Placed
<1>3. ChangesAreNoticed
  BY DEF Init, ChangesAreNoticed
<1> QED
  BY <1>1, <1>2, <1>3 DEF IInv

\* A thread begins an operation without locks.
LEMMA BeginInv ==
    ASSUME OnlyDisciplined, IInv, NEW o \in Operations, Begin(o)
    PROVE  IInv'
<1> DEFINE t == ThreadOf(o)
<1>1. /\ t \in Threads /\ op[t] = "idle" /\ op' = [op EXCEPT ![t] = o]
      /\ at' = at /\ held' = held /\ lsuq' = lsuq /\ dirty' = dirty
      /\ stale' = stale /\ recent' = recent
      /\ woken' = (woken /\ o # "bcast")
  BY DEF Begin, Threads
<1>2. Typed /\ Exclusive /\ (\A u \in Threads : Placed(u)) /\ Noticed
  BY NoticedSame DEF IInv
<1>3. ThreadOf(o) = t
  OBVIOUS
<1>4. /\ Len(Program[o]) \in Nat \ {0}
      /\ Ann(o)[0] = {}
  BY AnnFits DEF Annotates
<1> HIDE DEF t
<1>5. op'[t] = o /\ \A u \in Threads \ {t} : op'[u] = op[u]
  BY <1>1, <1>2 DEF Typed
<1>6. Typed'
  BY <1>1, <1>2 DEF Typed
<1>7. Exclusive'
  BY <1>1, <1>2 DEF Exclusive
<1>8. Placed(t)'
  <2>1. at[t] = 1 /\ held[t] = {}
    BY <1>1, <1>2, NotIdle DEF Placed
  <2> QED
    BY <1>1, <1>3, <1>4, <1>5, <2>1 DEF Placed
<1>9. \A u \in Threads \ {t} : Placed(u)'
  BY <1>1, <1>2, <1>5 DEF Placed
<1>10. Noticed'
  <2>1. \A u \in Active : u # t
    BY <1>1 DEF Active
  <2>2. \A u \in Active : Pending(u) => Pending(u)'
    BY <1>1, <1>5, <2>1 DEF Pending, Active
  <2>3. Active \subseteq Active'
    BY <1>1, <1>5, <2>1 DEF Active
  <2> QED
    BY <1>1, <1>2, <2>2, <2>3 DEF Noticed
<1>11. ChangesAreNoticed'
  BY <1>10, NoticedSame, PTL
<1> QED
  BY <1>6, <1>7, <1>8, <1>9, <1>11 DEF IInv

\* What every step of a thread has in common.
LEMMA ThreadInv ==
    ASSUME OnlyDisciplined, IInv, NEW t \in Active, GoOn(t),
           held' = [held EXCEPT ![t] = HeldAfter(held[t], Step(t))],
           \/ HeldAfter(held[t], Step(t)) \subseteq held[t]
           \/ \E l \in Locks, mode \in {"rd", "wr"} :
                 /\ HeldAfter(held[t], Step(t)) = held[t] \cup {<<l, mode>>}
                 /\ Grantable(t, l, mode),
           lsuq' \in BOOLEAN, woken' \in BOOLEAN, dirty' \in BOOLEAN,
           stale' \in BOOLEAN, recent' \in BOOLEAN,
           Noticed'
    PROVE  IInv'
<1>1. /\ op' \in [Threads -> Operations \cup {"idle"}]
      /\ at' \in [Threads -> Nat]
      /\ held' \in [Threads -> SUBSET LockModes]
      /\ \A u \in Threads : Placed(u)'
  BY StaysPlaced
<1>2. Typed'
  BY <1>1 DEF Typed
<1>3. t \in Threads /\ HeldAfter(held[t], Step(t)) \in SUBSET LockModes
  BY AtStep
<1>4. Typed /\ Exclusive
  BY DEF IInv
<1> DEFINE T == HeldAfter(held[t], Step(t))
<1>5. Exclusive'
  <2>1. /\ T \in SUBSET LockModes /\ held' = [held EXCEPT ![t] = T]
        /\ \/ T \subseteq held[t]
           \/ \E l \in Locks, mode \in {"rd", "wr"} :
                 T = held[t] \cup {<<l, mode>>} /\ Grantable(t, l, mode)
    BY <1>3
  <2> HIDE DEF T
  <2> QED
    BY <1>3, <1>4, <2>1, StaysExclusive
<1>6. ChangesAreNoticed'
  BY NoticedSame, PTL
<1> QED
  BY <1>1, <1>2, <1>5, <1>6 DEF IInv

\* The refresh is due, and goes on.
Refreshes(t) == CheckDue(t) /\ ~recent

\* The steps that neither take locks nor give them back.
KeepsLocks(t) ==
    \/ Used(t) \/ DateUpdate(t) \/ Refreshes(t) \/ Enqueue(t) \/ SignalBcast(t) \/ Swap(t)
    \/ Change(t) \/ dijkstra_trigger(t) \/ ClearDirty(t) \/ compute_rtable(t)

LEMMA GoOnInv ==
    ASSUME OnlyDisciplined, IInv, NEW t \in Threads,
           Acquire(t) \/ Release(t) \/ KeepsLocks(t)
    PROVE  IInv'
<1>1. t \in Active /\ GoOn(t)
  BY DEF KeepsLocks, Acquire, Release, Used, DateUpdate, Refreshes, CheckDue, Enqueue, SignalBcast,
         Swap, Change, dijkstra_trigger, ClearDirty, compute_rtable, About
<1>2. Typed /\ Noticed
  BY NoticedSame DEF IInv
<1>3. /\ \A u \in Active \ {t} : Pending(u) => Pending(u)'
      /\ Pending(t) /\ Step(t).act \notin {"trigger", "compute"} => Pending(t)'
      /\ Step(t).act \in {"change", "clear"} => Pending(t)'
  BY <1>1, StaysPending
<1>4. \A u : Pending(u)' => u \in Active'
  BY DEF Pending
<1>5. Step(t).act \notin {"trigger",
                          "compute"} /\ stale' = stale /\ dirty' = dirty => Noticed'
  BY <1>2, <1>3, <1>4 DEF Noticed
<1>6. CASE Acquire(t)
  <2> DEFINE l == Step(t).lock
             mode == Step(t).mode
  <2>1. /\ Step(t).act = "lock" /\ Grantable(t, l, mode)
        /\ held' = [held EXCEPT ![t] = held[t] \cup {<<l, mode>>}]
        /\ UNCHANGED dataVars
    BY <1>6 DEF Acquire, About
  <2>2. l \in Locks /\ mode \in {"rd", "wr"}
    BY <1>1, <2>1, AtStep DEF AnyStepOrDue, AnyStep, Rd, Wr, Un, Do, Acts, Due
  <2>3. HeldAfter(held[t], Step(t)) = held[t] \cup {<<l, mode>>}
    BY <2>1 DEF HeldAfter
  <2>4. Noticed'
    BY <1>5, <2>1 DEF dataVars
  <2>5. /\ lsuq' \in BOOLEAN /\ woken' \in BOOLEAN /\ dirty' \in BOOLEAN
        /\ stale' \in BOOLEAN /\ recent' \in BOOLEAN
    BY <1>2, <2>1 DEF Typed, dataVars
  <2> HIDE DEF l, mode
  <2> QED
    BY <1>1, <2>1, <2>2, <2>3, <2>4, <2>5, ThreadInv
<1>7. CASE Release(t)
  <2>1. /\ Step(t).act = "unlock"
        /\ held' = [held EXCEPT ![t] = {h \in held[t] : h[1] \notin Step(t).locks}]
        /\ UNCHANGED dataVars
    BY <1>7 DEF Release, About
  <2>2. HeldAfter(held[t], Step(t)) = {h \in held[t] : h[1] \notin Step(t).locks}
    BY <2>1 DEF HeldAfter
  <2>3. HeldAfter(held[t], Step(t)) \subseteq held[t]
    BY <2>2
  <2>4. Noticed'
    BY <1>5, <2>1 DEF dataVars
  <2>5. /\ lsuq' \in BOOLEAN /\ woken' \in BOOLEAN /\ dirty' \in BOOLEAN
        /\ stale' \in BOOLEAN /\ recent' \in BOOLEAN
    BY <1>2, <2>1 DEF Typed, dataVars
  <2> QED
    BY <1>1, <2>1, <2>2, <2>3, <2>4, <2>5, ThreadInv
<1>8. CASE KeepsLocks(t)
  <2>1. held' = held /\ Step(t).act \notin {"lock", "unlock"}
    BY <1>8 DEF KeepsLocks, Used, DateUpdate, Refreshes, CheckDue, Enqueue, SignalBcast,
                Swap, Change, dijkstra_trigger, ClearDirty, compute_rtable, About, dataVars
  <2>2. HeldAfter(held[t], Step(t)) = held[t]
    BY <2>1 DEF HeldAfter
  <2>3. held' = [held EXCEPT ![t] = HeldAfter(held[t], Step(t))]
    BY <1>2, <2>1, <2>2 DEF Typed
  <2>4. /\ lsuq' \in BOOLEAN /\ woken' \in BOOLEAN /\ dirty' \in BOOLEAN
        /\ stale' \in BOOLEAN /\ recent' \in BOOLEAN
    BY <1>2, <1>8
    DEF Typed, KeepsLocks, Used, DateUpdate, Refreshes, CheckDue, Enqueue, SignalBcast,
        Swap, Change, dijkstra_trigger, ClearDirty, compute_rtable, dataVars
  <2>5. Noticed'
    <3>1. CASE Change(t) \/ ClearDirty(t)
      BY <1>3, <1>4, <3>1 DEF Noticed, Change, ClearDirty, About
    <3>2. CASE dijkstra_trigger(t) \/ compute_rtable(t)
      BY <3>2 DEF Noticed, dijkstra_trigger, compute_rtable
    <3>3. CASE ~(Change(t) \/ ClearDirty(t) \/ dijkstra_trigger(t) \/ compute_rtable(t))
      <4>1. Step(t).act \notin {"trigger", "compute"} /\ stale' = stale /\ dirty' = dirty
        BY <1>8, <3>3
        DEF KeepsLocks, Used, DateUpdate, Refreshes, CheckDue, Enqueue, SignalBcast, Swap,
            About, dataVars
      <4> QED
        BY <1>5, <4>1
    <3> QED
      BY <3>1, <3>2, <3>3
  <2> QED
    BY <1>1, <2>2, <2>3, <2>4, <2>5, ThreadInv
<1> QED
  BY <1>6, <1>7, <1>8

\* The refresh is not due yet: the thread returns, without a lock, and nobody
\* counted on it to ask for routes.
LEMMA ReturnInv ==
    ASSUME OnlyDisciplined, IInv, NEW t \in Threads, CheckDue(t), recent
    PROVE  IInv'
<1>1. /\ t \in Active /\ Step(t).act = "due" /\ Return(t)
      /\ held' = held /\ lsuq' = lsuq /\ woken' = woken /\ dirty' = dirty
      /\ stale' = stale /\ recent' = recent
  BY DEF CheckDue, About, dataVars
<1>2. Typed /\ Exclusive /\ (\A u \in Threads : Placed(u)) /\ Noticed
  BY NoticedSame DEF IInv
<1>3. /\ op' \in [Threads -> Operations \cup {"idle"}] /\ at' \in [Threads -> Nat]
      /\ op'[t] = "idle" /\ at'[t] = 1
      /\ \A u \in Threads \ {t} : op'[u] = op[u] /\ at'[u] = at[u]
  BY <1>1, <1>2 DEF Return, Typed
<1>4. Typed' /\ Exclusive'
  BY <1>1, <1>2, <1>3 DEF Typed, Exclusive
<1>5. held[t] = {}
  BY <1>1, AtStep DEF Allowed
<1>6. \A u \in Threads : Placed(u)'
  BY <1>1, <1>2, <1>3, <1>5 DEF Placed
<1>7. ~Pending(t)
  <2>1. Quits(Program[op[t]]) /\ at[t] \in DOMAIN Program[op[t]]
    BY <1>1, AtStep
  <2>2. AskFree(Program[op[t]])
    BY <1>1, <2>1 DEF Quits, Step
  <2> QED
    BY <2>2 DEF AskFree, Pending
<1>8. \A u \in Active : Pending(u) => Pending(u)' /\ u \in Active'
  BY <1>1, <1>3, <1>7 DEF Pending, Active
<1>9. Noticed'
  BY <1>1, <1>2, <1>8 DEF Noticed
<1>10. ChangesAreNoticed'
  BY <1>9, NoticedSame, PTL
<1> QED
  BY <1>4, <1>6, <1>10 DEF IInv

LEMMA AdvanceInv ==
    ASSUME OnlyDisciplined, IInv, NEW t \in Threads, Advance(t)
    PROVE  IInv'
<1>1. CASE CheckDue(t) /\ recent
  BY <1>1, ReturnInv
<1>2. CASE ~(CheckDue(t) /\ recent)
  <2>1. Acquire(t) \/ Release(t) \/ KeepsLocks(t)
    BY <1>2 DEF Advance, KeepsLocks, Refreshes
  <2> QED
    BY <2>1, GoOnInv
<1> QED
  BY <1>1, <1>2

LEMMA StepInv ==
    ASSUME OnlyDisciplined, IInv, [Next]_vars
    PROVE  IInv'
<1>1. CASE \E o \in Operations : Begin(o)
  BY <1>1, BeginInv
<1>2. CASE \E t \in Threads : Advance(t)
  BY <1>2, AdvanceInv
<1>3. CASE IntervalPasses \/ UNCHANGED vars
  <2>1. /\ op' = op /\ at' = at /\ held' = held /\ lsuq' = lsuq /\ woken' = woken
        /\ dirty' = dirty /\ stale' = stale /\ recent' \in {recent, FALSE}
    BY <1>3 DEF IntervalPasses, vars, threadVars
  <2>2. Typed' /\ Exclusive' /\ (\A u \in Threads : Placed(u)')
    BY <2>1 DEF IInv, Typed, Exclusive, Placed
  <2>3. ChangesAreNoticed'
    BY <2>1 DEF IInv, ChangesAreNoticed, Active
  <2> QED
    BY <2>2, <2>3 DEF IInv
<1> QED
  BY <1>1, <1>2, <1>3 DEF Next

\* The threads stay within their operations with the locks these have taken.
THEOREM Invariance == ASSUME OnlyDisciplined PROVE Spec => []IInv
<1>1. IInv /\ [Next]_vars => IInv'
  BY StepInv
<1> QED
  BY <1>1, InitInv, PTL DEF Spec

\* The variables have their types, and who holds a lock for writing holds it
\* alone, in every execution of any number of threads.
THEOREM TypeCorrect == ASSUME OnlyDisciplined PROVE Spec => []TypeOK
<1>1. ASSUME IInv PROVE TypeOK
  <2>1. Typed /\ Exclusive
    BY <1>1 DEF IInv
  <2>2. \A t \in Active : ThreadOf(op[t]) = t /\ at[t] \in DOMAIN Program[op[t]]
    BY <1>1, AtStep
  <2>3. \A t, u \in Threads, l \in Locks :
            t # u /\ <<l, "wr">> \in held[t] => held[u] \cap {<<l, "rd">>,
                                                              <<l, "wr">>} = {}
    BY <2>1 DEF Exclusive
  <2>4. {lsuq, woken, dirty, stale, recent} \subseteq BOOLEAN
    BY <2>1 DEF Typed
  <2>5. /\ op \in [Threads -> Operations \union {"idle"}]
        /\ held \in [Threads -> SUBSET (Locks \X {"rd", "wr"})]
    BY <2>1 DEF Typed, LockModes
  <2> QED
    BY <2>2, <2>3, <2>4, <2>5, Zenon DEF TypeOK
<1> QED
  BY <1>1, Invariance, PTL

\* No two threads ever use one structure at once, one of them writing, but for
\* the date of our last update when the refresh reads it without the mutex.
THEOREM NoRaceAlways == ASSUME OnlyDisciplined PROVE Spec => []NoRace
<1>1. ASSUME IInv PROVE NoRace
  <2>1. SUFFICES ASSUME NEW t \in Active, NEW u \in Active, t # u,
                        NEW x \in Step(t).writes, x \in Step(u).reads \cup Step(u).writes,
                        ~(Step(u).act = "due" /\ x = "updated")
                 PROVE  FALSE
    BY DEF NoRace, About
  <2>2. /\ t \in Threads /\ u \in Threads
        /\ Allowed(held[t], Step(t)) /\ Allowed(held[u], Step(u))
    BY <1>1, AtStep
  <2>3. MayWrite(held[t], x) /\ (MayRead(held[u], x) \/ MayWrite(held[u], x))
    BY <2>1, <2>2 DEF Allowed
  <2>4. \A l \in Locks : <<l, "wr">> \in held[t] => ~Holds(held[u], l)
    BY <1>1, <2>1, <2>2 DEF IInv, Exclusive, Holds
  <2> QED
    BY <2>3, <2>4 DEF MayWrite, MayRead, Holds, Locks
<1> QED
  BY <1>1, Invariance, PTL

\* No number of threads can wait for each other in a circle, nor for a lock
\* that a finished operation has kept.
THEOREM NoDeadlockAlways == ASSUME OnlyDisciplined PROVE Spec => []NoDeadlock
<1>1. ASSUME IInv PROVE NoDeadlock
  <2>1. LocksInOrder
    <3>1. SUFFICES ASSUME NEW t \in Active, Step(t).act = "lock", NEW h \in held[t]
                   PROVE  Below(h[1], Step(t).lock)
      BY DEF LocksInOrder, About, Below
    <3> QED
      BY <1>1, <3>1, AtStep DEF Allowed
  <2>2. NoLockKept
    BY <1>1, NotIdle DEF IInv, Placed, Active, NoLockKept
  <2> QED
    BY <2>1, <2>2 DEF NoDeadlock
<1> QED
  BY <1>1, Invariance, PTL

\* No change of the links is missed by the computation of routes.
THEOREM ChangesAlwaysNoticed == ASSUME OnlyDisciplined PROVE Spec => []ChangesAreNoticed
<1>1. IInv => ChangesAreNoticed
  BY DEF IInv
<1> QED
  BY <1>1, Invariance, PTL

=============================================================================
