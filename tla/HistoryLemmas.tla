---------------------------- MODULE HistoryLemmas ----------------------------
(***************************************************************************)
(* Lemmas about sequences of serial numbers: how readings move between     *)
(* adjacent queues without changing the whole, and when a sequence stays   *)
(* increasing.  The proofs about the components cite them.                 *)
(***************************************************************************)
EXTENDS Histories, Integers, SequencesExt, SequenceTheorems, TLAPS

(* The head of one queue becomes the last of the queue before it: the two    *)
(* queues together are the same sequence.                                    *)
LEMMA HeadMovesForward ==
  ASSUME NEW S, NEW t \in Seq(S), NEW u \in Seq(S), u # <<>>
  PROVE  Append(t, Head(u)) \o Tail(u) = t \o u
<1>1. /\ Head(u) \in S /\ Tail(u) \in Seq(S)
      /\ Len(Tail(u)) = Len(u) - 1
      /\ \A i \in 1..Len(Tail(u)) : Tail(u)[i] = u[i+1]
      /\ Head(u) = u[1]
  BY HeadTailProperties
<1>2. Len(u) \in Nat \ {0} /\ Len(t) \in Nat
  BY EmptySeq, LenProperties
<1> DEFINE a == Append(t, Head(u))
<1>3. /\ a \in Seq(S) /\ Len(a) = Len(t) + 1
      /\ \A i \in 1..Len(t) : a[i] = t[i]
      /\ a[Len(t)+1] = u[1]
  BY <1>1, AppendProperties
<1>4. /\ a \o Tail(u) \in Seq(S) /\ t \o u \in Seq(S)
      /\ Len(a \o Tail(u)) = Len(t \o u)
  BY <1>1, <1>2, <1>3, ConcatProperties
<1>5. ASSUME NEW i \in 1..Len(a \o Tail(u))
      PROVE  (a \o Tail(u))[i] = (t \o u)[i]
  <2> HIDE DEF a
  <2>1. (a \o Tail(u))[i] = IF i <= Len(a) THEN a[i] ELSE Tail(u)[i - Len(a)]
    BY <1>1, <1>3, <1>4, ConcatProperties
  <2>2. (t \o u)[i] = IF i <= Len(t) THEN t[i] ELSE u[i - Len(t)]
    BY <1>4, ConcatProperties
  <2>3. i \in 1..(Len(t) + Len(u))
    BY <1>4, ConcatProperties
  <2> QED
    BY <2>1, <2>2, <2>3, <1>1, <1>2, <1>3
<1> QED
  BY <1>4, <1>5, SeqEqual, Zenon

(* Appending to the last of several queues appends to the whole.             *)
LEMMA AppendToConcat ==
  ASSUME NEW S, NEW t \in Seq(S), NEW u \in Seq(S), NEW e \in S
  PROVE  t \o Append(u, e) = Append(t \o u, e)
<1>1. Append(u, e) = u \o <<e>> /\ <<e>> \in Seq(S)
  BY AppendIsConcat
<1>2. t \o u \in Seq(S)
  BY ConcatProperties
<1>3. Append(t \o u, e) = (t \o u) \o <<e>>
  BY <1>2, AppendIsConcat
<1> QED
  BY <1>1, <1>3, ConcatAssociative

(* Joining the last of two queues, or the first when the last is empty.      *)
LEMMA TwoQueues ==
  \A t, u \in Seq(Nat), e \in Nat :
    /\ t \o Append(u, e) = Append(t \o u, e)
    /\ Append(t, e) \o <<>> = Append(t \o <<>>, e)
<1> SUFFICES ASSUME NEW t \in Seq(Nat), NEW u \in Seq(Nat), NEW e \in Nat
             PROVE  /\ t \o Append(u, e) = Append(t \o u, e)
                    /\ Append(t, e) \o <<>> = Append(t \o <<>>, e)
  OBVIOUS
<1>1. t \o Append(u, e) = Append(t \o u, e)
  BY AppendToConcat
<1>2. Append(t, e) \in Seq(Nat)
  BY AppendProperties
<1>3. Append(t, e) \o <<>> = Append(t, e)
  BY <1>2, ConcatEmptySeq
<1>4. t \o <<>> = t
  BY ConcatEmptySeq
<1> QED
  BY <1>1, <1>3, <1>4, Zenon

(* Concatenation of queues of serial numbers is associative.                 *)
LEMMA QueuesAssociate ==
  \A a, b, c \in Seq(Nat) : (a \o b) \o c = a \o (b \o c)
BY ConcatAssociative

(* Three queues in a row, oldest readings first: joining the last queue or a *)
(* middle one whose successor is empty, moving from one queue to the one     *)
(* before it, and emptying one or two queues into the first.                 *)
LEMMA ThreeQueues ==
  \A s, t, u \in Seq(Nat) :
    /\ \A e \in Nat : s \o t \o Append(u, e) = Append(s \o t \o u, e)
    /\ \A e \in Nat : s \o Append(t, e) \o <<>> = Append(s \o t \o <<>>, e)
    /\ u # <<>> => s \o Append(t, Head(u)) \o Tail(u) = s \o t \o u
    /\ (s \o t) \o <<>> \o u = s \o t \o u
    /\ (s \o t \o u) \o <<>> \o <<>> = s \o t \o u
<1> SUFFICES ASSUME NEW s \in Seq(Nat), NEW t \in Seq(Nat), NEW u \in Seq(Nat)
             PROVE  /\ \A e \in Nat : s \o t \o Append(u, e) = Append(s \o t \o u, e)
                    /\ \A e \in Nat : s \o Append(t, e) \o <<>> = Append(s \o t \o <<>>, e)
                    /\ u # <<>> => s \o Append(t, Head(u)) \o Tail(u) = s \o t \o u
                    /\ (s \o t) \o <<>> \o u = s \o t \o u
                    /\ (s \o t \o u) \o <<>> \o <<>> = s \o t \o u
  OBVIOUS
<1>1. s \o t \in Seq(Nat) /\ s \o t \o u \in Seq(Nat)
  BY ConcatProperties
<1>2. ASSUME NEW e \in Nat PROVE s \o t \o Append(u, e) = Append(s \o t \o u, e)
  BY <1>1, AppendToConcat
<1>3. ASSUME NEW e \in Nat PROVE s \o Append(t, e) \o <<>> = Append(s \o t \o <<>>, e)
  <2>1. s \o Append(t, e) = Append(s \o t, e)
    BY AppendToConcat
  <2>2. Append(s \o t, e) \in Seq(Nat)
    BY <1>1, AppendProperties
  <2>3. Append(s \o t, e) \o <<>> = Append(s \o t, e)
    BY <2>2, ConcatEmptySeq
  <2>4. s \o t \o <<>> = s \o t
    BY <1>1, ConcatEmptySeq
  <2> QED
    BY <2>1, <2>3, <2>4, Zenon
<1>4. ASSUME u # <<>> PROVE s \o Append(t, Head(u)) \o Tail(u) = s \o t \o u
  <2>1. Append(t, Head(u)) \o Tail(u) = t \o u
    BY <1>4, HeadMovesForward
  <2>2. Head(u) \in Nat /\ Tail(u) \in Seq(Nat)
    BY <1>4, HeadTailProperties
  <2>3. Append(t, Head(u)) \in Seq(Nat)
    BY <2>2, AppendProperties
  <2>4. ASSUME NEW a \in Seq(Nat), NEW b \in Seq(Nat), a \o b = t \o u
        PROVE  s \o a \o b = s \o t \o u
    <3>1. (s \o a) \o b = s \o (a \o b)
      BY QueuesAssociate, Zenon
    <3>2. (s \o t) \o u = s \o (t \o u)
      BY QueuesAssociate, Zenon
    <3> QED
      BY <3>1, <3>2, <2>4, Zenon
  <2> QED
    BY <2>1, <2>2, <2>3, <2>4, Zenon
<1>5. (s \o t) \o <<>> \o u = s \o t \o u
  BY <1>1, ConcatEmptySeq, Zenon
<1>6. (s \o t \o u) \o <<>> \o <<>> = s \o t \o u
  BY <1>1, ConcatEmptySeq, Zenon
<1> QED
  BY <1>2, <1>3, <1>4, <1>5, <1>6

(* The two parts of a line are its prefix and its rest.                      *)
LEMMA SplitLine ==
  ASSUME NEW t \in Seq(Nat), NEW u \in Seq(Nat)
  PROVE  /\ Len(t) \in Nat /\ Len(t) <= Len(t \o u) /\ Len(t \o u) \in Nat
         /\ SubSeq(t \o u, 1, Len(t)) = t
         /\ SubSeq(t \o u, Len(t) + 1, Len(t \o u)) = u
<1>1. /\ Len(t) \in Nat /\ Len(u) \in Nat
      /\ t \o u \in Seq(Nat) /\ Len(t \o u) = Len(t) + Len(u)
      /\ \A i \in 1..(Len(t) + Len(u)) : (t \o u)[i] =
            IF i <= Len(t) THEN t[i] ELSE u[i - Len(t)]
      /\ \A i \in 1..Len(t \o u) : (t \o u)[i] \in Nat
  BY ConcatProperties, LenProperties, ElementOfSeq
<1>2. SubSeq(t \o u, 1, Len(t)) = t
  <2>1. /\ SubSeq(t \o u, 1, Len(t)) \in Seq(Nat)
        /\ Len(SubSeq(t \o u, 1, Len(t))) = Len(t)
        /\ \A i \in 1..Len(t) : SubSeq(t \o u, 1, Len(t))[i] = (t \o u)[i]
    BY <1>1, SubSeqProperties
  <2>2. \A i \in 1..Len(t) : (t \o u)[i] = t[i]
    BY <1>1
  <2> QED
    BY <2>1, <2>2, SeqEqual
<1>3. SubSeq(t \o u, Len(t) + 1, Len(t \o u)) = u
  <2> DEFINE r == SubSeq(t \o u, Len(t) + 1, Len(t) + Len(u))
  <2>1. /\ r \in Seq(Nat)
        /\ Len(r) = Len(u)
        /\ \A i \in 1..Len(u) : r[i] = (t \o u)[Len(t) + i]
    BY <1>1, SubSeqProperties
  <2>2. \A i \in 1..Len(u) : (t \o u)[Len(t) + i] = u[i]
    BY <1>1
  <2>3. r = u
    <3> HIDE DEF r
    <3> QED
      BY <2>1, <2>2, SeqEqual
  <2> QED
    BY <1>1, <2>3
<1> QED
  BY <1>1, <1>2, <1>3

(* The elements of a queue made of two, and of a queue with one more.        *)
LEMMA ToSetConcat ==
  ASSUME NEW S, NEW t \in Seq(S), NEW u \in Seq(S)
  PROVE  ToSet(t \o u) = ToSet(t) \cup ToSet(u)
<1>1. /\ Len(t) \in Nat /\ Len(u) \in Nat
      /\ DOMAIN t = 1..Len(t) /\ DOMAIN u = 1..Len(u)
  BY LenProperties
<1>2. /\ t \o u \in Seq(S)
      /\ Len(t \o u) = Len(t) + Len(u)
      /\ \A i \in 1..(Len(t) + Len(u)) : (t \o u)[i] =
            IF i <= Len(t) THEN t[i] ELSE u[i - Len(t)]
  BY ConcatProperties
<1>3. DOMAIN (t \o u) = 1..(Len(t) + Len(u))
  BY <1>2, LenProperties
<1>4. ASSUME NEW x \in ToSet(t \o u) PROVE x \in ToSet(t) \cup ToSet(u)
  <2>1. PICK i \in 1..(Len(t) + Len(u)) : x = (t \o u)[i]
    BY <1>3 DEF ToSet
  <2>2. CASE i <= Len(t)
    BY <2>1, <2>2, <1>1, <1>2 DEF ToSet
  <2>3. CASE ~(i <= Len(t))
    <3>1. i - Len(t) \in 1..Len(u)
      BY <2>1, <2>3, <1>1
    <3> QED
      BY <3>1, <2>1, <2>3, <1>1, <1>2 DEF ToSet
  <2> QED
    BY <2>2, <2>3
<1>5. ASSUME NEW i \in 1..Len(t) PROVE t[i] \in ToSet(t \o u)
  <2>1. i \in 1..(Len(t) + Len(u)) /\ (t \o u)[i] = t[i]
    BY <1>1, <1>2
  <2> QED
    BY <2>1, <1>3 DEF ToSet
<1>6. ASSUME NEW i \in 1..Len(u) PROVE u[i] \in ToSet(t \o u)
  <2>1. Len(t) + i \in 1..(Len(t) + Len(u)) /\ (t \o u)[Len(t) + i] = u[i]
    BY <1>1, <1>2
  <2> QED
    BY <2>1, <1>3 DEF ToSet
<1>7. ToSet(t) \subseteq ToSet(t \o u) /\ ToSet(u) \subseteq ToSet(t \o u)
  BY <1>1, <1>5, <1>6 DEF ToSet
<1> QED
  BY <1>4, <1>7

(* A larger number at the end keeps an increasing sequence increasing.       *)
LEMMA IncreasingAppend ==
  ASSUME NEW n \in Nat, NEW s \in Seq(1..n), Increasing(s)
  PROVE  Increasing(Append(s, n + 1))
<1>1. s \in Seq(Nat)
  BY SeqMonotonic
<1>2. /\ Append(s, n + 1) \in Seq(Nat)
      /\ Len(Append(s, n + 1)) = Len(s) + 1
      /\ \A i \in 1..Len(s) : Append(s, n + 1)[i] = s[i]
      /\ Append(s, n + 1)[Len(s) + 1] = n + 1
  BY <1>1, AppendProperties
<1>3. Len(s) \in Nat /\ DOMAIN s = 1..Len(s) /\ DOMAIN Append(s, n + 1) = 1..(Len(s) + 1)
  BY <1>2, LenProperties
<1>4. \A i \in 1..Len(s) : s[i] \in 1..n
  BY ElementOfSeq
<1> QED
  BY <1>2, <1>3, <1>4 DEF Increasing

(* Two adjacent parts of an increasing sequence are increasing, and every    *)
(* number of the first is smaller than every number of the second ...        *)
LEMMA IncreasingSplit ==
  ASSUME NEW t \in Seq(Nat), NEW u \in Seq(Nat), Increasing(t \o u)
  PROVE  /\ Increasing(t)
         /\ Increasing(u)
         /\ \A x \in ToSet(t), y \in ToSet(u) : x < y
<1>1. /\ Len(t) \in Nat /\ Len(u) \in Nat
      /\ DOMAIN t = 1..Len(t) /\ DOMAIN u = 1..Len(u)
  BY LenProperties
<1>2. /\ t \o u \in Seq(Nat)
      /\ Len(t \o u) = Len(t) + Len(u)
      /\ \A i \in 1..(Len(t) + Len(u)) : (t \o u)[i] =
            IF i <= Len(t) THEN t[i] ELSE u[i - Len(t)]
  BY ConcatProperties
<1>3. DOMAIN (t \o u) = 1..(Len(t) + Len(u))
  BY <1>2, LenProperties
<1>4. \A i \in 1..Len(t) : i \in DOMAIN (t \o u) /\ (t \o u)[i] = t[i]
  BY <1>1, <1>2, <1>3
<1>5. \A i \in 1..Len(u) : Len(t) + i \in DOMAIN (t \o u) /\ (t \o u)[Len(t) + i] = u[i]
  BY <1>1, <1>2, <1>3
<1>6. ASSUME NEW i \in 1..Len(t), NEW j \in 1..Len(u) PROVE t[i] < u[j]
  <2>1. i < Len(t) + j
    BY <1>1
  <2>2. (t \o u)[i] < (t \o u)[Len(t) + j]
    BY <2>1, <1>4, <1>5 DEF Increasing
  <2> QED
    BY <2>2, <1>4, <1>5
<1>7. Increasing(t)
  BY <1>1, <1>4 DEF Increasing
<1>8. ASSUME NEW i \in 1..Len(u), NEW j \in 1..Len(u), i < j PROVE u[i] < u[j]
  <2>1. Len(t) + i < Len(t) + j
    BY <1>1, <1>8
  <2>2. (t \o u)[Len(t) + i] < (t \o u)[Len(t) + j]
    BY <2>1, <1>5 DEF Increasing
  <2> QED
    BY <2>2, <1>5
<1>9. Increasing(u)
  BY <1>1, <1>8 DEF Increasing
<1>10. \A x \in ToSet(t), y \in ToSet(u) : x < y
  BY <1>1, <1>6 DEF ToSet
<1> QED
  BY <1>7, <1>9, <1>10

(* ... and two such parts make an increasing sequence.                       *)
LEMMA IncreasingJoin ==
  ASSUME NEW t \in Seq(Nat), NEW u \in Seq(Nat), Increasing(t), Increasing(u),
         \A x \in ToSet(t), y \in ToSet(u) : x < y
  PROVE  Increasing(t \o u)
<1>1. /\ Len(t) \in Nat /\ Len(u) \in Nat
      /\ DOMAIN t = 1..Len(t) /\ DOMAIN u = 1..Len(u)
  BY LenProperties
<1>2. /\ t \o u \in Seq(Nat)
      /\ Len(t \o u) = Len(t) + Len(u)
      /\ \A i \in 1..(Len(t) + Len(u)) : (t \o u)[i] =
            IF i <= Len(t) THEN t[i] ELSE u[i - Len(t)]
  BY ConcatProperties
<1>3. DOMAIN (t \o u) = 1..(Len(t) + Len(u))
  BY <1>2, LenProperties
<1>4. \A i \in 1..Len(t), j \in 1..Len(u) : t[i] < u[j]
  BY <1>1 DEF ToSet
<1> QED
  BY <1>1, <1>2, <1>3, <1>4 DEF Increasing

(* A single reading is a queue.                                              *)
LEMMA Singleton ==
  ASSUME NEW e \in Nat
  PROVE  <<e>> \in Seq(Nat) /\ ToSet(<<e>>) = {e} /\ Increasing(<<e>>)
<1>1. <<e>> \in Seq(Nat) /\ Len(<<e>>) = 1 /\ DOMAIN <<e>> = {1} /\ <<e>>[1] = e
  OBVIOUS
<1> QED
  BY <1>1 DEF ToSet, Increasing

(* A newer reading joins a queue ...                                         *)
LEMMA AppendNewest ==
  ASSUME NEW s \in Seq(Nat), Increasing(s), NEW e \in Nat, \A x \in ToSet(s) : x < e
  PROVE  /\ Append(s, e) \in Seq(Nat)
         /\ Increasing(Append(s, e))
         /\ ToSet(Append(s, e)) = ToSet(s) \cup {e}
<1>1. <<e>> \in Seq(Nat) /\ ToSet(<<e>>) = {e} /\ Increasing(<<e>>)
  BY Singleton
<1>2. Append(s, e) = s \o <<e>>
  BY AppendIsConcat
<1>3. Increasing(s \o <<e>>)
  <2>1. \A x \in ToSet(s), y \in ToSet(<<e>>) : x < y
    BY <1>1, Zenon
  <2> QED
    BY <1>1, <2>1, IncreasingJoin, Zenon
<1>4. ToSet(s \o <<e>>) = ToSet(s) \cup {e}
  <2>1. ToSet(s \o <<e>>) = ToSet(s) \cup ToSet(<<e>>)
    BY <1>1, ToSetConcat, Zenon
  <2> QED
    BY <2>1, <1>1, Zenon
<1> QED
  BY <1>2, <1>3, <1>4

(* ... and the oldest one leaves it.                                         *)
LEMMA TakeOldest ==
  ASSUME NEW s \in Seq(Nat), Increasing(s), s # <<>>
  PROVE  /\ Head(s) \in Nat /\ Tail(s) \in Seq(Nat)
         /\ Increasing(Tail(s))
         /\ ToSet(s) = {Head(s)} \cup ToSet(Tail(s))
         /\ \A x \in ToSet(Tail(s)) : Head(s) < x
<1>1. Head(s) \in Nat /\ Tail(s) \in Seq(Nat)
  BY HeadTailProperties
<1>2. <<Head(s)>> \in Seq(Nat) /\ ToSet(<<Head(s)>>) = {Head(s)}
  BY <1>1, Singleton
<1>3. s = <<Head(s)>> \o Tail(s)
  BY <1>1
<1>4. Increasing(<<Head(s)>> \o Tail(s))
  BY <1>3
<1>5. /\ Increasing(Tail(s))
      /\ \A x \in ToSet(<<Head(s)>>), y \in ToSet(Tail(s)) : x < y
  BY <1>1, <1>2, <1>4, IncreasingSplit
<1>6. ToSet(<<Head(s)>> \o Tail(s)) = ToSet(<<Head(s)>>) \cup ToSet(Tail(s))
  <2>1. ASSUME NEW a \in Seq(Nat), NEW b \in Seq(Nat)
        PROVE  ToSet(a \o b) = ToSet(a) \cup ToSet(b)
    BY ToSetConcat, Zenon
  <2> QED
    BY <1>1, <1>2, <2>1, Zenon
<1> QED
  BY <1>1, <1>2, <1>3, <1>5, <1>6

=============================================================================
