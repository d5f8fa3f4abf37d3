---------------------------- MODULE ArchiveProofs ----------------------------
(***************************************************************************)
(* Theorems about Archive: any sensors, any time zones, any retention      *)
(* period, page sizes and bounds.                                          *)
(***************************************************************************)
EXTENDS Archive, HistoryLemmas, FiniteSetTheorems

-----------------------------------------------------------------------------
(* The inductive invariant.                                                *)

Call == [pc : {"idle", "starting", "deleting", "counting", "left"},
         cutoff : -RetentionDays..MaxTime, deleted : 0..MaxRows]

ScrollType ==
  [pc : {"idle", "scrolling", "done"}, mode : {"before", "after"},
   sensor : Sensors \cup {NoScroll.sensor}, limit : Limits \cup {NoScroll.limit},
   cursor : Int, due : SUBSET Int, shown : Seq(1..MaxRows), edges : SUBSET Int]

(* The table: ids are given once, and a text is the time of the reading in *)
(* the zone of its sensor.                                                 *)
Table ==
  /\ lastId \in 0..MaxRows
  /\ rows \subseteq Rows
  /\ \A r \in rows : r.id <= lastId /\ r.recorded_at - r.taken \in Zones
  /\ \A r, q \in rows : r.id = q.id => r = q

(* The cleaner: only a call that has deleted has rows to count, and a      *)
(* cutoff, once taken, only grows older.                                   *)
Calls ==
  /\ cleanup \in [Callers -> Call]
  /\ \A c \in Callers :
       /\ cleanup[c].pc # "counting" => cleanup[c].deleted = 0
       /\ cleanup[c].pc = "deleting" => cleanup[c].cutoff <= now - RetentionDays
  /\ erasedBefore \in Nat
  /\ totalDeleted \in Nat
  /\ CountsAgree

Rest ==
  /\ now \in 0..MaxTime
  /\ program \in {"running", "stopping", "closed"}
  /\ restarts \in 0..MaxRestarts

(* A row the client has still to ask for. *)
Beyond(r) ==
  /\ r.sensor = scroll.sensor
  /\ IF scroll.mode = "before" THEN r.recorded_at < scroll.cursor
                               ELSE r.recorded_at > scroll.cursor

(* What the client was shown, it will not ask for again. *)
NotAgain == \A r \in rows : r.id \in ToSet(scroll.shown) => ~Beyond(r)

(* Nothing is lost that was due: it was shown, shares its second with the  *)
(* far end of a page, or lies beyond the cursor of a scroll that goes on.  *)
NothingSkipped ==
  \A r \in rows : r.id \in scroll.due =>
    \/ r.id \in ToSet(scroll.shown)
    \/ r.recorded_at \in scroll.edges
    \/ scroll.pc = "scrolling" /\ Beyond(r)

Scroll ==
  /\ scroll \in ScrollType
  /\ scroll.pc # "idle" => scroll.limit \in Limits
  /\ IsInjective(scroll.shown)
  /\ \A id \in ToSet(scroll.shown) \cup scroll.due : id <= lastId
  /\ scroll.pc = "scrolling" => NotAgain
  /\ NothingSkipped

IInv == Table /\ Calls /\ Rest /\ Scroll

(* No row has the id of an erased one.  Nothing else rests on it. *)
NoIdAgain == erased \subseteq 1..lastId /\ \A r \in rows : r.id \notin erased

-----------------------------------------------------------------------------
(* Pages.                                                                  *)

(* A page of limit rows: different rows of those found, none before one    *)
(* that precedes it, none that a row left out precedes; all of them if     *)
(* they are fewer than the limit.                                          *)
LEMMA PageOf ==
  ASSUME NEW found, IsFiniteSet(found), NEW order, NEW limit \in Nat \ {0},
         NEW page \in OrderLimit(found, order, limit)
  PROVE  /\ page \in Seq(found)
         /\ \A i, j \in 1..Len(page) : page[i] = page[j] => i = j
         /\ \A i, j \in 1..Len(page) : i < j => ~Precedes(page[j], page[i], order)
         /\ \A r \in found \ ToSet(page) :
              \A i \in 1..Len(page) : ~Precedes(r, page[i], order)
         /\ Len(page) < limit => ToSet(page) = found
<1> DEFINE size == IF limit < Cardinality(found) THEN limit ELSE Cardinality(found)
<1>1. /\ page \in SetToAllKPermutations(found)
      /\ Len(page) = size
      /\ \A i, j \in DOMAIN page : i < j => ~Precedes(page[j], page[i], order)
      /\ \A r \in found \ ToSet(page) : \A i \in DOMAIN page : ~Precedes(r, page[i], order)
  BY DEF OrderLimit
<1>2. PICK shown \in SUBSET found : page \in SetToSeqs(shown)
  BY <1>1 DEF SetToAllKPermutations
<1>3. /\ IsFiniteSet(shown) /\ Cardinality(shown) \in Nat /\ Cardinality(found) \in Nat
      /\ Cardinality(shown) = Cardinality(found) => shown = found
  BY FS_Subset, FS_CardinalityType
<1>4. /\ page \in [1..Cardinality(shown) -> shown]
      /\ \A i, j \in 1..Cardinality(shown) : i # j => page[i] # page[j]
  BY <1>2 DEF SetToSeqs
<1>5. /\ page \in Seq(found) /\ DOMAIN page = 1..Len(page) /\ Len(page) = Cardinality(shown)
  <2>1. page \in Seq(shown) /\ Len(page) = Cardinality(shown)
    BY <1>3, <1>4
  <2> QED
    BY <2>1, SeqMonotonic
<1>6. \A i, j \in 1..Len(page) : page[i] = page[j] => i = j
  BY <1>4, <1>5
<1>7. ASSUME Len(page) < limit PROVE ToSet(page) = found
  <2>1. shown = found /\ Cardinality(found) = Cardinality(shown)
    BY <1>1, <1>3, <1>5, <1>7
  <2>2. page \in Injection(1..Cardinality(shown), shown)
    BY <1>4 DEF Injection, IsInjective
  <2>3. Cardinality(1..Cardinality(shown)) = Cardinality(shown)
    BY <1>3, FS_Interval
  <2>4. page \in Surjection(1..Cardinality(shown), shown)
    BY <1>3, <2>2, <2>3, FS_Injection
  <2>5. \A r \in shown : \E i \in 1..Cardinality(shown) : page[i] = r
    BY <2>4 DEF Surjection
  <2> QED
    BY <1>4, <1>5, <2>1, <2>5 DEF ToSet
<1> QED
  BY <1>1, <1>5, <1>6, <1>7

LEMMA ReversedPage ==
  ASSUME NEW S, NEW s \in Seq(S)
  PROVE  /\ Reverse(s) \in Seq(S)
         /\ Len(Reverse(s)) = Len(s)
         /\ \A i \in 1..Len(s) : /\ Len(s) - i + 1 \in 1..Len(s)
                                 /\ Reverse(s)[i] = s[Len(s) - i + 1]
         /\ ToSet(Reverse(s)) = ToSet(s)
<1> PICK n \in Nat : n = Len(s)
  OBVIOUS
<1>1. /\ s \in [1..n -> S] /\ DOMAIN s = 1..n
  OBVIOUS
<1>2. \A i \in 1..n : n - i + 1 \in 1..n /\ n - (n - i + 1) + 1 = i
  OBVIOUS
<1>3. /\ Reverse(s) \in [1..n -> S]
      /\ \A i \in 1..n : Reverse(s)[i] = s[n - i + 1]
  BY <1>1, <1>2 DEF Reverse
<1>4. Reverse(s) \in Seq(S) /\ Len(Reverse(s)) = n /\ DOMAIN Reverse(s) = 1..n
  BY <1>3
<1>5. \A i \in 1..n : s[i] = Reverse(s)[n - i + 1]
  BY <1>2, <1>3
<1>6. ToSet(Reverse(s)) = ToSet(s)
  <2>1. \A x \in ToSet(s) : x \in ToSet(Reverse(s))
    BY <1>1, <1>2, <1>4, <1>5 DEF ToSet
  <2>2. \A x \in ToSet(Reverse(s)) : x \in ToSet(s)
    BY <1>1, <1>2, <1>3, <1>4 DEF ToSet
  <2> QED
    BY <2>1, <2>2
<1> QED
  BY <1>2, <1>3, <1>4, <1>6

(* Each row has its own id, so the table is finite and no longer than the  *)
(* ids given.                                                              *)
LEMMA TableFinite ==
  ASSUME Table
  PROVE  IsFiniteSet(rows) /\ Cardinality(rows) \in Nat /\ Cardinality(rows) <= lastId
<1> DEFINE idOf == [r \in rows |-> r.id]
<1>1. lastId \in Nat /\ IsFiniteSet(1..lastId) /\ Cardinality(1..lastId) = lastId
  <2>1. lastId \in Nat
    BY ArchiveAssumption DEF Table, ArchiveAssumption
  <2> QED
    BY <2>1, FS_Interval
<1>2. idOf \in Injection(rows, 1..lastId)
  <2>1. \A r \in rows : r.id \in 1..lastId
    BY <1>1, ArchiveAssumption DEF Table, Rows, ArchiveAssumption
  <2>2. \A r, q \in rows : r.id = q.id => r = q
    BY DEF Table
  <2> QED
    BY <2>1, <2>2 DEF Injection, IsInjective
<1> HIDE DEF idOf
<1> QED
  BY <1>1, <1>2, FS_Injection, FS_CardinalityType

-----------------------------------------------------------------------------
(* The answer to a request for a page.                                     *)

FarEnd(page) ==
  IF scroll.mode = "before" THEN page[Len(page)].recorded_at ELSE page[1].recorded_at

(* Time t is as far as the row, or farther, the way the client scrolls. *)
ReachedBy(t, r) ==
  IF scroll.mode = "before" THEN t <= r.recorded_at ELSE t >= r.recorded_at

(* A page has different rows beyond the cursor.  Its far end is as far as   *)
(* any of them, and rows left out are not nearer; a page that has no far    *)
(* end, or after which there is no more, leaves none out.                   *)
LEMMA Answer ==
  ASSUME Table, Scroll, scroll.pc = "scrolling", NEW page \in queryHistoricalStore
  PROVE  /\ page \in Seq(rows)
         /\ \A i, j \in 1..Len(page) : page[i] = page[j] => i = j
         /\ \A r \in ToSet(page) : Beyond(r)
         /\ HasMore(page) =>
              /\ \E r \in ToSet(page) : FarEnd(page) = r.recorded_at
              /\ \A r \in ToSet(page) : ReachedBy(FarEnd(page), r)
              /\ \A r \in rows \ ToSet(page) :
                   Beyond(r) => r.recorded_at = FarEnd(page) \/ ~ReachedBy(FarEnd(page), r)
         /\ ~HasMore(page) => \A r \in rows : Beyond(r) => r \in ToSet(page)
<1> DEFINE found == {r \in rows : Beyond(r)}
<1>0. /\ scroll.limit \in Nat \ {0} /\ scroll.mode \in {"before", "after"} /\ scroll.cursor \in Int
      /\ \A r \in rows : r.recorded_at \in Int
  <2>1. /\ scroll.mode \in {"before", "after"} /\ scroll.cursor \in Int /\ scroll.limit \in Limits
    BY DEF Scroll, ScrollType
  <2>2. \A r \in rows : r.recorded_at \in Int
    BY ArchiveAssumption DEF Table, Rows, Texts, ArchiveAssumption
  <2> QED
    BY <2>1, <2>2, ArchiveAssumption DEF ArchiveAssumption
<1>1. IsFiniteSet(found) /\ found \subseteq rows
  BY TableFinite, FS_Subset
<1>2. CASE scroll.mode = "before"
  <2>1. page \in OrderLimit(found, "DESC", scroll.limit)
    <3>1. found = {r \in rows : r.sensor = scroll.sensor /\ r.recorded_at < scroll.cursor}
      BY <1>2 DEF Beyond
    <3> HIDE DEF found
    <3> QED
      BY <1>2, <3>1 DEF queryHistoricalStore, GetReadingsBefore
  <2> HIDE DEF found
  <2>2. /\ page \in Seq(found)
        /\ \A i, j \in 1..Len(page) : page[i] = page[j] => i = j
        /\ \A i, j \in 1..Len(page) : i < j => ~Precedes(page[j], page[i], "DESC")
        /\ \A r \in found \ ToSet(page) :
             \A i \in 1..Len(page) : ~Precedes(r, page[i], "DESC")
        /\ Len(page) < scroll.limit => ToSet(page) = found
    BY <1>0, <1>1, <2>1, PageOf
  <2>3. /\ page \in Seq(rows) /\ Len(page) \in Nat
        /\ \A i \in 1..Len(page) : page[i] \in found
        /\ ToSet(page) = {page[i] : i \in 1..Len(page)}
    BY <1>1, <2>2, SeqMonotonic, ElementOfSeq DEF ToSet
  <2>4. \A r \in found : r \in rows /\ Beyond(r)
    BY DEF found
  <2>5. \A r \in rows : Beyond(r) => r \in found
    BY DEF found
  <2>6. ASSUME HasMore(page)
        PROVE  /\ \E r \in ToSet(page) : FarEnd(page) = r.recorded_at
               /\ \A r \in ToSet(page) : ReachedBy(FarEnd(page), r)
               /\ \A r \in rows \ ToSet(page) :
                    Beyond(r) => r.recorded_at = FarEnd(page) \/ ~ReachedBy(FarEnd(page), r)
    <3> PICK n \in 1..Len(page) : n = Len(page)
      BY <1>0, <2>3, <2>6 DEF HasMore
    <3>1. FarEnd(page) = page[n].recorded_at /\ page[n] \in rows
      BY <1>2, <2>3, <2>4 DEF FarEnd
    <3>2. \A i \in 1..Len(page) : ReachedBy(FarEnd(page), page[i])
      <4> TAKE i \in 1..Len(page)
      <4>1. i = n \/ ~Precedes(page[n], page[i], "DESC")
        BY <2>2, <2>3
      <4> QED
        BY <1>0, <1>2, <2>3, <2>4, <3>1, <4>1 DEF Precedes, ReachedBy
    <3>3. \A r \in found \ ToSet(page) :
            r.recorded_at = FarEnd(page) \/ ~ReachedBy(FarEnd(page), r)
      BY <1>0, <1>2, <2>2, <2>4, <3>1 DEF Precedes, ReachedBy
    <3> QED
      BY <2>3, <2>5, <3>1, <3>2, <3>3
  <2>7. ~HasMore(page) => ToSet(page) = found
    BY <1>0, <2>2, <2>3 DEF HasMore
  <2> QED
    BY <2>2, <2>3, <2>4, <2>5, <2>6, <2>7
<1>3. CASE scroll.mode = "after"
  <2>1. PICK p \in OrderLimit(found, "ASC", scroll.limit) : page = Reverse(p)
    <3>1. found = {r \in rows : r.sensor = scroll.sensor /\ r.recorded_at > scroll.cursor}
      BY <1>3 DEF Beyond
    <3> HIDE DEF found
    <3> QED
      BY <1>3, <3>1 DEF queryHistoricalStore, GetReadingsAfter
  <2> HIDE DEF found
  <2>2. /\ p \in Seq(found)
        /\ \A i, j \in 1..Len(p) : p[i] = p[j] => i = j
        /\ \A i, j \in 1..Len(p) : i < j => ~Precedes(p[j], p[i], "ASC")
        /\ \A r \in found \ ToSet(p) :
             \A i \in 1..Len(p) : ~Precedes(r, p[i], "ASC")
        /\ Len(p) < scroll.limit => ToSet(p) = found
    BY <1>0, <1>1, <2>1, PageOf
  <2>8. /\ page \in Seq(found) /\ Len(page) = Len(p) /\ Len(p) \in Nat /\ ToSet(page) = ToSet(p)
        /\ \A i \in 1..Len(p) : Len(p) - i + 1 \in 1..Len(p) /\ page[i] = p[Len(p) - i + 1]
    BY <2>1, <2>2, ReversedPage
  <2>3. /\ page \in Seq(rows)
        /\ \A i \in 1..Len(p) : p[i] \in found
        /\ ToSet(page) = {p[i] : i \in 1..Len(p)}
    <3>1. DOMAIN p = 1..Len(p) /\ \A i \in 1..Len(p) : p[i] \in found
      BY <2>2
    <3>2. ToSet(p) = {p[i] : i \in 1..Len(p)}
      BY <3>1 DEF ToSet
    <3> QED
      BY <1>1, <2>8, <3>1, <3>2, SeqMonotonic
  <2>9. \A i, j \in 1..Len(page) : page[i] = page[j] => i = j
    <3> SUFFICES ASSUME NEW i \in 1..Len(p), NEW j \in 1..Len(p), page[i] = page[j] PROVE i = j
      BY <2>8
    <3>1. Len(p) - i + 1 = Len(p) - j + 1
      BY <2>2, <2>8
    <3> QED
      BY <2>8, <3>1
  <2>4. \A r \in found : r \in rows /\ Beyond(r)
    BY DEF found
  <2>5. \A r \in rows : Beyond(r) => r \in found
    BY DEF found
  <2>6. ASSUME HasMore(page)
        PROVE  /\ \E r \in ToSet(page) : FarEnd(page) = r.recorded_at
               /\ \A r \in ToSet(page) : ReachedBy(FarEnd(page), r)
               /\ \A r \in rows \ ToSet(page) :
                    Beyond(r) => r.recorded_at = FarEnd(page) \/ ~ReachedBy(FarEnd(page), r)
    <3> PICK n \in 1..Len(p) : n = Len(p)
      BY <1>0, <2>8, <2>6 DEF HasMore
    <3>1. FarEnd(page) = p[n].recorded_at /\ p[n] \in rows
      <4>1. 1 \in 1..Len(p) /\ Len(p) - 1 + 1 = n
        BY <2>8
      <4>2. page[1] = p[n]
        BY <2>8, <4>1
      <4> QED
        BY <1>3, <2>3, <2>4, <4>2 DEF FarEnd
    <3>2. \A i \in 1..Len(p) : ReachedBy(FarEnd(page), p[i])
      <4> TAKE i \in 1..Len(p)
      <4>1. i = n \/ ~Precedes(p[n], p[i], "ASC")
        BY <2>2, <2>8
      <4> QED
        BY <1>0, <1>3, <2>3, <2>4, <3>1, <4>1 DEF Precedes, ReachedBy
    <3>3. \A r \in found \ ToSet(p) :
            r.recorded_at = FarEnd(page) \/ ~ReachedBy(FarEnd(page), r)
      BY <1>0, <1>3, <2>2, <2>4, <3>1 DEF Precedes, ReachedBy
    <3> QED
      BY <2>3, <2>5, <2>8, <3>1, <3>2, <3>3
  <2>7. ~HasMore(page) => ToSet(page) = found
    BY <1>0, <2>2, <2>8 DEF HasMore
  <2> QED
    BY <2>3, <2>4, <2>5, <2>6, <2>7, <2>9
<1> QED
  BY <1>0, <1>2, <1>3

-----------------------------------------------------------------------------
(* The invariant holds at the start.                                       *)

LEMMA Inits == Init => IInv
<1> SUFFICES ASSUME Init PROVE IInv
  OBVIOUS
<1>0. {MaxRows, MaxTime, MaxRestarts, RetentionDays} \subseteq Nat
  BY ArchiveAssumption DEF ArchiveAssumption
<1>1. Table
  BY <1>0 DEF Init, Table
<1>2. Rest
  BY <1>0 DEF Init, Rest
<1>3. Calls
  <2>1. cleanup \in [Callers -> Call]
    BY <1>0 DEF Init, Call
  <2>2. \A c \in Callers : cleanup[c].deleted = 0 /\ cleanup[c].pc # "deleting"
    BY DEF Init
  <2>3. CountsAgree
    BY <2>2, FS_EmptySet DEF Init, CountsAgree, ErasedSoFar, Callers
  <2> QED
    BY <2>1, <2>2, <2>3 DEF Init, Calls
<1>4. Scroll
  <2>1. scroll = NoScroll
    BY DEF Init
  <2>2. scroll.pc = "idle" /\ scroll.due = {} /\ scroll.shown = <<>>
    BY <2>1 DEF NoScroll
  <2>3. scroll \in ScrollType
    <3>1. <<>> \in Seq(1..MaxRows)
      OBVIOUS
    <3> QED
      BY <2>1, <3>1 DEF NoScroll, ScrollType
  <2>4. IsInjective(scroll.shown) /\ ToSet(scroll.shown) = {}
    BY <2>2 DEF IsInjective, ToSet
  <2> QED
    BY <2>2, <2>3, <2>4 DEF Scroll, NothingSkipped
<1> QED
  BY <1>1, <1>2, <1>3, <1>4 DEF IInv

-----------------------------------------------------------------------------
(* What a step leaves alone stays as it was.                               *)

LEMMA SameTable ==
  ASSUME Table, rows' \subseteq rows, lastId' = lastId
  PROVE  Table'
BY DEF Table

(* The client's view only depends on its own state and on what was erased. *)
LEMMA SameScroll ==
  ASSUME Scroll, scroll' = scroll, rows' \subseteq rows, lastId' = lastId
  PROVE  Scroll'
<1>1. \A r \in rows' : Beyond(r)' <=> Beyond(r)
  BY DEF Beyond
<1>2. NotAgain => NotAgain'
  BY <1>1 DEF NotAgain
<1>3. NothingSkipped => NothingSkipped'
  BY <1>1 DEF NothingSkipped
<1> QED
  BY <1>2, <1>3 DEF Scroll

LEMMA SameCalls ==
  ASSUME Table, Calls, Rest, Rest', UNCHANGED <<rows, lastId, cleanup, totalDeleted, erasedBefore>>,
         now <= now'
  PROVE  Calls'
<1>1. CountsAgree'
  BY DEF Calls, CountsAgree, ErasedSoFar
<1>2. \A c \in Callers : cleanup[c].pc = "deleting" => cleanup[c].cutoff <= now' - RetentionDays
  <2> SUFFICES ASSUME NEW c \in Callers, cleanup[c].pc = "deleting"
               PROVE  cleanup[c].cutoff <= now' - RetentionDays
    OBVIOUS
  <2>1. cleanup[c].cutoff \in -RetentionDays..MaxTime /\ cleanup[c].cutoff <= now - RetentionDays
    BY DEF Calls, Call
  <2>2. RetentionDays \in Nat /\ now \in Nat /\ now' \in Nat /\ MaxTime \in Nat
    BY ArchiveAssumption DEF Rest, ArchiveAssumption
  <2> QED
    BY <2>1, <2>2
<1> QED
  BY <1>1, <1>2 DEF Calls

-----------------------------------------------------------------------------
(* One lemma for each action.                                              *)

LEMMA Inserts ==
  ASSUME IInv, InsertReading
  PROVE  IInv'
<1>0. /\ {MaxRows, MaxTime, MaxRestarts, RetentionDays} \subseteq Nat /\ Zones \subseteq Int
      /\ lastId \in Nat /\ lastId + 1 \in 1..MaxRows /\ now \in 0..MaxTime
  BY ArchiveAssumption DEF IInv, Table, Rest, ArchiveAssumption, InsertReading
<1>1. PICK s \in Sensors, taken \in 0..now, z \in Zones :
        rows' = rows \cup {[id |-> lastId + 1, sensor |-> s, taken |-> taken,
                            recorded_at |-> taken + z]}
  BY DEF InsertReading, NewId, Stored
<1>2. /\ lastId' = lastId + 1
      /\ UNCHANGED <<now, program, cleanup, totalDeleted, restarts, erasedBefore, scroll>>
  BY DEF InsertReading
<1> DEFINE new == [id |-> lastId + 1, sensor |-> s, taken |-> taken, recorded_at |-> taken + z]
<1>3. /\ new \in Rows /\ new.id = lastId + 1 /\ new.recorded_at - new.taken = z
      /\ rows' = rows \cup {new}
  <2>1. taken \in 0..MaxTime /\ taken + z \in Texts /\ (taken + z) - taken = z
    BY <1>0 DEF Texts
  <2> QED
    BY <1>0, <1>1, <2>1 DEF Rows
<1> HIDE DEF new
<1>4. \A r \in rows : r.id <= lastId /\ r.id < new.id /\ r.id \in Nat
  BY <1>0, <1>3 DEF IInv, Table, Rows
<1>5. Table'
  <2>1. \A r \in rows : r.id <= lastId + 1
    BY <1>0, <1>3, <1>4
  <2>2. \A r, q \in rows \cup {new} : r.id = q.id => r = q
    BY <1>0, <1>3, <1>4 DEF IInv, Table
  <2>3. \A r \in rows \cup {new} : r.id <= lastId + 1 /\ r.recorded_at - r.taken \in Zones
    BY <1>0, <1>1, <1>3, <2>1 DEF IInv, Table
  <2>4. rows \cup {new} \subseteq Rows /\ lastId + 1 \in 0..MaxRows
    BY <1>0, <1>3 DEF IInv, Table
  <2> QED
    BY <1>2, <1>3, <2>2, <2>3, <2>4 DEF Table
<1>6. Rest'
  BY <1>2 DEF IInv, Rest
<1>7. Calls'
  <2>1. /\ IsFiniteSet(rows) /\ Cardinality(rows) \in Nat /\ new \notin rows
    BY <1>0, <1>4, TableFinite DEF IInv
  <2>2. Cardinality(rows') = Cardinality(rows) + 1
    BY <1>3, <2>1, FS_AddElement
  <2>3. ErasedSoFar' = ErasedSoFar
    BY <1>0, <1>2, <2>1, <2>2 DEF ErasedSoFar
  <2> QED
    BY <1>2, <2>3 DEF IInv, Calls, CountsAgree
<1>8. Scroll'
  <2>1. \A r \in rows : Beyond(r)' <=> Beyond(r)
    BY <1>2 DEF Beyond
  <2>2. /\ \A id \in ToSet(scroll.shown) \cup scroll.due : id \in Int /\ id <= lastId
    <3>1. /\ scroll.due \subseteq Int /\ scroll.shown \in Seq(1..MaxRows)
          /\ \A id \in ToSet(scroll.shown) \cup scroll.due : id <= lastId
      BY DEF IInv, Scroll, ScrollType
    <3>2. ToSet(scroll.shown) \subseteq Int
      BY <1>0, <3>1 DEF ToSet
    <3> QED
      BY <3>1, <3>2
  <2>3. /\ new.id \notin ToSet(scroll.shown) \cup scroll.due
        /\ \A id \in ToSet(scroll.shown) \cup scroll.due : id <= lastId + 1
    BY <1>0, <1>3, <2>2
  <2>4. NotAgain => NotAgain'
    BY <1>2, <1>3, <2>1, <2>3 DEF NotAgain
  <2>5. NothingSkipped'
    BY <1>2, <1>3, <2>1, <2>3 DEF IInv, Scroll, NothingSkipped
  <2> QED
    BY <1>2, <2>3, <2>4, <2>5 DEF IInv, Scroll
<1> QED
  BY <1>5, <1>6, <1>7, <1>8 DEF IInv

LEMMA Ticks ==
  ASSUME IInv, Tick
  PROVE  IInv'
<1>1. /\ now' = now + 1 /\ now < MaxTime
      /\ UNCHANGED <<rows, lastId, program, cleanup, totalDeleted, restarts, erasedBefore, scroll>>
  BY DEF Tick
<1>2. now \in 0..MaxTime /\ MaxTime \in Nat
  BY ArchiveAssumption DEF IInv, Rest, ArchiveAssumption
<1>3. now' \in 0..MaxTime /\ now <= now'
  BY <1>1, <1>2
<1>4. Rest'
  BY <1>1, <1>3 DEF IInv, Rest
<1> QED
  BY <1>1, <1>3, <1>4, SameTable, SameScroll, SameCalls DEF IInv

LEMMA Calling ==
  ASSUME IInv, NEW c \in Callers, CallCleanup(c)
  PROVE  IInv'
<1> PICK t : t = now - RetentionDays
  OBVIOUS
<1>1. /\ cleanup[c].pc \in {"starting", "idle"}
      /\ cleanup' = [cleanup EXCEPT ![c].pc = "deleting", ![c].cutoff = t]
      /\ UNCHANGED <<rows, lastId, now, program, totalDeleted, restarts, erasedBefore, scroll>>
  BY DEF CallCleanup
<1>2. cleanup \in [Callers -> Call] /\ cleanup[c] \in Call
  BY DEF IInv, Calls
<1>3. t \in -RetentionDays..MaxTime /\ t <= now - RetentionDays
  BY ArchiveAssumption DEF IInv, Rest, ArchiveAssumption
<1>4. /\ cleanup' \in [Callers -> Call]
      /\ cleanup'[c].pc = "deleting" /\ cleanup'[c].cutoff = t
      /\ \A d \in Callers : cleanup'[d].deleted = cleanup[d].deleted
      /\ \A d \in Callers \ {c} : cleanup'[d] = cleanup[d]
  BY <1>1, <1>2, <1>3 DEF Call
<1>5. cleanup[c].deleted = 0
  BY <1>1 DEF IInv, Calls
<1>6. Calls'
  <2>1. CountsAgree'
    BY <1>1, <1>4 DEF IInv, Calls, CountsAgree, ErasedSoFar, Callers
  <2>2. \A d \in Callers :
          /\ cleanup'[d].pc # "counting" => cleanup'[d].deleted = 0
          /\ cleanup'[d].pc = "deleting" => cleanup'[d].cutoff <= now - RetentionDays
    BY <1>3, <1>4, <1>5 DEF IInv, Calls
  <2> QED
    BY <1>1, <1>4, <2>1, <2>2 DEF IInv, Calls
<1>7. Table' /\ Rest' /\ Scroll'
  BY <1>1, SameTable, SameScroll DEF IInv, Rest
<1> QED
  BY <1>6, <1>7 DEF IInv

(* The rows that go are counted by the call that takes them. *)
LEMMA Deletes ==
  ASSUME IInv, NEW c \in Callers, DeleteOlderThan(c)
  PROVE  IInv'
<1> PICK gone : gone = Expired(cleanup[c].cutoff)
  OBVIOUS
<1> PICK n : n = Cardinality(gone)
  OBVIOUS
<1>1. /\ cleanup[c].pc = "deleting"
      /\ rows' = rows \ gone
      /\ cleanup' = [cleanup EXCEPT ![c].pc = "counting", ![c].cutoff = 0, ![c].deleted = n]
      /\ UNCHANGED <<lastId, now, program, totalDeleted, restarts, erasedBefore, scroll>>
  BY DEF DeleteOlderThan
<1>2. cleanup \in [Callers -> Call] /\ cleanup[c] \in Call /\ cleanup[c].deleted = 0
  BY <1>1 DEF IInv, Calls
<1>3. /\ IsFiniteSet(rows) /\ Cardinality(rows) \in Nat /\ gone \subseteq rows
      /\ Cardinality(rows) <= lastId
  BY TableFinite DEF IInv, Expired
<1>4. /\ n \in Nat /\ n <= Cardinality(rows)
      /\ Cardinality(rows') = Cardinality(rows) - n
  <2>1. rows \cap gone = gone
    BY <1>3
  <2>2. n \in Nat /\ n <= Cardinality(rows)
    BY <1>3, FS_Subset, FS_CardinalityType
  <2>3. Cardinality(rows \ gone) = Cardinality(rows) - Cardinality(rows \cap gone)
    BY <1>3, FS_Difference
  <2> QED
    BY <1>1, <2>1, <2>2, <2>3
<1>5. n \in 0..MaxRows /\ 0 \in -RetentionDays..MaxTime /\ lastId \in Nat
  BY <1>3, <1>4, ArchiveAssumption DEF IInv, Table, ArchiveAssumption
<1>6. /\ cleanup' \in [Callers -> Call]
      /\ cleanup'[c].pc = "counting" /\ cleanup'[c].deleted = n
      /\ \A d \in Callers \ {c} : cleanup'[d] = cleanup[d]
  BY <1>1, <1>2, <1>5 DEF Call
<1>7. Calls'
  <2>1. ErasedSoFar' = ErasedSoFar + n
    BY <1>1, <1>3, <1>4, <1>5 DEF ErasedSoFar
  <2>2. /\ erasedBefore \in Nat /\ totalDeleted \in Nat /\ ErasedSoFar \in Int
        /\ \A d \in Callers : cleanup[d].deleted \in Int
    BY <1>2, <1>3, <1>5 DEF IInv, Calls, Call, ErasedSoFar
  <2>3. ErasedSoFar - erasedBefore =
          totalDeleted + cleanup["loop"].deleted + cleanup["manual"].deleted
    BY DEF IInv, Calls, CountsAgree
  <2>4. CountsAgree'
    <3>1. CASE c = "loop"
      <4>1. cleanup'["loop"].deleted = n /\ cleanup'["manual"].deleted = cleanup["manual"].deleted
            /\ cleanup["loop"].deleted = 0 /\ cleanup["manual"].deleted \in Int
        BY <1>2, <1>6, <2>2, <3>1 DEF Callers
      <4> QED
        BY <1>1, <1>4, <2>1, <2>2, <2>3, <4>1 DEF CountsAgree
    <3>2. CASE c = "manual"
      <4>1. cleanup'["manual"].deleted = n /\ cleanup'["loop"].deleted = cleanup["loop"].deleted
            /\ cleanup["manual"].deleted = 0 /\ cleanup["loop"].deleted \in Int
        BY <1>2, <1>6, <2>2, <3>2 DEF Callers
      <4> QED
        BY <1>1, <1>4, <2>1, <2>2, <2>3, <4>1 DEF CountsAgree
    <3> QED
      BY <3>1, <3>2 DEF Callers
  <2>5. \A d \in Callers :
          /\ cleanup'[d].pc # "counting" => cleanup'[d].deleted = 0
          /\ cleanup'[d].pc = "deleting" => cleanup'[d].cutoff <= now - RetentionDays
    BY <1>6 DEF IInv, Calls
  <2> QED
    BY <1>1, <1>6, <2>4, <2>5 DEF IInv, Calls
<1>8. Table' /\ Rest' /\ Scroll'
  <2>1. rows' \subseteq rows
    BY <1>1
  <2> QED
    BY <1>1, <2>1, SameTable, SameScroll DEF IInv, Rest
<1> QED
  BY <1>7, <1>8 DEF IInv

LEMMA Failing ==
  ASSUME IInv, NEW c \in Callers, DeleteFails(c)
  PROVE  IInv'
<1>1. /\ cleanup[c].pc = "deleting"
      /\ cleanup' = [cleanup EXCEPT ![c].pc = "idle", ![c].cutoff = 0]
      /\ UNCHANGED <<rows, lastId, now, program, totalDeleted, restarts, erasedBefore, scroll>>
  BY DEF DeleteFails
<1>2. cleanup \in [Callers -> Call] /\ cleanup[c] \in Call /\ cleanup[c].deleted = 0
  BY <1>1 DEF IInv, Calls
<1>3. 0 \in -RetentionDays..MaxTime
  BY ArchiveAssumption DEF ArchiveAssumption
<1>4. /\ cleanup' \in [Callers -> Call]
      /\ cleanup'[c].pc = "idle"
      /\ \A d \in Callers : cleanup'[d].deleted = cleanup[d].deleted
      /\ \A d \in Callers \ {c} : cleanup'[d] = cleanup[d]
  BY <1>1, <1>2, <1>3 DEF Call
<1>5. Calls'
  <2>1. CountsAgree'
    BY <1>1, <1>4 DEF IInv, Calls, CountsAgree, ErasedSoFar, Callers
  <2>2. \A d \in Callers :
          /\ cleanup'[d].pc # "counting" => cleanup'[d].deleted = 0
          /\ cleanup'[d].pc = "deleting" => cleanup'[d].cutoff <= now - RetentionDays
    BY <1>2, <1>4 DEF IInv, Calls
  <2> QED
    BY <1>1, <1>4, <2>1, <2>2 DEF IInv, Calls
<1> QED
  BY <1>1, <1>5, SameTable, SameScroll DEF IInv, Rest

LEMMA Counts ==
  ASSUME IInv, NEW c \in Callers, CountDeleted(c)
  PROVE  IInv'
<1> PICK n : n = cleanup[c].deleted
  OBVIOUS
<1>1. /\ cleanup[c].pc = "counting"
      /\ totalDeleted' = totalDeleted + n
      /\ cleanup' = [cleanup EXCEPT ![c].pc = "idle", ![c].deleted = 0]
      /\ UNCHANGED <<rows, lastId, now, program, restarts, erasedBefore, scroll>>
  BY DEF CountDeleted
<1>2. cleanup \in [Callers -> Call] /\ cleanup[c] \in Call /\ MaxRows \in Nat
  BY ArchiveAssumption DEF IInv, Calls, ArchiveAssumption
<1>3. /\ n \in Nat /\ totalDeleted \in Nat
      /\ \A d \in Callers : cleanup[d].deleted \in Nat
  BY <1>2 DEF IInv, Calls, Call
<1>4. /\ cleanup' \in [Callers -> Call]
      /\ cleanup'[c].pc = "idle" /\ cleanup'[c].deleted = 0
      /\ \A d \in Callers \ {c} : cleanup'[d] = cleanup[d]
  <2>1. 0 \in 0..MaxRows
    BY <1>2
  <2>2. cleanup' = [cleanup EXCEPT ![c] = [@ EXCEPT !.pc = "idle", !.deleted = 0]]
    BY <1>1
  <2> QED
    BY <1>2, <2>1, <2>2 DEF Call
<1>5. Calls'
  <2>1. totalDeleted' + cleanup'["loop"].deleted + cleanup'["manual"].deleted
          = totalDeleted + cleanup["loop"].deleted + cleanup["manual"].deleted
    <3>1. CASE c = "loop"
      <4>1. cleanup'["loop"].deleted = 0 /\ cleanup'["manual"].deleted = cleanup["manual"].deleted
            /\ cleanup["loop"].deleted = n /\ cleanup["manual"].deleted \in Nat
        BY <1>3, <1>4, <3>1 DEF Callers
      <4> QED
        BY <1>1, <1>3, <4>1
    <3>2. CASE c = "manual"
      <4>1. cleanup'["manual"].deleted = 0 /\ cleanup'["loop"].deleted = cleanup["loop"].deleted
            /\ cleanup["manual"].deleted = n /\ cleanup["loop"].deleted \in Nat
        BY <1>3, <1>4, <3>2 DEF Callers
      <4> QED
        BY <1>1, <1>3, <4>1
    <3> QED
      BY <3>1, <3>2 DEF Callers
  <2>2. CountsAgree'
    BY <1>1, <2>1 DEF IInv, Calls, CountsAgree, ErasedSoFar
  <2>3. \A d \in Callers :
          /\ cleanup'[d].pc # "counting" => cleanup'[d].deleted = 0
          /\ cleanup'[d].pc = "deleting" => cleanup'[d].cutoff <= now - RetentionDays
    BY <1>4 DEF IInv, Calls
  <2> QED
    BY <1>1, <1>3, <1>4, <2>2, <2>3 DEF IInv, Calls
<1> QED
  BY <1>1, <1>5, SameTable, SameScroll DEF IInv, Rest

(* The end of the program: Stop, the loop that leaves, the store closed. *)
LEMMA Ends ==
  ASSUME IInv, Stop \/ LoopStops \/ CloseStore
  PROVE  IInv'
<1>1. /\ UNCHANGED <<rows, lastId, now, totalDeleted, restarts, erasedBefore, scroll>>
      /\ program' \in {"running", "stopping", "closed"}
  BY DEF Stop, LoopStops, CloseStore, IInv, Rest
<1>2. Rest'
  BY <1>1 DEF IInv, Rest
<1>3. now <= now'
  BY <1>1, ArchiveAssumption DEF IInv, Rest, ArchiveAssumption
<1>4. CASE cleanup' = cleanup
  BY <1>1, <1>2, <1>3, <1>4, SameTable, SameScroll, SameCalls DEF IInv
<1>5. CASE LoopStops
  <2>1. cleanup["loop"].pc = "idle" /\ cleanup' = [cleanup EXCEPT !["loop"].pc = "left"]
    BY <1>5 DEF LoopStops
  <2>2. cleanup \in [Callers -> Call] /\ cleanup["loop"] \in Call /\ cleanup["loop"].deleted = 0
    BY <2>1 DEF IInv, Calls, Callers
  <2>3. /\ cleanup' \in [Callers -> Call]
        /\ cleanup'["loop"].pc = "left"
        /\ \A d \in Callers : cleanup'[d].deleted = cleanup[d].deleted
        /\ \A d \in Callers \ {"loop"} : cleanup'[d] = cleanup[d]
    BY <2>1, <2>2 DEF Call, Callers
  <2>4. CountsAgree'
    BY <1>1, <2>3 DEF IInv, Calls, CountsAgree, ErasedSoFar, Callers
  <2>5. \A d \in Callers :
          /\ cleanup'[d].pc # "counting" => cleanup'[d].deleted = 0
          /\ cleanup'[d].pc = "deleting" => cleanup'[d].cutoff <= now - RetentionDays
    BY <2>2, <2>3 DEF IInv, Calls
  <2>6. Calls'
    BY <1>1, <2>3, <2>4, <2>5 DEF IInv, Calls
  <2> QED
    BY <1>1, <1>2, <2>6, SameTable, SameScroll DEF IInv
<1> QED
  BY <1>4, <1>5 DEF Stop, CloseStore

LEMMA Restarts ==
  ASSUME IInv, Restart
  PROVE  IInv'
<1>1. /\ restarts < MaxRestarts /\ restarts' = restarts + 1
      /\ program' = "running"
      /\ cleanup' = [c \in Callers |-> [pc |-> IF c = "loop" THEN "starting" ELSE "idle",
                                        cutoff |-> 0, deleted |-> 0]]
      /\ totalDeleted' = 0
      /\ erasedBefore' = ErasedSoFar
      /\ UNCHANGED <<rows, lastId, now, scroll>>
  BY DEF Restart
<1>2. {MaxRows, MaxTime, MaxRestarts, RetentionDays} \subseteq Nat
  BY ArchiveAssumption DEF ArchiveAssumption
<1>3. Rest'
  BY <1>1, <1>2 DEF IInv, Rest
<1>4. ErasedSoFar \in Nat
  BY <1>2, TableFinite DEF IInv, Table, ErasedSoFar
<1>5. Calls'
  <2>1. \A c \in Callers : cleanup'[c].deleted = 0 /\ cleanup'[c].pc # "deleting"
    BY <1>1
  <2>2. cleanup' \in [Callers -> Call]
    BY <1>1, <1>2 DEF Call
  <2>3. ErasedSoFar' = ErasedSoFar
    BY <1>1 DEF ErasedSoFar
  <2>4. CountsAgree'
    BY <1>1, <1>4, <2>1, <2>3 DEF CountsAgree, Callers
  <2> QED
    BY <1>1, <1>4, <2>1, <2>2, <2>4 DEF Calls
<1> QED
  BY <1>1, <1>3, <1>5, SameTable, SameScroll DEF IInv

LEMMA Begins ==
  ASSUME IInv, BeginScroll
  PROVE  IInv'
<1>0. {MaxRows, MaxTime} \subseteq Nat /\ now \in 0..MaxTime
  BY ArchiveAssumption DEF IInv, Rest, ArchiveAssumption
<1>1. PICK mode \in {"before", "after"}, s \in Sensors, n \in Limits :
        LET t == IF mode = "before" THEN now + 1 ELSE -1
        IN  scroll' = [pc |-> "scrolling", mode |-> mode, sensor |-> s, limit |-> n, cursor |-> t,
                       due |-> {r.id : r \in {q \in rows :
                                  /\ q.sensor = s
                                  /\ IF mode = "before" THEN q.recorded_at < t
                                                        ELSE q.recorded_at > t}},
                       shown |-> <<>>, edges |-> {}]
  BY DEF BeginScroll
<1>2. UNCHANGED <<rows, lastId, now, program, cleanup, totalDeleted, restarts, erasedBefore>>
  BY DEF BeginScroll
<1> PICK t \in Int : t = IF mode = "before" THEN now + 1 ELSE -1
  BY <1>0
<1> DEFINE due == {r.id : r \in {q \in rows :
                     /\ q.sensor = s
                     /\ IF mode = "before" THEN q.recorded_at < t ELSE q.recorded_at > t}}
<1>3. scroll' = [pc |-> "scrolling", mode |-> mode, sensor |-> s, limit |-> n, cursor |-> t,
                 due |-> due, shown |-> <<>>, edges |-> {}]
  BY <1>1
<1>4. \A r \in rows : r.id \in due => r.sensor = s /\ IF mode = "before" THEN r.recorded_at < t
                                                                        ELSE r.recorded_at > t
  BY DEF IInv, Table
<1>5. due \subseteq Int /\ \A id \in due : id <= lastId
  BY <1>0 DEF IInv, Table, Rows
<1> HIDE DEF due
<1>6. Scroll'
  <2>1. /\ scroll'.pc = "scrolling" /\ scroll'.mode = mode /\ scroll'.sensor = s
        /\ scroll'.limit = n /\ scroll'.cursor = t /\ scroll'.due = due
        /\ scroll'.shown = <<>>
    BY <1>3
  <2>2. scroll' \in ScrollType
    <3>1. <<>> \in Seq(1..MaxRows)
      OBVIOUS
    <3> QED
      BY <1>3, <1>5, <3>1 DEF ScrollType
  <2>3. IsInjective(<<>>) /\ ToSet(<<>>) = {}
    BY DEF IsInjective, ToSet
  <2>4. NotAgain'
    BY <2>1, <2>3 DEF NotAgain
  <2>5. NothingSkipped'
    BY <1>2, <1>4, <2>1 DEF NothingSkipped, Beyond
  <2> QED
    BY <1>2, <1>5, <2>1, <2>2, <2>3, <2>4, <2>5 DEF Scroll
<1>7. Calls'
  BY <1>2 DEF IInv, Calls, CountsAgree, ErasedSoFar
<1> QED
  BY <1>2, <1>6, <1>7, SameTable DEF IInv, Rest

(* Two sequences without repetition that share nothing. *)
LEMMA InjectiveConcat ==
  ASSUME NEW S, NEW s \in Seq(S), NEW t \in Seq(S), IsInjective(s), IsInjective(t),
         \A i \in DOMAIN s, j \in DOMAIN t : s[i] # t[j]
  PROVE  IsInjective(s \o t)
<1>1. /\ Len(s) \in Nat /\ Len(t) \in Nat
      /\ DOMAIN s = 1..Len(s) /\ DOMAIN t = 1..Len(t)
  BY LenProperties
<1>2. /\ DOMAIN (s \o t) = 1..(Len(s) + Len(t))
      /\ \A i \in 1..(Len(s) + Len(t)) :
           (s \o t)[i] = IF i <= Len(s) THEN s[i] ELSE t[i - Len(s)]
  BY ConcatProperties, LenProperties
<1>3. ASSUME NEW i \in 1..(Len(s) + Len(t)), NEW j \in 1..(Len(s) + Len(t)),
             (s \o t)[i] = (s \o t)[j]
      PROVE  i = j
  <2>1. \A k \in 1..(Len(s) + Len(t)) : k > Len(s) => k - Len(s) \in 1..Len(t)
    BY <1>1
  <2>2. i <= Len(s) => i \in 1..Len(s)
    BY <1>1
  <2>3. j <= Len(s) => j \in 1..Len(s)
    BY <1>1
  <2>4. CASE i <= Len(s) /\ j <= Len(s)
    BY <1>1, <1>2, <1>3, <2>2, <2>3, <2>4 DEF IsInjective
  <2>5. CASE i > Len(s) /\ j > Len(s)
    <3>1. t[i - Len(s)] = t[j - Len(s)]
      BY <1>1, <1>2, <1>3, <2>5
    <3>2. i - Len(s) = j - Len(s)
      BY <1>1, <2>1, <2>5, <3>1 DEF IsInjective
    <3> QED
      BY <1>1, <3>2
  <2>6. CASE i <= Len(s) /\ j > Len(s)
    BY <1>1, <1>2, <1>3, <2>1, <2>2, <2>6
  <2>7. CASE i > Len(s) /\ j <= Len(s)
    BY <1>1, <1>2, <1>3, <2>1, <2>3, <2>7
  <2> QED
    BY <1>1, <2>4, <2>5, <2>6, <2>7
<1> QED
  BY <1>2, <1>3 DEF IsInjective

(* A page adds rows the client has not seen.  The cursor moves to its far   *)
(* end: behind it lies what was shown or shares its second, beyond it the   *)
(* rest of what is due.                                                     *)
LEMMA Handles ==
  ASSUME IInv, HandleHistory
  PROVE  IInv'
<1>0. /\ MaxRows \in Nat /\ Zones \subseteq Int /\ MaxTime \in Nat
      /\ scroll \in ScrollType
  BY ArchiveAssumption DEF IInv, Scroll, ArchiveAssumption
<1>1. /\ scroll.pc = "scrolling"
      /\ UNCHANGED <<rows, lastId, now, program, cleanup, totalDeleted, restarts, erasedBefore>>
  BY DEF HandleHistory
<1>2. PICK page \in queryHistoricalStore :
        LET ids == [i \in DOMAIN page |-> page[i].id]
            edge == IF scroll.mode = "before" THEN page[Len(page)].recorded_at
                                              ELSE page[1].recorded_at
        IN  scroll' = IF HasMore(page)
                      THEN [scroll EXCEPT !.cursor = edge, !.edges = @ \cup {edge},
                                          !.shown = @ \o ids]
                      ELSE [scroll EXCEPT !.pc = "done", !.shown = @ \o ids]
  BY DEF HandleHistory
<1> DEFINE ids == [i \in DOMAIN page |-> page[i].id]
           edge == FarEnd(page)
<1>3. scroll' = IF HasMore(page)
                THEN [scroll EXCEPT !.cursor = edge, !.edges = @ \cup {edge}, !.shown = @ \o ids]
                ELSE [scroll EXCEPT !.pc = "done", !.shown = @ \o ids]
  BY <1>2 DEF FarEnd
<1>4. /\ page \in Seq(rows)
      /\ \A i, j \in 1..Len(page) : page[i] = page[j] => i = j
      /\ \A r \in ToSet(page) : Beyond(r)
  BY <1>1, Answer DEF IInv
<1>5. HasMore(page) =>
        /\ \E r \in ToSet(page) : edge = r.recorded_at
        /\ \A r \in ToSet(page) : ReachedBy(edge, r)
        /\ \A r \in rows \ ToSet(page) :
             Beyond(r) => r.recorded_at = edge \/ ~ReachedBy(edge, r)
  BY <1>1, Answer DEF IInv
<1>6. ~HasMore(page) => \A r \in rows : Beyond(r) => r \in ToSet(page)
  BY <1>1, Answer DEF IInv
<1> HIDE DEF edge
<1>7. /\ ids \in Seq(1..MaxRows) /\ Len(ids) = Len(page)
      /\ \A i \in 1..Len(page) : ids[i] = page[i].id /\ page[i] \in rows
      /\ ToSet(page) \subseteq rows
      /\ ToSet(ids) = {r.id : r \in ToSet(page)}
  <2>1. Len(page) \in Nat /\ DOMAIN page = 1..Len(page) /\ \A i \in 1..Len(page) : page[i] \in rows
    BY <1>4
  <2>2. ids \in [1..Len(page) -> 1..MaxRows] /\ \A i \in 1..Len(page) : ids[i] = page[i].id
    BY <2>1 DEF IInv, Table, Rows
  <2> HIDE DEF ids
  <2>3. ids \in Seq(1..MaxRows) /\ Len(ids) = Len(page) /\ DOMAIN ids = 1..Len(page)
    <3> PICK n \in Nat : n = Len(page)
      BY <2>1
    <3>1. ids \in [1..n -> 1..MaxRows]
      BY <2>2
    <3>2. ids \in Seq(1..MaxRows) /\ DOMAIN ids = 1..n
      BY <3>1, SeqDef, Zenon
    <3>3. Len(ids) = n
      BY <3>2, LenProperties
    <3> QED
      BY <3>2, <3>3
  <2>4. ToSet(ids) = {r.id : r \in ToSet(page)}
    BY <2>1, <2>2, <2>3 DEF ToSet
  <2> QED
    BY <2>1, <2>2, <2>3, <2>4 DEF ToSet
<1> HIDE DEF ids
<1> DEFINE shown == scroll.shown \o ids
<1>8. /\ shown \in Seq(1..MaxRows)
      /\ ToSet(shown) = ToSet(scroll.shown) \cup ToSet(ids)
  <2>1. scroll.shown \in Seq(1..MaxRows)
    BY <1>0 DEF ScrollType
  <2> QED
    BY <1>7, <2>1, ConcatProperties, ToSetConcat
<1>9. IsInjective(shown)
  <2>1. /\ scroll.shown \in Seq(1..MaxRows) /\ IsInjective(scroll.shown)
    BY <1>0 DEF IInv, Scroll, ScrollType
  <2>2. \A i \in DOMAIN scroll.shown, j \in DOMAIN ids : scroll.shown[i] # ids[j]
    <3> SUFFICES ASSUME NEW i \in DOMAIN scroll.shown, NEW j \in 1..Len(page) PROVE scroll.shown[i] # ids[j]
      BY <1>7
    <3>1. page[j] \in rows /\ page[j] \in ToSet(page) /\ ids[j] = page[j].id
      BY <1>4, <1>7 DEF ToSet
    <3>2. ids[j] \notin ToSet(scroll.shown)
      BY <1>1, <1>4, <3>1 DEF IInv, Scroll, NotAgain
    <3> QED
      BY <3>2 DEF ToSet
  <2>3. IsInjective(ids)
    <3>1. \A i, j \in 1..Len(page) : ids[i] = ids[j] => i = j
      BY <1>4, <1>7 DEF IInv, Table
    <3>2. DOMAIN ids = 1..Len(page)
      BY <1>7
    <3> QED
      BY <3>1, <3>2 DEF IsInjective
  <2> QED
    BY <1>7, <2>1, <2>2, <2>3, InjectiveConcat
<1> HIDE DEF shown
<1>10. \A id \in ToSet(shown) \cup scroll.due : id <= lastId
  BY <1>7, <1>8 DEF IInv, Scroll, Table
<1>11. scroll'.mode = scroll.mode /\ scroll'.sensor = scroll.sensor /\ scroll'.limit = scroll.limit
      /\ scroll'.due = scroll.due /\ scroll'.shown = shown
  BY <1>0, <1>3 DEF ScrollType, shown
<1>12. /\ \A r \in rows : r.recorded_at \in Int
      /\ scroll.cursor \in Int /\ scroll.edges \subseteq Int /\ scroll.mode \in {"before", "after"}
  <2>1. \A r \in rows : r.recorded_at \in Int
    BY <1>0 DEF IInv, Table, Rows, Texts
  <2> QED
    BY <1>0, <2>1 DEF ScrollType
<1>13. \A r \in rows : r.id \in ToSet(ids) => r \in ToSet(page)
  BY <1>7 DEF IInv, Table
<1>14. CASE HasMore(page)
  <2>1. /\ edge \in Int
        /\ scroll' = [scroll EXCEPT !.cursor = edge, !.edges = @ \cup {edge}, !.shown = shown]
    BY <1>3, <1>5, <1>7, <1>14, <1>12 DEF shown
  <2>2. /\ scroll' \in ScrollType
        /\ scroll'.pc = "scrolling" /\ scroll'.cursor = edge
        /\ scroll'.edges = scroll.edges \cup {edge}
    BY <1>0, <1>1, <1>8, <1>12, <2>1 DEF ScrollType
  <2>3. \A r \in rows : Beyond(r)' => Beyond(r) /\ ~ReachedBy(edge, r)
    <3> SUFFICES ASSUME NEW r \in rows, Beyond(r)'
                 PROVE  Beyond(r) /\ ~ReachedBy(edge, r)
      OBVIOUS
    <3>1. PICK q \in rows : edge = q.recorded_at /\ Beyond(q)
      BY <1>4, <1>5, <1>7, <1>14
    <3> QED
      BY <1>11, <1>12, <2>1, <2>2, <3>1 DEF Beyond, ReachedBy
  <2>4. \A r \in rows : Beyond(r) => r \in ToSet(page) \/ r.recorded_at = edge \/ Beyond(r)'
    <3> SUFFICES ASSUME NEW r \in rows, Beyond(r), r \notin ToSet(page), r.recorded_at # edge
                 PROVE  Beyond(r)'
      OBVIOUS
    <3>1. ~ReachedBy(edge, r)
      BY <1>5, <1>14
    <3> QED
      BY <1>11, <1>12, <2>1, <2>2, <3>1 DEF Beyond, ReachedBy
  <2>5. NotAgain'
    <3> SUFFICES ASSUME NEW r \in rows, r.id \in ToSet(shown), Beyond(r)' PROVE FALSE
      BY <1>1, <1>11 DEF NotAgain
    <3>1. Beyond(r) /\ ~ReachedBy(edge, r)
      BY <2>3
    <3>2. r.id \notin ToSet(scroll.shown)
      BY <1>1, <3>1 DEF IInv, Scroll, NotAgain
    <3>3. r \in ToSet(page)
      BY <1>8, <1>13, <3>2
    <3> QED
      BY <1>5, <1>14, <3>1, <3>3
  <2>6. NothingSkipped'
    <3> SUFFICES ASSUME NEW r \in rows, r.id \in scroll.due
                 PROVE  \/ r.id \in ToSet(shown)
                        \/ r.recorded_at \in scroll.edges \cup {edge}
                        \/ Beyond(r)'
      BY <1>1, <1>11, <2>2 DEF NothingSkipped
    <3>1. r.id \in ToSet(scroll.shown) \/ r.recorded_at \in scroll.edges \/ Beyond(r)
      BY DEF IInv, Scroll, NothingSkipped
    <3> QED
      BY <1>7, <1>8, <2>4, <3>1
  <2> QED
    BY <1>1, <1>9, <1>10, <1>11, <2>2, <2>5, <2>6, SameTable
    DEF IInv, Rest, Calls, CountsAgree, ErasedSoFar, Scroll
<1>15. CASE ~HasMore(page)
  <2>1. scroll' = [scroll EXCEPT !.pc = "done", !.shown = shown]
    BY <1>3, <1>15 DEF shown
  <2>2. /\ scroll' \in ScrollType
        /\ scroll'.pc = "done" /\ scroll'.edges = scroll.edges
    BY <1>0, <1>8, <2>1 DEF ScrollType
  <2>3. NothingSkipped'
    <3> SUFFICES ASSUME NEW r \in rows, r.id \in scroll.due
                 PROVE  r.id \in ToSet(shown) \/ r.recorded_at \in scroll.edges
      BY <1>1, <1>11, <2>2 DEF NothingSkipped
    <3>1. r.id \in ToSet(scroll.shown) \/ r.recorded_at \in scroll.edges \/ Beyond(r)
      BY DEF IInv, Scroll, NothingSkipped
    <3> QED
      BY <1>6, <1>7, <1>8, <1>15, <3>1
  <2> QED
    BY <1>1, <1>9, <1>10, <1>11, <2>2, <2>3, SameTable
    DEF IInv, Rest, Calls, CountsAgree, ErasedSoFar, Scroll
<1> QED
  BY <1>14, <1>15

-----------------------------------------------------------------------------
LEMMA Steps == IInv /\ [Next]_vars => IInv'
<1> SUFFICES ASSUME IInv, [Next]_vars PROVE IInv'
  OBVIOUS
<1>1. CASE InsertReading
  BY <1>1, Inserts
<1>2. CASE Tick
  BY <1>2, Ticks
<1>3. CASE \E c \in Callers : Cleanup(c)
  BY <1>3, Calling, Deletes, Failing, Counts DEF Cleanup
<1>4. CASE Stop \/ LoopStops \/ CloseStore
  BY <1>4, Ends
<1>5. CASE Restart
  BY <1>5, Restarts
<1>6. CASE BeginScroll
  BY <1>6, Begins
<1>7. CASE HandleHistory
  BY <1>7, Handles
<1>8. CASE UNCHANGED vars
  <2>1. now <= now'
    BY <1>8, ArchiveAssumption DEF vars, IInv, Rest, ArchiveAssumption
  <2> QED
    BY <1>8, <2>1, SameTable, SameScroll, SameCalls DEF vars, IInv, Rest
<1> QED
  BY <1>1, <1>2, <1>3, <1>4, <1>5, <1>6, <1>7, <1>8 DEF Next

(* The invariant holds of every table, cleaner and scroll: any number of   *)
(* sensors, zones, rows, restarts, and any retention period.               *)
THEOREM Inductive == Spec => []IInv
BY Inits, Steps, PTL DEF Spec

(* A new row has an id above every one ever given; only DeleteOlderThan    *)
(* takes a row out, with its id; a restart takes no id back.               *)
LEMMA NextId == IInv /\ NoIdAgain /\ [Next]_vars => NoIdAgain'
<1> SUFFICES ASSUME IInv, NoIdAgain, [Next]_vars PROVE NoIdAgain'
  OBVIOUS
<1>1. /\ lastId \in Nat
      /\ \A r \in rows : r.id \in 1..lastId
      /\ \A r, q \in rows : r.id = q.id => r = q
  BY ArchiveAssumption DEF IInv, Table, Rows, ArchiveAssumption
<1>2. CASE InsertReading
  <2>1. PICK s \in Sensors, taken \in 0..now, z \in Zones :
          rows' = rows \cup {[id |-> lastId + 1, sensor |-> s, taken |-> taken,
                              recorded_at |-> taken + z]}
    BY <1>2 DEF InsertReading, NewId, Stored
  <2>2. lastId' = lastId + 1 /\ erased' = erased
    BY <1>2 DEF InsertReading
  <2>3. erased \subseteq 1..lastId
    BY DEF NoIdAgain
  <2>4. erased' \subseteq 1..lastId'
    BY <1>1, <2>2, <2>3
  <2>5. \A q \in rows' : q.id \notin erased'
    BY <1>1, <2>1, <2>2, <2>3 DEF NoIdAgain
  <2> QED
    BY <2>4, <2>5 DEF NoIdAgain
<1>3. ASSUME NEW c \in Callers, DeleteOlderThan(c) PROVE NoIdAgain'
  <2>1. /\ rows' = rows \ Expired(cleanup[c].cutoff)
        /\ erased' = erased \cup {r.id : r \in Expired(cleanup[c].cutoff)}
        /\ lastId' = lastId
    BY <1>3 DEF DeleteOlderThan
  <2>2. Expired(cleanup[c].cutoff) \subseteq rows
    BY DEF Expired
  <2> QED
    BY <1>1, <2>1, <2>2, Zenon DEF NoIdAgain
<1>4. CASE UNCHANGED <<rows, lastId, erased>>
  BY <1>4 DEF NoIdAgain
<1> QED
  BY <1>2, <1>3, <1>4 DEF Next, vars, Tick, Cleanup, CallCleanup, DeleteFails, CountDeleted,
     Stop, LoopStops, CloseStore, Restart, BeginScroll, HandleHistory

(* The ids of erased rows are not given again.                             *)
LEMMA NoIdReused == Spec => []NoIdAgain
<1>1. Init => NoIdAgain
  BY DEF Init, NoIdAgain
<1> QED
  BY <1>1, NextId, Inductive, PTL DEF Spec

(* No two rows have one id, no row has that of an erased one, before or    *)
(* after a restart, and the counts stay within the rows ever inserted.     *)
THEOREM TypeCorrect == Spec => []ArchiveTypeOK
<1>1. IInv /\ NoIdAgain => ArchiveTypeOK
  <2> SUFFICES ASSUME IInv, NoIdAgain PROVE ArchiveTypeOK
    OBVIOUS
  <2>0. MaxRows \in Nat
    BY ArchiveAssumption DEF ArchiveAssumption
  <2>1. /\ Cardinality(rows) \in Nat /\ Cardinality(rows) <= lastId
        /\ lastId \in Nat /\ lastId <= MaxRows
    BY <2>0, TableFinite DEF IInv, Table
  <2>2. cleanup["loop"].deleted \in Nat /\ cleanup["manual"].deleted \in Nat
    BY <2>0 DEF IInv, Calls, Call, Callers
  <2>3. totalDeleted \in 0..MaxRows /\ erasedBefore \in 0..MaxRows
    BY <2>0, <2>1, <2>2 DEF IInv, Calls, CountsAgree, ErasedSoFar
  <2> QED
    BY <2>3 DEF IInv, Table, Calls, Call, Rest, Scroll, ScrollType, NoIdAgain, ArchiveTypeOK
<1> QED
  BY <1>1, Inductive, NoIdReused, PTL

(* The cleaner's total and the rows still to be added to it are the rows   *)
(* erased since the start, whatever runs of runCleanup overlap.            *)
THEOREM Counted == Spec => []CountsAgree
<1>1. IInv => CountsAgree
  BY DEF IInv, Calls
<1> QED
  BY <1>1, Inductive, PTL

(* A scroll through the history shows nothing twice, and in the end has    *)
(* shown all that was due but for ties at the far end of a page.           *)
THEOREM Scrolled == Spec => []ScrollIsExact
<1>1. IInv => ScrollIsExact
  BY DEF IInv, Scroll, NothingSkipped, ScrollIsExact
<1> QED
  BY <1>1, Inductive, PTL

(* Where no sensor's clock is west of UTC, DeleteOlderThan erases only     *)
(* what is older than the retention period: the difference KeptForRetention *)
(* fails by is the western zones' alone.                                   *)
THEOREM KeptEastOfUTC ==
  ASSUME Zones \subseteq Nat
  PROVE  Spec => KeptForRetention
<1>1. IInv /\ [Next]_vars => [\A r \in rows \ rows' : now - r.taken > RetentionDays]_vars
  <2> SUFFICES ASSUME IInv, Next
               PROVE  \A r \in rows \ rows' : now - r.taken > RetentionDays
    OBVIOUS
  <2>1. CASE rows \subseteq rows'
    BY <2>1
  <2>2. ASSUME NEW c \in Callers, DeleteOlderThan(c)
        PROVE  \A r \in rows \ rows' : now - r.taken > RetentionDays
    <3> SUFFICES ASSUME NEW r \in rows \ rows' PROVE now - r.taken > RetentionDays
      OBVIOUS
    <3>1. /\ cleanup[c].pc = "deleting"
          /\ r \in Expired(cleanup[c].cutoff)
      BY <2>2 DEF DeleteOlderThan
    <3>2. /\ r.recorded_at < cleanup[c].cutoff
          /\ cleanup[c].cutoff <= now - RetentionDays
          /\ cleanup[c].cutoff \in Int
      BY <3>1, ArchiveAssumption DEF Expired, IInv, Calls, Call, ArchiveAssumption
    <3>3. /\ r.recorded_at \in Int /\ r.taken \in Int /\ r.recorded_at - r.taken \in Nat
          /\ now \in Int /\ RetentionDays \in Nat
      BY ArchiveAssumption DEF IInv, Table, Rows, Texts, Rest, ArchiveAssumption
    <3> QED
      BY <3>2, <3>3
  <2> QED
    BY <2>1, <2>2 DEF Next, Cleanup, InsertReading, Tick, CallCleanup, DeleteFails, CountDeleted,
       Stop, LoopStops, CloseStore, Restart, BeginScroll, HandleHistory
<1> QED
  BY <1>1, Inductive, PTL DEF Spec, KeptForRetention

=============================================================================
