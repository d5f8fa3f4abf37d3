--------------------------- MODULE DashboardProofs ---------------------------
(***************************************************************************)
(* Theorems about Dashboard: any sensors, configurations, windows, limits  *)
(* and bounds, and any number of loads that overlap.                       *)
(***************************************************************************)
EXTENDS Dashboard, HistoryLemmas, FiniteSetTheorems

-----------------------------------------------------------------------------
(* The inductive invariant.                                                *)

ServerSide ==
  /\ config.buffer_size = StoreCapacity
  /\ now \in 0..MaxTime
  /\ made \in Seq([sensor : Sensors, taken : 0..now])
  /\ queue \in Seq(Readings)
  /\ rows \subseteq Readings

(* The readings of a sensor in the memory store, in the order of arrival. *)
Memory ==
  \A s \in DOMAIN data : data[s] \in Seq(Readings) /\ data[s] # <<>> /\ Increasing(data[s])

(* A window of the past, no longer than the one chosen. *)
Looks ==
  IF page.mode = "live"
  THEN page.view = <<>>
  ELSE \E from, to \in Int :
         /\ page.view = <<from, to>>
         /\ from <= to /\ to <= now /\ to - from <= page.window

Page ==
  /\ page.mode \in {"live", "historical"} /\ page.window \in Windows /\ page.refresh \in BOOLEAN
  /\ page.current \subseteq Readings
  /\ page.chart.readings \subseteq Readings /\ page.chart.left \subseteq Readings
  /\ page = [mode |-> page.mode, window |-> page.window, view |-> page.view,
             refresh |-> page.refresh, current |-> page.current,
             chart |-> page.chart]
  /\ Looks

(* What is shown leaves out only what does not fit in and is not newer. *)
NoHoles(shown, left) ==
  \A r \in left : Cardinality(shown) = DefaultLimit /\ \A q \in shown : ~Newer(r, q)

(* The four kinds of loads. *)
LoadsOf(R) ==
  [pc : {"current"}]
    \cup [pc : {"currentCame"}, answer : SUBSET R]
    \cup [pc : {"history"}, from : Int, to : Int, due : SUBSET R]
    \cup [pc : {"historyCame"}, answer : SUBSET R, left : SUBSET R]

(* What is due lies in the window asked for; the answer has no holes. *)
Sound(x) ==
  /\ x.pc = "history" => \A r \in x.due : config.db_enabled => made[r].taken \in x.from..x.to
  /\ x.pc = "historyCame" => NoHoles(x.answer, x.left)

Loads ==
  /\ load \in Seq(LoadsOf(Readings))
  /\ \A i \in 1..Len(load) : Sound(load[i])

IInv == ServerSide /\ Memory /\ Page /\ Loads /\ ChartHasNoHoles

-----------------------------------------------------------------------------
(* Answers.                                                                *)

(* The smaller of two numbers. *)
LEMMA LeastOfTwo ==
  ASSUME NEW a \in Int, NEW b \in Int
  PROVE  Min({a, b}) = IF a <= b THEN a ELSE b
<1> DEFINE m == IF a <= b THEN a ELSE b
<1>1. m \in {a, b} /\ \A y \in {a, b} : m <= y
  OBVIOUS
<1>2. \A x \in {a, b} : (\A y \in {a, b} : x <= y) => x = m
  OBVIOUS
<1> HIDE DEF m
<1>3. Min({a, b}) = m
  BY <1>1, <1>2 DEF Min
<1> QED
  BY <1>3 DEF m

(* GetReadingsInRange: a reading in the range that is left out makes the    *)
(* answer a full one, of readings taken no earlier.                         *)
LEMMA RangeHasNoHoles ==
  ASSUME ServerSide, NEW s, NEW from \in Int, NEW to \in Int,
         NEW answer \in GetReadingsInRange(s, from, to, DefaultLimit)
  PROVE  /\ answer \subseteq rows
         /\ \A r \in rows : made[r].sensor = s /\ made[r].taken \in from..to /\ r \notin answer =>
              /\ Cardinality(answer) = DefaultLimit
              /\ \A q \in answer : made[r].taken <= made[q].taken
<1> DEFINE found == {r \in rows : made[r].sensor = s /\ made[r].taken \in from..to}
           size == Min({DefaultLimit, Cardinality(found)})
<1>1. /\ answer \in SUBSET found /\ Cardinality(answer) = size
      /\ \A r \in answer, q \in found \ answer : made[r].taken >= made[q].taken
  BY DEF GetReadingsInRange, kSubset
<1>2. Readings = 1..Len(made) /\ Len(made) \in Nat
  BY DEF ServerSide, Readings
<1>3. IsFiniteSet(Readings)
  BY <1>2, FS_Interval
<1>4. IsFiniteSet(found) /\ found \subseteq rows
  BY <1>3, FS_Subset DEF ServerSide
<1> HIDE DEF found
<1>5. /\ Cardinality(found) \in Nat
      /\ Cardinality(answer) = Cardinality(found) => answer = found
  BY <1>1, <1>4, FS_Subset, FS_CardinalityType
<1>6. DefaultLimit \in Nat
  BY DashboardAssumption DEF DashboardAssumption
<1>7. size = DefaultLimit \/ size = Cardinality(found)
  BY <1>5, <1>6, LeastOfTwo
<1> HIDE DEF size
<1>8. \A r \in rows : made[r].taken \in Int
  <2>1. \A r \in Readings : made[r] \in [sensor : Sensors, taken : 0..now]
    BY <1>2, ElementOfSeq DEF ServerSide
  <2> QED
    BY <2>1 DEF ServerSide
<1>9. \A r \in rows : made[r].sensor = s /\ made[r].taken \in from..to => r \in found
  BY DEF found
<1> QED
  BY <1>1, <1>4, <1>5, <1>7, <1>8, <1>9

(* GetLatest: a reading left out makes the answer a full one, of readings   *)
(* that arrived later.                                                      *)
LEMMA LatestHasNoHoles ==
  ASSUME NEW n \in Nat, NEW s, ReadingsOf(s) \in Seq(1..n), Increasing(ReadingsOf(s)),
         NEW limit \in Nat
  PROVE  LET shown == Range(GetLatest(s, limit))
         IN  /\ shown \subseteq Range(ReadingsOf(s))
             /\ \A r \in Range(ReadingsOf(s)) \ shown :
                  Cardinality(shown) = limit /\ \A q \in shown : r <= q
<1> PICK all \in Seq(1..n) : all = ReadingsOf(s)
  OBVIOUS
<1> PICK m \in Nat : m = Len(all)
  OBVIOUS
<1> PICK size \in Nat : size = IF limit < m THEN limit ELSE m
  OBVIOUS
<1> DEFINE g == [i \in 1..size |-> all[m - i + 1]]
<1>1. GetLatest(s, limit) = g
  BY DEF GetLatest
<1>2. /\ DOMAIN all = 1..m /\ \A i \in 1..m : all[i] \in Nat
      /\ \A i, j \in 1..m : i < j => all[i] < all[j]
  <2>1. DOMAIN all = 1..m /\ \A i \in 1..m : all[i] \in Nat
    OBVIOUS
  <2>2. Increasing(all)
    OBVIOUS
  <2> QED
    BY <2>1, <2>2 DEF Increasing
<1>3. \A i \in 1..size : m - i + 1 \in 1..m
  OBVIOUS
<1> DEFINE shown == Range(g)
<1>4. shown = {all[m - i + 1] : i \in 1..size}
  BY DEF Range
<1>5. \A j \in 1..m : m - j + 1 <= size => all[j] \in shown
  <2> SUFFICES ASSUME NEW j \in 1..m, m - j + 1 <= size PROVE all[j] \in shown
    OBVIOUS
  <2>1. m - j + 1 \in 1..size /\ m - (m - j + 1) + 1 = j
    OBVIOUS
  <2> QED
    BY <1>4, <2>1
<1>6. g \in Bijection(1..size, shown)
  <2>1. g \in [1..size -> shown]
    BY <1>4
  <2>2. ASSUME NEW i \in 1..size, NEW j \in 1..size, g[i] = g[j] PROVE i = j
    <3>1. m - i + 1 \in 1..m /\ m - j + 1 \in 1..m /\ all[m - i + 1] = all[m - j + 1]
      BY <1>3, <2>2
    <3>2. m - i + 1 = m - j + 1
      <4> PICK a \in 1..m, b \in 1..m : a = m - i + 1 /\ b = m - j + 1
        BY <3>1
      <4>1. all[a] = all[b] /\ all[a] \in Nat
        BY <1>2, <3>1
      <4>2. all[a] \in Nat /\ all[b] \in Nat /\ (a < b => all[a] < all[b]) /\ (b < a => all[b] < all[a])
        BY <1>2
      <4>3. a \in Nat /\ b \in Nat /\ ~(a < b) /\ ~(b < a)
        BY <4>1, <4>2
      <4>4. a = b
        BY <4>3
      <4> QED
        BY <4>4
    <3> QED
      BY <3>2
  <2>3. \A x \in shown : \E i \in 1..size : g[i] = x
    BY <1>4
  <2> HIDE DEF g, shown
  <2>4. DOMAIN g = 1..size
    BY <2>1
  <2> QED
    BY <2>1, <2>2, <2>3, <2>4 DEF Bijection, Injection, Surjection, IsInjective
<1> HIDE DEF g, shown
<1>7. Cardinality(shown) = size
  <2>1. IsFiniteSet(1..size) /\ Cardinality(1..size) = size
    <3>1. /\ IsFiniteSet(1..size)
          /\ Cardinality(1..size) = IF 1 > size THEN 0 ELSE size - 1 + 1
      <4>1. 1 \in Int /\ size \in Int
        OBVIOUS
      <4> QED
        BY ONLY <4>1, FS_Interval
    <3> QED
      BY <3>1
  <2>2. ExistsBijection(1..size, shown)
    BY <1>6 DEF ExistsBijection
  <2> QED
    BY <2>1, <2>2, FS_Bijection
<1>8. shown \subseteq Range(all)
  BY <1>2, <1>3, <1>4 DEF Range
<1>9. ASSUME NEW r \in Range(all), r \notin shown
      PROVE  Cardinality(shown) = limit /\ \A q \in shown : r <= q
  <2>1. PICK j \in 1..m : r = all[j]
    BY <1>2 DEF Range
  <2>2. size < m - j + 1
    BY <1>5, <1>9, <2>1
  <2>3. size = limit
    BY <2>2
  <2>4. ASSUME NEW q \in shown PROVE r <= q
    <3>1. PICK i \in 1..size : q = all[m - i + 1]
      BY <1>4, <2>4
    <3>2. m - i + 1 \in 1..m /\ j < m - i + 1
      BY <1>3, <2>2
    <3>3. r < q /\ r \in Nat /\ q \in Nat
      BY <1>2, <2>1, <3>1, <3>2
    <3> QED
      BY <3>3
  <2> QED
    BY <1>7, <2>3, <2>4
<1> QED
  BY <1>1, <1>8, <1>9 DEF shown

-----------------------------------------------------------------------------
(* Time passes and readings arrive; what is known about a reading stays.    *)

Grows ==
  /\ config' = config /\ now <= now'
  /\ Readings \subseteq Readings'
  /\ \A r \in Readings : made'[r] = made[r]

(* Only the server's actions change its state, and only Tick the clock. *)
LEMMA Others ==
  ASSUME [Next]_vars
  PROVE  Tick \/ Receive \/ Flush \/ DeleteOlderThan \/ Restart \/ UNCHANGED <<serverVars, now>>
BY DEF Next, Server, User, Refresh, Proceed, AnswerCurrent, AnswerHistory, NoAnswer, Becomes,
   ShowCurrent, ShowHistory, setModeLive, setModeHistorical, setTimeWindow, navigatePrevious,
   navigateNext, vars, serverVars

LEMMA ServerSteps ==
  ASSUME ServerSide, [Next]_vars
  PROVE  ServerSide' /\ Grows
<1>0. /\ now \in Nat /\ MaxTime \in Nat /\ now <= MaxTime
      /\ Len(made) \in Nat /\ Readings = 1..Len(made)
  BY DashboardAssumption DEF DashboardAssumption, ServerSide, Readings
<1>1. CASE Tick
  <2>1. /\ now' = now + 1 /\ now < MaxTime /\ UNCHANGED serverVars
    BY <1>1 DEF Tick
  <2>2. /\ Readings' = Readings /\ made' = made /\ config' = config /\ queue' = queue /\ rows' = rows
    BY <2>1 DEF serverVars, Readings
  <2>3. now' \in 0..MaxTime /\ now <= now' /\ 0..now \subseteq 0..now'
    BY <1>0, <2>1
  <2>4. made \in Seq([sensor : Sensors, taken : 0..now'])
    <3>1. [sensor : Sensors, taken : 0..now] \subseteq [sensor : Sensors, taken : 0..now']
      BY <2>3
    <3> QED
      BY <3>1, SeqMonotonic DEF ServerSide
  <2> QED
    BY <2>2, <2>3, <2>4 DEF ServerSide, Grows
<1>2. CASE Receive
  <2>1. PICK s \in Sensors, taken \in 0..now : made' = Append(made, [sensor |-> s, taken |-> taken])
    BY <1>2 DEF Receive
  <2> DEFINE new == [sensor |-> s, taken |-> taken]
  <2>2. new \in [sensor : Sensors, taken : 0..now]
    OBVIOUS
  <2> HIDE DEF new
  <2>3. /\ made' \in Seq([sensor : Sensors, taken : 0..now])
        /\ Len(made') = Len(made) + 1
        /\ \A i \in 1..Len(made) : made'[i] = made[i]
    BY <2>1, <2>2, AppendProperties DEF ServerSide, new
  <2>4. /\ Readings' = 1..(Len(made) + 1)
        /\ Readings \subseteq Readings' /\ Len(made') \in Readings'
    BY <1>0, <2>3 DEF Readings
  <2>5. queue' \in Seq(Readings')
    <3>1. queue \in Seq(Readings')
      BY <2>4, SeqMonotonic DEF ServerSide
    <3>2. queue' = queue \/ queue' = Append(queue, Len(made'))
      BY <1>2 DEF Receive
    <3>3. Append(queue, Len(made')) \in Seq(Readings')
      BY <2>4, <3>1, AppendProperties
    <3> QED
      BY <3>1, <3>2, <3>3
  <2>6. rows' \subseteq Readings' /\ now' = now /\ config' = config
    BY <1>2, <2>4 DEF Receive, ServerSide
  <2> QED
    BY <1>0, <2>3, <2>4, <2>5, <2>6 DEF ServerSide, Grows
<1>3. CASE Flush
  <2>1. UNCHANGED <<config, now, made>> /\ Readings' = Readings
    BY <1>3 DEF Flush, Readings
  <2>2. PICK n \in 1..Len(queue) :
          /\ queue' = SubSeq(queue, n + 1, Len(queue))
          /\ rows' = rows \cup {queue[i] : i \in 1..n} \/ rows' = rows
    BY <1>3 DEF Flush
  <2>3. queue \in Seq(Readings) /\ Len(queue) \in Nat /\ \A i \in 1..Len(queue) : queue[i] \in Readings
    BY DEF ServerSide
  <2>4. queue' \in Seq(Readings)
    <3>1. \A i \in (n + 1)..Len(queue) : i \in 1..Len(queue)
      BY <2>3
    <3> QED
      BY <2>2, <2>3, <3>1, SubSeqProperties
  <2>5. rows' \subseteq Readings
    <3>1. 1..n \subseteq 1..Len(queue)
      BY <2>3
    <3> QED
      BY <2>2, <2>3, <3>1 DEF ServerSide
  <2> QED
    BY <1>0, <2>1, <2>4, <2>5 DEF ServerSide, Grows
<1>4. CASE DeleteOlderThan
  <2>1. UNCHANGED <<config, now, made, queue>> /\ Readings' = Readings /\ rows' \subseteq rows
    BY <1>4 DEF DeleteOlderThan, Readings
  <2> QED
    BY <1>0, <2>1 DEF ServerSide, Grows
<1>5. CASE Restart
  <2>1. UNCHANGED <<config, now, made>> /\ Readings' = Readings /\ queue' = <<>>
        /\ rows' \subseteq rows \cup Range(queue)
    BY <1>5 DEF Restart, Readings
  <2>2. Range(queue) \subseteq Readings /\ <<>> \in Seq(Readings)
    BY DEF ServerSide, Range
  <2> QED
    BY <1>0, <2>1, <2>2 DEF ServerSide, Grows
<1>6. CASE UNCHANGED <<serverVars, now>>
  BY <1>0, <1>6 DEF serverVars, ServerSide, Grows, Readings
<1> QED
  BY <1>1, <1>2, <1>3, <1>4, <1>5, <1>6, Others

(* Add keeps the order of arrival and drops from the front. *)
LEMMA Added ==
  ASSUME NEW n \in Nat, NEW q \in Seq(1..n), Increasing(q)
  PROVE  LET r == Append(Room(q), n + 1)
         IN  r \in Seq(1..(n + 1)) /\ r # <<>> /\ Increasing(r)
<1>1. Room(q) \in Seq(1..n) /\ Increasing(Room(q))
  <2>1. CASE Room(q) = q
    BY <2>1
  <2>2. CASE Room(q) = Tail(q) /\ q # <<>>
    <3>1. q \in Seq(Nat)
      BY SeqMonotonic
    <3> QED
      BY <2>2, <3>1, TakeOldest, HeadTailProperties
  <2>3. q = <<>> => Room(q) = q
    BY MemoryStoreAssumption DEF Room, MemoryStoreAssumption
  <2> QED
    BY <2>1, <2>2, <2>3 DEF Room
<1> PICK room \in Seq(1..n) : room = Room(q)
  BY <1>1
<1>2. Increasing(Append(room, n + 1))
  BY <1>1, IncreasingAppend
<1>3. Append(room, n + 1) \in Seq(1..(n + 1)) /\ Len(Append(room, n + 1)) = Len(room) + 1
  <2>1. room \in Seq(1..(n + 1)) /\ n + 1 \in 1..(n + 1)
    <3>1. 1..n \subseteq 1..(n + 1) /\ n + 1 \in 1..(n + 1)
      OBVIOUS
    <3> QED
      BY <3>1, SeqMonotonic
  <2> QED
    BY <2>1, AppendProperties
<1>4. Append(room, n + 1) # <<>>
  <2>1. Len(room) \in Nat
    OBVIOUS
  <2>2. Len(Append(room, n + 1)) # 0
    BY <1>3, <2>1
  <2> QED
    BY <2>2
<1> QED
  BY <1>2, <1>3, <1>4

LEMMA MemorySteps ==
  ASSUME ServerSide, Memory, [Next]_vars
  PROVE  Memory'
<1>0. Grows /\ Len(made) \in Nat /\ Readings = 1..Len(made)
  BY ServerSteps DEF ServerSide, Readings
<1>1. CASE data' = data
  <2>1. \A s \in DOMAIN data : data[s] \in Seq(Readings')
    BY <1>0, SeqMonotonic DEF Memory, Grows
  <2> QED
    BY <1>1, <2>1 DEF Memory
<1>2. CASE Restart
  BY <1>2 DEF Restart, Memory
<1>3. CASE Receive
  <2> PICK n \in Nat : n = Len(made)
    BY <1>0
  <2>1. PICK s \in Sensors, taken \in 0..now :
          /\ made' = Append(made, [sensor |-> s, taken |-> taken])
          /\ Add(s, Len(made'))
    BY <1>3 DEF Receive
  <2>2. Len(made') = n + 1 /\ Readings' = 1..(n + 1)
    <3>1. made \in Seq([sensor : Sensors, taken : 0..now])
          /\ [sensor |-> s, taken |-> taken] \in [sensor : Sensors, taken : 0..now]
      BY DEF ServerSide
    <3>2. Len(made') = n + 1 /\ DOMAIN made' = 1..(n + 1)
      BY <2>1, <3>1, AppendProperties, LenProperties
    <3> QED
      BY <3>2 DEF Readings
  <2>3. data' = [q \in DOMAIN data \cup {s} |->
                   IF q = s THEN Append(Room(ReadingsOf(q)), n + 1) ELSE data[q]]
    BY <2>1, <2>2 DEF Add
  <2>4. ReadingsOf(s) \in Seq(1..n) /\ Increasing(ReadingsOf(s))
    <3>1. <<>> \in Seq(1..n) /\ Increasing(<<>>)
      BY DEF Increasing
    <3> QED
      BY <1>0, <3>1 DEF ReadingsOf, Memory
  <2>5. /\ DOMAIN data' = DOMAIN data \cup {s}
        /\ data'[s] = Append(Room(ReadingsOf(s)), n + 1)
        /\ \A q \in DOMAIN data \ {s} : data'[q] = data[q]
    BY <2>3
  <2>6. data'[s] \in Seq(1..(n + 1)) /\ data'[s] # <<>> /\ Increasing(data'[s])
    BY <2>4, <2>5, Added
  <2>7. \A q \in DOMAIN data : data[q] \in Seq(1..(n + 1))
    BY <1>0, <2>2, SeqMonotonic DEF Memory, Grows
  <2> QED
    BY <2>2, <2>5, <2>6, <2>7 DEF Memory
<1> QED
  BY <1>1, <1>2, <1>3, Others DEF Tick, Flush, DeleteOlderThan, serverVars, storeVars

-----------------------------------------------------------------------------
(* The page and its loads.                                                 *)

LEMMA HolesStay ==
  ASSUME Grows, NEW shown \in SUBSET Readings, NEW left \in SUBSET Readings, NoHoles(shown, left)
  PROVE  NoHoles(shown, left)'
<1>1. \A r, q \in Readings : Newer(r, q)' <=> Newer(r, q)
  BY DEF Newer, Grows
<1> QED
  BY <1>1 DEF NoHoles

LEMMA ChartIsPage == ChartHasNoHoles <=> NoHoles(page.chart.readings, page.chart.left)
BY DEF ChartHasNoHoles, NoHoles

LEMMA SamePage ==
  ASSUME Page, ChartHasNoHoles, Grows, ServerSide, ServerSide', page' = page
  PROVE  Page' /\ ChartHasNoHoles'
<1>1. ChartHasNoHoles'
  <2> PICK shown \in SUBSET Readings, left \in SUBSET Readings :
        shown = page.chart.readings /\ left = page.chart.left
    BY DEF Page
  <2>1. NoHoles(shown, left)'
    BY ChartIsPage, HolesStay
  <2>2. NoHoles(shown, left)' => ChartHasNoHoles'
    BY DEF NoHoles, ChartHasNoHoles
  <2> QED
    BY <2>1, <2>2
<1>2. Looks'
  <2>1. now \in Nat /\ now' \in Nat /\ now <= now'
    BY DashboardAssumption DEF DashboardAssumption, ServerSide, Grows
  <2>2. \A to \in Int : to <= now => to <= now'
    BY <2>1
  <2> QED
    BY <2>2 DEF Page, Looks
<1> QED
  BY <1>1, <1>2 DEF Page, Grows

LEMMA StaysSound ==
  ASSUME Grows, NEW x \in LoadsOf(Readings), Sound(x)
  PROVE  Sound(x)'
<1>1. ASSUME x.pc = "history" PROVE x.due \in SUBSET Readings
  BY <1>1 DEF LoadsOf
<1>2. ASSUME x.pc = "historyCame" PROVE x.answer \in SUBSET Readings /\ x.left \in SUBSET Readings
  BY <1>2 DEF LoadsOf
<1>3. x.pc = "history" => \A r \in x.due : config'.db_enabled => made'[r].taken \in x.from..x.to
  BY <1>1 DEF Grows, Sound
<1>4. x.pc = "historyCame" => NoHoles(x.answer, x.left)'
  BY <1>2, HolesStay DEF Sound
<1> QED
  BY <1>3, <1>4 DEF Sound

LEMMA MoreLoads ==
  ASSUME NEW R, NEW S, R \subseteq S
  PROVE  LoadsOf(R) \subseteq LoadsOf(S)
BY DEF LoadsOf

(* Loads go on as they are, but for one that takes its next step, one that  *)
(* begins, or one that ends.                                                *)
LEMMA SameLoads ==
  ASSUME Loads, Grows, load' = load
  PROVE  Loads'
<1>1. load \in Seq(LoadsOf(Readings'))
  BY MoreLoads, SeqMonotonic DEF Loads, Grows
<1>2. \A x \in LoadsOf(Readings) : Sound(x) => Sound(x)'
  BY StaysSound
<1>3. \A i \in 1..Len(load) : load[i] \in LoadsOf(Readings) /\ Sound(load[i])
  BY ElementOfSeq DEF Loads
<1> QED
  BY <1>1, <1>2, <1>3 DEF Loads

LEMMA NextLoad ==
  ASSUME Loads, UNCHANGED <<serverVars, now>>, NEW l \in DOMAIN load,
         NEW x \in LoadsOf(Readings), Sound(x), load' = [load EXCEPT ![l] = x]
  PROVE  Loads'
<1>1. Readings' = Readings /\ \A y : Sound(y)' <=> Sound(y)
  BY DEF serverVars, Readings, Sound, NoHoles, Newer
<1>2. l \in 1..Len(load) /\ load \in Seq(LoadsOf(Readings))
  BY DEF Loads
<1>3. load' \in Seq(LoadsOf(Readings)) /\ Len(load') = Len(load)
      /\ \A i \in 1..Len(load) : load'[i] = IF i = l THEN x ELSE load[i]
  BY <1>2, ExceptSeq
<1>4. \A i \in 1..Len(load) : Sound(load'[i])
  BY <1>3 DEF Loads
<1> QED
  BY <1>1, <1>3, <1>4 DEF Loads

LEMMA OneMoreLoad ==
  ASSUME Loads, UNCHANGED <<serverVars, now>>,
         NEW x \in LoadsOf(Readings), Sound(x), load' = Append(load, x)
  PROVE  Loads'
<1>1. Readings' = Readings /\ \A y : Sound(y)' <=> Sound(y)
  BY DEF serverVars, Readings, Sound, NoHoles, Newer
<1>2. load \in Seq(LoadsOf(Readings)) /\ Len(load) \in Nat
  BY DEF Loads
<1>3. /\ load' \in Seq(LoadsOf(Readings)) /\ Len(load') = Len(load) + 1
      /\ \A i \in 1..Len(load) : load'[i] = load[i]
      /\ load'[Len(load) + 1] = x
  BY <1>2, AppendProperties
<1>4. \A i \in 1..Len(load') : Sound(load'[i])
  BY <1>2, <1>3 DEF Loads
<1> QED
  BY <1>1, <1>3, <1>4 DEF Loads

LEMMA OneLoadLess ==
  ASSUME Loads, UNCHANGED <<serverVars, now>>, NEW l \in DOMAIN load, load' = RemoveAt(load, l)
  PROVE  Loads'
<1>1. Readings' = Readings /\ \A y : Sound(y)' <=> Sound(y)
  BY DEF serverVars, Readings, Sound, NoHoles, Newer
<1>2. load \in Seq(LoadsOf(Readings)) /\ Len(load) \in Nat /\ l \in 1..Len(load)
  BY DEF Loads
<1> DEFINE S == {x \in LoadsOf(Readings) : Sound(x)}
<1>3. \A i \in 1..Len(load) : load[i] \in S
  BY <1>2, ElementOfSeq DEF Loads
<1> HIDE DEF S
<1>4. RemoveAt(load, l) \in Seq(S)
  <2>1. SubSeq(load, 1, l - 1) \in Seq(S)
    <3>1. \A i \in 1..(l - 1) : i \in 1..Len(load)
      BY <1>2
    <3> QED
      BY <1>2, <1>3, <3>1, SubSeqProperties
  <2>2. SubSeq(load, l + 1, Len(load)) \in Seq(S)
    <3>1. \A i \in (l + 1)..Len(load) : i \in 1..Len(load)
      BY <1>2
    <3> QED
      BY <1>2, <1>3, <3>1, SubSeqProperties
  <2> QED
    BY <2>1, <2>2, ConcatProperties DEF RemoveAt
<1>5. load' \in Seq(LoadsOf(Readings)) /\ \A i \in 1..Len(load') : Sound(load'[i])
  <2>1. S \subseteq LoadsOf(Readings) /\ \A x \in S : Sound(x)
    BY DEF S
  <2> QED
    BY <1>4, <2>1, SeqMonotonic, ElementOfSeq
<1> QED
  BY <1>1, <1>5 DEF Loads

LEMMA KeptIsRead ==
  ASSUME ServerSide, Memory, NEW s
  PROVE  /\ Kept(s) \subseteq Readings
         /\ ReadingsOf(s) \in Seq(Readings) /\ Increasing(ReadingsOf(s))
<1>1. ReadingsOf(s) \in Seq(Readings) /\ Increasing(ReadingsOf(s))
  <2>1. <<>> \in Seq(Readings) /\ Increasing(<<>>)
    BY DEF Increasing
  <2> QED
    BY <2>1 DEF ReadingsOf, Memory
<1> PICK all \in Seq(Readings) : all = ReadingsOf(s)
  BY <1>1
<1>2. Range(all) \subseteq Readings
  BY DEF Range
<1> QED
  BY <1>1, <1>2 DEF Kept, ServerSide

(* A request for a history is sound as it is asked. *)
LEMMA Asked ==
  ASSUME ServerSide, Memory, NEW from \in Int, NEW to \in Int
  PROVE  LET x == AskedHistory(from, to, Due(from, to))
         IN  x \in LoadsOf(Readings) /\ Sound(x)
<1>1. Due(from, to) \subseteq Readings
  BY KeptIsRead DEF Due
<1>2. \A r \in Due(from, to) : config.db_enabled => made[r].taken \in from..to
  BY DEF Due
<1> PICK due \in SUBSET Readings : due = Due(from, to)
  BY <1>1
<1> DEFINE x == [pc |-> "history", from |-> from, to |-> to, due |-> due]
<1>3. x \in LoadsOf(Readings)
  BY DEF LoadsOf
<1>4. Sound(x)
  BY <1>2 DEF Sound
<1> QED
  BY <1>3, <1>4 DEF AskedHistory

(* Its answer, from the table or from memory, has no holes, whatever the    *)
(* server did in between.                                                   *)
LEMMA Answered ==
  ASSUME ServerSide, Memory, NEW h \in LoadsOf(Readings), h.pc = "history", Sound(h),
         NEW s, NEW answer \in HandleHistory(s, h.from, h.to)
  PROVE  LET x == HistoryCame(answer, h.due \cap Kept(s))
         IN  x \in LoadsOf(Readings) /\ Sound(x)
<1>0. h.from \in Int /\ h.to \in Int /\ h.due \in SUBSET Readings
  BY DEF LoadsOf
<1>1. answer \in SUBSET Readings /\ NoHoles(answer, (h.due \cap Kept(s)) \ answer)
  <2>1. CASE config.db_enabled
    <3>1. answer \in GetReadingsInRange(s, h.from, h.to, DefaultLimit)
      BY <2>1 DEF HandleHistory
    <3>2. /\ answer \subseteq rows
          /\ \A r \in rows : made[r].sensor = s /\ made[r].taken \in h.from..h.to /\ r \notin answer =>
               /\ Cardinality(answer) = DefaultLimit
               /\ \A q \in answer : made[r].taken <= made[q].taken
      BY <1>0, <3>1, RangeHasNoHoles
    <3>3. \A r \in rows : made[r].taken \in Int
      <4>1. \A r \in Readings : made[r] \in [sensor : Sensors, taken : 0..now]
        <5>1. made \in Seq([sensor : Sensors, taken : 0..now]) /\ Readings = 1..Len(made)
          BY LenProperties DEF ServerSide, Readings
        <5> QED
          BY <5>1, ElementOfSeq
      <4> QED
        BY <4>1 DEF ServerSide
    <3>4. ASSUME NEW r \in (h.due \cap Kept(s)) \ answer
          PROVE  Cardinality(answer) = DefaultLimit /\ \A q \in answer : ~Newer(r, q)
      <4>1. r \in rows /\ made[r].sensor = s /\ made[r].taken \in h.from..h.to /\ r \notin answer
        BY <2>1 DEF Kept, Sound
      <4>2. Cardinality(answer) = DefaultLimit /\ \A q \in answer : made[r].taken <= made[q].taken
        BY <3>2, <4>1
      <4>3. \A q \in answer : ~(made[r].taken > made[q].taken)
        BY <3>2, <3>3, <4>1, <4>2
      <4> QED
        BY <2>1, <4>2, <4>3 DEF Newer
    <3> QED
      BY <3>2, <3>4 DEF NoHoles, ServerSide
  <2>2. CASE ~config.db_enabled
    <3> PICK n \in Nat : n = Len(made)
      BY DEF ServerSide
    <3>1. Readings = 1..n /\ DefaultLimit \in Nat
      BY DashboardAssumption DEF DashboardAssumption, ServerSide, Readings
    <3>2. ReadingsOf(s) \in Seq(1..n) /\ Increasing(ReadingsOf(s)) /\ Kept(s) \subseteq 1..n
      BY <3>1, KeptIsRead
    <3>3. answer = Range(GetLatest(s, DefaultLimit)) /\ Kept(s) = Range(ReadingsOf(s))
      BY <2>2 DEF HandleHistory, Kept
    <3>4. /\ answer \subseteq Kept(s)
          /\ \A r \in Kept(s) \ answer :
               Cardinality(answer) = DefaultLimit /\ \A q \in answer : r <= q
      BY <3>1, <3>2, <3>3, LatestHasNoHoles
    <3>5. ASSUME NEW r \in Kept(s) \ answer, NEW q \in answer PROVE ~Newer(r, q)
      <4>1. r \in 1..n /\ q \in 1..n /\ r <= q
        BY <3>2, <3>4
      <4>2. ~(r > q)
        BY <4>1
      <4> QED
        BY <2>2, <4>2 DEF Newer
    <3> QED
      BY <3>1, <3>2, <3>4, <3>5 DEF NoHoles
  <2> QED
    BY <2>1, <2>2
<1> PICK left \in SUBSET Readings : left = (h.due \cap Kept(s)) \ answer
  BY <1>0
<1> DEFINE x == [pc |-> "historyCame", answer |-> answer, left |-> left]
<1>2. x \in LoadsOf(Readings)
  BY <1>1 DEF LoadsOf
<1>3. Sound(x)
  BY <1>1 DEF Sound
<1> QED
  BY <1>2, <1>3 DEF HistoryCame

(* A load goes on, and the page shows what comes. *)
LEMMA Proceeds ==
  ASSUME IInv, NEW l \in DOMAIN load, Proceed(l)
  PROVE  Page' /\ Loads' /\ ChartHasNoHoles'
<1>0. ServerSide /\ Memory /\ Page /\ Loads /\ ChartHasNoHoles
  BY DEF IInv
<1>1. load[l] \in LoadsOf(Readings) /\ Sound(load[l])
  BY <1>0, ElementOfSeq DEF Loads
<1>2. UNCHANGED <<serverVars, now>>
  BY DEF Proceed, AnswerCurrent, AnswerHistory, NoAnswer, Becomes, ShowCurrent, ShowHistory
<1>3. Readings' = Readings /\ ServerSide' /\ Grows
  BY <1>0, <1>2, DashboardAssumption DEF serverVars, ServerSide, Grows, Readings, DashboardAssumption
<1>4. \A x : x \in LoadsOf(Readings) /\ Sound(x) /\ Becomes(l, x) => Page' /\ Loads' /\ ChartHasNoHoles'
  BY <1>0, <1>2, <1>3, SamePage, NextLoad DEF Becomes
<1>5. ASSUME NEW answer \in SUBSET Readings
      PROVE  CurrentCame(answer) \in LoadsOf(Readings) /\ Sound(CurrentCame(answer))
  BY DEF CurrentCame, LoadsOf, Sound
<1>6. HistoryCame({}, {}) \in LoadsOf(Readings) /\ Sound(HistoryCame({}, {}))
  BY DEF HistoryCame, LoadsOf, Sound, NoHoles
<1>7. CASE AnswerCurrent(l)
  <2>1. PICK answer \in HandleCurrent : Becomes(l, CurrentCame(answer))
    BY <1>7 DEF AnswerCurrent
  <2>2. \A s \in DOMAIN data : GetCurrentReading(s) \in Readings
    <3> SUFFICES ASSUME NEW s \in DOMAIN data PROVE GetCurrentReading(s) \in Readings
      OBVIOUS
    <3>1. ReadingsOf(s) \in Seq(Readings) /\ ReadingsOf(s) # <<>>
      BY <1>0 DEF ReadingsOf, Memory
    <3>2. Len(ReadingsOf(s)) \in 1..Len(ReadingsOf(s))
      BY <3>1, EmptySeq, LenProperties
    <3> QED
      BY <3>1, <3>2, ElementOfSeq DEF GetCurrentReading
  <2>3. answer \in SUBSET Readings
    BY <2>2 DEF HandleCurrent
  <2> QED
    BY <1>4, <1>5, <2>1, <2>3
<1>8. CASE AnswerHistory(l)
  <2>1. CASE Becomes(l, HistoryCame({}, {}))
    BY <1>4, <1>6, <2>1
  <2>2. ASSUME NEW s, NEW answer \in HandleHistory(s, load[l].from, load[l].to),
               Becomes(l, HistoryCame(answer, load[l].due \cap Kept(s)))
        PROVE  Page' /\ Loads' /\ ChartHasNoHoles'
    <3>1. load[l].pc = "history"
      BY <1>8 DEF AnswerHistory
    <3> QED
      BY <1>0, <1>1, <1>4, <2>2, <3>1, Answered
  <2> QED
    BY <1>8, <2>1, <2>2 DEF AnswerHistory
<1>9. CASE NoAnswer(l)
  BY <1>4, <1>5, <1>6, <1>9 DEF NoAnswer
<1>10. CASE ShowCurrent(l)
  <2> PICK from \in Int, to \in Int : from = now - page.window /\ to = now
    BY <1>0, DashboardAssumption DEF ServerSide, Page, DashboardAssumption
  <2>1. /\ load[l].pc = "currentCame"
        /\ page' = [page EXCEPT !.current = IF load[l].answer = {} THEN @ ELSE load[l].answer]
        /\ load' = [load EXCEPT ![l] = AskedHistory(from, to, Due(from, to))]
    BY <1>10 DEF ShowCurrent
  <2>2. load[l].answer \subseteq Readings
    BY <1>1, <2>1 DEF LoadsOf
  <2>3. Loads'
    BY <1>0, <1>2, <2>1, Asked, NextLoad
  <2> PICK shown \in SUBSET Readings : page' = [page EXCEPT !.current = shown]
    BY <1>0, <2>1, <2>2 DEF Page
  <2>4. /\ page'.mode = page.mode /\ page'.window = page.window /\ page'.view = page.view
        /\ page'.refresh = page.refresh /\ page'.chart = page.chart /\ page'.current = shown
        /\ page' = [mode |-> page'.mode, window |-> page'.window, view |-> page'.view,
                    refresh |-> page'.refresh, current |-> page'.current,
                    chart |-> page'.chart]
    BY <1>0 DEF Page
  <2>5. Page'
    BY <1>0, <1>2, <1>3, <2>4 DEF Page, Looks
  <2>6. ChartHasNoHoles'
    BY <1>0, <1>2, <2>4 DEF ChartHasNoHoles, Newer, serverVars
  <2> QED
    BY <2>3, <2>5, <2>6
<1>11. CASE ShowHistory(l)
  <2>1. /\ load[l].pc = "historyCame"
        /\ page' = [page EXCEPT !.chart = [readings |-> load[l].answer, left |-> load[l].left]]
        /\ load' = RemoveAt(load, l)
    BY <1>11 DEF ShowHistory
  <2>2. PICK shown \in SUBSET Readings, left \in SUBSET Readings :
          shown = load[l].answer /\ left = load[l].left /\ NoHoles(shown, left)
    BY <1>1, <2>1 DEF LoadsOf, Sound
  <2>3. Loads'
    BY <1>0, <1>2, <2>1, OneLoadLess
  <2>4. /\ page'.mode = page.mode /\ page'.window = page.window /\ page'.view = page.view
        /\ page'.refresh = page.refresh /\ page'.current = page.current
        /\ page'.chart = [readings |-> shown, left |-> left]
        /\ page' = [mode |-> page'.mode, window |-> page'.window, view |-> page'.view,
                    refresh |-> page'.refresh, current |-> page'.current,
                    chart |-> page'.chart]
    BY <1>0, <2>1, <2>2 DEF Page
  <2>5. Page'
    BY <1>0, <1>2, <1>3, <2>4 DEF Page, Looks
  <2>6. NoHoles(shown, left)'
    BY <1>3, <2>2, HolesStay
  <2>7. ChartHasNoHoles'
    BY <2>4, <2>6 DEF ChartHasNoHoles, NoHoles
  <2> QED
    BY <2>3, <2>5, <2>7
<1> QED
  BY <1>7, <1>8, <1>9, <1>10, <1>11 DEF Proceed

(* What the user and the timer do: the view stays a window of the past, and *)
(* a load begins.                                                           *)
LEMMA Begun ==
  ASSUME IInv, UNCHANGED <<serverVars, now>>,
         loadLiveData \/ \E from, to \in Int : Begins(AskedHistory(from, to, Due(from, to)))
  PROVE  Loads'
<1>1. ASSUME loadLiveData PROVE Loads'
  <2>1. AskedCurrent \in LoadsOf(Readings) /\ Sound(AskedCurrent)
    BY DEF AskedCurrent, LoadsOf, Sound
  <2> QED
    BY <1>1, <2>1, OneMoreLoad DEF IInv, loadLiveData, Begins
<1>2. ASSUME NEW from \in Int, NEW to \in Int, Begins(AskedHistory(from, to, Due(from, to)))
      PROVE  Loads'
  BY <1>2, Asked, OneMoreLoad DEF IInv, Begins
<1> QED
  BY <1>1, <1>2

(* The view changes, and the length of the window with it or not. *)
LEMMA Turned ==
  ASSUME IInv, UNCHANGED <<serverVars, now>>,
         NEW window \in Windows, NEW from \in Int, NEW to \in Int, NEW refresh \in BOOLEAN,
         from <= to, to <= now, to - from <= window,
         page' = [page EXCEPT !.mode = "historical", !.window = window, !.refresh = refresh,
                              !.view = <<from, to>>]
  PROVE  Page' /\ ChartHasNoHoles' /\ page'.view[1] = from /\ page'.view[2] = to
<1>1. /\ page'.mode = "historical" /\ page'.window = window /\ page'.view = <<from, to>>
      /\ page'.refresh = refresh /\ page'.current = page.current /\ page'.chart = page.chart
      /\ page' = [mode |-> page'.mode, window |-> page'.window, view |-> page'.view,
                  refresh |-> page'.refresh, current |-> page'.current,
                  chart |-> page'.chart]
  BY DEF IInv, Page
<1>2. Looks'
  BY <1>1 DEF Looks
<1>3. Page'
  BY <1>1, <1>2 DEF IInv, Page, Readings, serverVars
<1>4. ChartHasNoHoles'
  BY <1>1 DEF IInv, ChartHasNoHoles, Newer, serverVars
<1> QED
  BY <1>1, <1>3, <1>4

LEMMA UserSteps ==
  ASSUME IInv, User \/ Refresh
  PROVE  Page' /\ Loads' /\ ChartHasNoHoles'
<1>0. UNCHANGED <<serverVars, now>>
  BY DEF User, Refresh, setModeLive, setModeHistorical, setTimeWindow, navigatePrevious, navigateNext
<1>1. /\ page.window \in Windows /\ Windows \subseteq Nat \ {0} /\ now \in Nat
      /\ page = [mode |-> page.mode, window |-> page.window, view |-> page.view,
                 refresh |-> page.refresh, current |-> page.current,
                 chart |-> page.chart]
      /\ page.refresh \in BOOLEAN
  BY DashboardAssumption DEF DashboardAssumption, IInv, Page, ServerSide
<1>2. Readings' = Readings /\ ServerSide' /\ Grows
  BY <1>0, <1>1 DEF IInv, serverVars, ServerSide, Grows, Readings
<1>3. loadHistoricalData /\ page'.view[1] \in Int /\ page'.view[2] \in Int => Loads'
  BY <1>0, Begun DEF loadHistoricalData
<1>4. page.mode = "historical" =>
        \E from, to \in Int : /\ page.view[1] = from /\ page.view[2] = to
                              /\ from <= to /\ to <= now
  BY DEF IInv, Page, Looks
<1>5. CASE Refresh
  BY <1>0, <1>2, <1>5, SamePage, Begun DEF Refresh, IInv
<1>6. CASE setModeLive
  <2>1. page' = [page EXCEPT !.mode = "live", !.view = <<>>, !.refresh = TRUE]
    BY <1>6 DEF setModeLive
  <2>2. /\ page'.mode = "live" /\ page'.window = page.window /\ page'.view = <<>>
        /\ page'.refresh = TRUE /\ page'.current = page.current /\ page'.chart = page.chart
        /\ page' = [mode |-> page'.mode, window |-> page'.window, view |-> page'.view,
                    refresh |-> page'.refresh, current |-> page'.current,
                    chart |-> page'.chart]
    BY <1>1, <2>1
  <2>3. Page'
    BY <1>2, <2>2 DEF IInv, Page, Looks
  <2>4. ChartHasNoHoles'
    BY <1>0, <2>2 DEF IInv, ChartHasNoHoles, Newer, serverVars
  <2> QED
    BY <1>0, <1>6, <2>3, <2>4, Begun DEF setModeLive
<1>7. CASE setModeHistorical
  <2> PICK from \in Int, to \in Int : from = now - page.window /\ to = now
    BY <1>1
  <2>1. page' = [page EXCEPT !.mode = "historical", !.window = page.window, !.refresh = FALSE,
                             !.view = <<from, to>>]
    BY <1>1, <1>7 DEF setModeHistorical
  <2>2. from <= to /\ to <= now /\ to - from <= page.window
    BY <1>1
  <2>5. Page' /\ ChartHasNoHoles' /\ page'.view[1] = from /\ page'.view[2] = to
    BY <1>0, <1>1, <2>1, <2>2, Turned
  <2>6. loadHistoricalData
    BY <1>7 DEF setModeHistorical
  <2> QED
    BY <1>3, <2>5, <2>6
<1>8. CASE setTimeWindow
  <2>1. PICK w \in Windows :
          page' = [page EXCEPT !.window = w, !.view = <<page.view[2] - w, page.view[2]>>]
    BY <1>8 DEF setTimeWindow
  <2>2. page.mode = "historical"
    BY <1>8 DEF setTimeWindow
  <2> PICK to \in Int : to = page.view[2] /\ to <= now
    BY <1>4, <2>2
  <2> PICK from \in Int : from = to - w
    BY <1>1
  <2>3. page' = [page EXCEPT !.mode = "historical", !.window = w, !.refresh = page.refresh,
                             !.view = <<from, to>>]
    BY <1>1, <2>1, <2>2
  <2>4. from <= to /\ to - from <= w
    BY <1>1
  <2>5. Page' /\ ChartHasNoHoles' /\ page'.view[1] = from /\ page'.view[2] = to
    BY <1>0, <1>1, <2>3, <2>4, Turned
  <2>6. loadHistoricalData
    BY <1>8 DEF setTimeWindow
  <2> QED
    BY <1>3, <2>5, <2>6
<1>9. CASE navigatePrevious
  <2>1. /\ page.mode = "historical"
        /\ page' = [page EXCEPT !.view = <<page.view[1] - page.window, page.view[1]>>]
    BY <1>9 DEF navigatePrevious
  <2> PICK to \in Int : to = page.view[1] /\ to <= now
    BY <1>1, <1>4, <2>1
  <2> PICK from \in Int : from = to - page.window
    BY <1>1
  <2>3. page' = [page EXCEPT !.mode = "historical", !.window = page.window, !.refresh = page.refresh,
                             !.view = <<from, to>>]
    BY <1>1, <2>1
  <2>4. from <= to /\ to - from <= page.window
    BY <1>1
  <2>5. Page' /\ ChartHasNoHoles' /\ page'.view[1] = from /\ page'.view[2] = to
    BY <1>0, <1>1, <2>3, <2>4, Turned
  <2>6. loadHistoricalData
    BY <1>9 DEF navigatePrevious
  <2> QED
    BY <1>3, <2>5, <2>6
<1>10. CASE navigateNext
  <2>1. /\ page.mode = "historical"
        /\ page' = [page EXCEPT !.view = <<page.view[2], Min({page.view[2] + page.window, now})>>]
    BY <1>10 DEF navigateNext
  <2> PICK from \in Int : from = page.view[2] /\ from <= now
    BY <1>4, <2>1
  <2>2. Min({from + page.window, now}) = IF from + page.window <= now THEN from + page.window ELSE now
    <3>1. from + page.window \in Int /\ now \in Int
      BY <1>1
    <3> QED
      BY <3>1, LeastOfTwo
  <2> PICK to \in Int : to = Min({from + page.window, now})
    BY <1>1, <2>2
  <2>3. page' = [page EXCEPT !.mode = "historical", !.window = page.window, !.refresh = page.refresh,
                             !.view = <<from, to>>]
    BY <1>1, <2>1
  <2>4. from <= to /\ to <= now /\ to - from <= page.window
    BY <1>1, <2>2
  <2>5. Page' /\ ChartHasNoHoles' /\ page'.view[1] = from /\ page'.view[2] = to
    BY <1>0, <1>1, <2>3, <2>4, Turned
  <2>6. loadHistoricalData
    BY <1>10 DEF navigateNext
  <2> QED
    BY <1>3, <2>5, <2>6
<1> QED
  BY <1>5, <1>6, <1>7, <1>8, <1>9, <1>10 DEF User

-----------------------------------------------------------------------------
LEMMA Inits == Init => IInv
<1> SUFFICES ASSUME Init PROVE IInv
  OBVIOUS
<1>1. ServerSide /\ Readings = {}
  <2>1. PICK file \in Files, env \in Envs : config \in LoadAppConfig(file, env)
    BY DEF Init
  <2>2. config.buffer_size = StoreCapacity
    BY <2>1, DashboardAssumption DEF DashboardAssumption
  <2>3. \A S : <<>> \in Seq(S)
    OBVIOUS
  <2>4. 0 \in 0..MaxTime
    BY DashboardAssumption DEF DashboardAssumption
  <2> QED
    BY <2>2, <2>3, <2>4 DEF Init, ServerSide, Readings
<1>2. Memory
  BY DEF Init, StoreInit, Memory
<1>3. /\ page = [mode |-> "live", window |-> Initial, view |-> <<>>, refresh |-> TRUE, current |-> {},
                 chart |-> [readings |-> {}, left |-> {}]]
  BY DEF Init, NoChart
<1>4. Page /\ ChartHasNoHoles
  BY <1>3, DashboardAssumption DEF DashboardAssumption, Page, Looks, ChartHasNoHoles
<1>5. Loads
  <2>1. AskedCurrent \in LoadsOf(Readings) /\ Sound(AskedCurrent)
    BY DEF AskedCurrent, LoadsOf, Sound
  <2>2. load = <<AskedCurrent>>
    BY DEF Init
  <2>3. load \in Seq(LoadsOf(Readings)) /\ Len(load) = 1 /\ load[1] = AskedCurrent
    BY <2>1, <2>2
  <2> QED
    BY <2>1, <2>3 DEF Loads
<1> QED
  BY <1>1, <1>2, <1>4, <1>5 DEF IInv

LEMMA Steps == IInv /\ [Next]_vars => IInv'
<1> SUFFICES ASSUME IInv, [Next]_vars PROVE IInv'
  OBVIOUS
<1>1. ServerSide' /\ Memory' /\ Grows
  BY ServerSteps, MemorySteps DEF IInv
<1>2. CASE UNCHANGED <<page, load>>
  BY <1>1, <1>2, SamePage, SameLoads DEF IInv
<1>3. CASE User \/ Refresh
  BY <1>1, <1>3, UserSteps DEF IInv
<1>4. CASE \E l \in DOMAIN load : Proceed(l)
  BY <1>1, <1>4, Proceeds DEF IInv
<1> QED
  BY <1>2, <1>3, <1>4
  DEF Next, Server, Tick, Receive, Flush, DeleteOlderThan, Restart, vars

(* The invariant holds for any sensors, configurations, windows and limits. *)
THEOREM Inductive == Spec => []IInv
BY Inits, Steps, PTL DEF Spec

(* However the user goes back and forth, a historical view is a window of   *)
(* the past that is no longer than the one chosen, and what is stored and   *)
(* shown are readings that arrived.                                         *)
THEOREM TypeCorrect == Spec => []DashboardTypeOK
<1>1. IInv => DashboardTypeOK
  <2> SUFFICES ASSUME IInv PROVE DashboardTypeOK
    OBVIOUS
  <2>1. \A r \in Readings : made[r] \in [sensor : Sensors, taken : 0..now]
    <3>1. made \in Seq([sensor : Sensors, taken : 0..now]) /\ Readings = 1..Len(made)
      BY LenProperties DEF IInv, ServerSide, Readings
    <3> QED
      BY <3>1, ElementOfSeq
  <2>2. rows \cup Range(queue) \cup page.current \cup page.chart.readings \subseteq Readings
    <3>1. Range(queue) \subseteq Readings
      BY DEF IInv, ServerSide, Range
    <3> QED
      BY <3>1 DEF IInv, ServerSide, Page
  <2>3. IF page.mode = "live"
        THEN page.view = <<>>
        ELSE /\ page.mode = "historical"
             /\ page.view[1] <= page.view[2] /\ page.view[2] <= now
             /\ page.view[2] - page.view[1] <= page.window
    BY DEF IInv, Page, Looks
  <2>4. \A l \in DOMAIN load : load[l].pc \in {"current", "currentCame", "history", "historyCame"}
    <3>1. load \in Seq(LoadsOf(Readings)) /\ DOMAIN load = 1..Len(load)
      BY LenProperties DEF IInv, Loads
    <3>2. \A x \in LoadsOf(Readings) : x.pc \in {"current", "currentCame", "history", "historyCame"}
      BY DEF LoadsOf
    <3> QED
      BY <3>1, <3>2, ElementOfSeq
  <2> QED
    BY <2>1, <2>2, <2>3, <2>4 DEF IInv, ServerSide, Page, DashboardTypeOK
<1> QED
  BY <1>1, Inductive, PTL

(* The chart leaves out only what does not fit in and is not newer than     *)
(* what it shows, though answers overtake each other and the server erases, *)
(* flushes and is started again between a request and its answer.           *)
THEOREM NoHolesInChart == Spec => []ChartHasNoHoles
<1>1. IInv => ChartHasNoHoles
  BY DEF IInv
<1> QED
  BY <1>1, Inductive, PTL

=============================================================================
