------------------------------ MODULE LogProofs ------------------------------
(***************************************************************************)
(* What a reader of the daily log files can rely on, for any retention,    *)
(* any number of lines, rotations, restarts and failed operations, however *)
(* the clock moves.                                                        *)
(*                                                                         *)
(* The properties of DailyLog are not inductive.  What they lack: an open  *)
(* file is the one of currentDate, and only age can have taken it from the *)
(* directory; and the lines are numbered one after the other.              *)
(***************************************************************************)
EXTENDS DailyLog, FiniteSetTheorems, TLAPS

-----------------------------------------------------------------------------
(* The invariant. *)

\* The file that is open was created on the day that currentDate names.
OpenInv ==
    /\ file.state # "closed"
    /\ file.state = "open" => /\ file.day = currentDate
                              /\ currentDate \in Days
                              /\ file.day \in DOMAIN disk \/ Old(file.day, latest)

\* The lines have the numbers from one on.
NumberInv ==
    /\ IsFiniteSet(written)
    /\ \A l \in written : l.nr \in 1..Cardinality(written)
    /\ \A l, m \in written : l.nr = m.nr => l = m
    /\ Cardinality(written) <= MaxLines

IInv ==
    /\ TypeOK
    /\ OpenInv
    /\ NumberInv
    /\ LinesKept
    /\ OldFilesGo
    /\ LossHasFault
-----------------------------------------------------------------------------
(* Lemmas about the operators. *)

LEMMA MaxOfTwo ==
    ASSUME NEW a \in Int, NEW b \in Int
    PROVE  /\ Max({a, b}) \in {a, b}
           /\ a <= Max({a, b}) /\ b <= Max({a, b})
<1>1. \E x \in {a, b} : \A y \in {a, b} : x >= y
  <2>1. CASE a >= b
    <3>1. \A y \in {a, b} : a >= y
      BY <2>1
    <3> QED BY <3>1
  <2>2. CASE ~(a >= b)
    <3>1. \A y \in {a, b} : b >= y
      BY <2>2
    <3> QED BY <3>1
  <2> QED BY <2>1, <2>2
<1>2. Max({a, b}) \in {a, b} /\ \A y \in {a, b} : Max({a, b}) >= y
  BY <1>1, Zenon DEF Max
<1> QED BY <1>2

LEMMA DayOfMoment ==
    ASSUME NEW t \in Moments
    PROVE  Day(t) \in Days /\ 2 * Day(t) <= t /\ t <= 2 * Day(t) + 1
BY LogAssumption DEF Day, Days, Moments

LEMMA CapacityIsNat == MaxTime \in Nat /\ MaxLines \in Nat /\ MaxFaults \in Nat
BY LogAssumption

\* The highest clock only grows.
LEMMA LatestGrows ==
    ASSUME TypeOK, NEW t \in Moments
    PROVE  /\ t \in Int /\ time \in Int /\ latest \in Int
           /\ Max({t, latest}) \in t..MaxTime /\ latest <= Max({t, latest})
<1>1. t \in Int /\ time \in Int /\ latest \in Int /\ t <= MaxTime /\ latest <= MaxTime
  BY CapacityIsNat DEF TypeOK, Moments
<1> DEFINE m == Max({t, latest})
<1>2. m \in {t, latest} /\ t <= m /\ latest <= m
  BY <1>1, MaxOfTwo
<1> HIDE DEF m
<1>3. m \in t..MaxTime /\ latest <= m
  BY <1>1, <1>2, CapacityIsNat
<1> QED
  BY <1>1, <1>3 DEF m

\* A file that is too old at one moment is too old at every later one.
LEMMA OldForGood ==
    ASSUME NEW d \in Int, NEW t \in Int, NEW u \in Int, t <= u, Old(d, t)
    PROVE  Old(d, u)
BY LogAssumption DEF Old

-----------------------------------------------------------------------------
(* A line. *)

\* What rotation and cleanup must leave for the line that is written next.
Ready(files) ==
    /\ DOMAIN files \subseteq Days
    /\ \A d \in DOMAIN files : files[d] \subseteq 0..Cardinality(written)
    /\ Day(time) \in DOMAIN files \/ Old(Day(time), latest')
    /\ \A l \in written :
          \/ Old(l.day, latest')
          \/ l.day \in DOMAIN files /\ l.nr \in files[l.day]

\* The next line is numbered after all others, and it is in its day's file or
\* that file is too old.
LEMMA PutKeeps ==
    ASSUME IInv, NEW files, Ready(files), CanWrite, NEW o \in Outcomes,
           Put(OpenFile(Day(time)), files, o), Fault(o = "ok")
    PROVE  /\ DOMAIN disk' = DOMAIN files
           /\ \A d \in DOMAIN disk' : disk'[d] \subseteq 0..Cardinality(written')
           /\ \A l \in written' : l.nr \in 1..MaxLines /\ l.day \in Days
           /\ lost' \in Nat /\ faults' \in 0..MaxFaults
           /\ NumberInv' /\ LinesKept' /\ LossHasFault'
<1> DEFINE n == Cardinality(written)
           line == [nr |-> n + 1, day |-> Day(time)]
<1>1. n \in Nat /\ line.nr = n + 1 /\ line.day = Day(time) /\ Day(time) \in Days
  BY FS_CardinalityType, DayOfMoment DEF IInv, NumberInv, TypeOK
<1>2. line \notin written
  BY <1>1 DEF IInv, NumberInv
<1>3. OpenFile(Day(time)).state = "open" /\ OpenFile(Day(time)).day = Day(time)
  BY DEF OpenFile
<1>4. CASE o # "ok"
  <2>1. /\ \/ disk' = files
           \/ /\ Day(time) \in DOMAIN files
              /\ disk' = [files EXCEPT ![Day(time)] = @ \cup (IF o = "part" THEN {0} ELSE {})]
        /\ written' = written /\ lost' = lost + 1 /\ faults' = faults + 1
    BY <1>3, <1>4 DEF Put, Fault
  <2>0. /\ DOMAIN disk' = DOMAIN files
        /\ \A d \in DOMAIN files : /\ files[d] \subseteq disk'[d]
                                   /\ disk'[d] \subseteq files[d] \cup {0}
    BY <2>1
  <2>2. NumberInv'
    BY <2>1 DEF IInv, NumberInv
  <2>3. LinesKept'
    BY <2>0, <2>1 DEF Ready, LinesKept, Old
  <2>4. lost' \in Nat /\ faults' \in 0..MaxFaults /\ LossHasFault'
    BY <2>1, LogAssumption DEF IInv, TypeOK, LossHasFault, Fault
  <2>5. \A d \in DOMAIN disk' : disk'[d] \subseteq 0..Cardinality(written')
    BY <2>0, <2>1, <1>1 DEF Ready
  <2> QED
    BY <2>0, <2>1, <2>2, <2>3, <2>4, <2>5 DEF IInv, TypeOK, Ready
<1>5. CASE o = "ok"
  <2>1. /\ disk' = IF Day(time) \in DOMAIN files
                   THEN [files EXCEPT ![Day(time)] = @ \cup {line.nr}] ELSE files
        /\ written' = written \cup {line}
        /\ lost' = lost /\ faults' = faults
    BY <1>5, <1>3 DEF Put, Fault
  <2>2. Cardinality(written') = n + 1 /\ IsFiniteSet(written')
    BY <2>1, <1>2, FS_AddElement DEF IInv, NumberInv
  <2>3. NumberInv'
    <3>1. \A l \in written' : l.nr \in 1..Cardinality(written')
      BY <2>1, <2>2, <1>1 DEF IInv, NumberInv
    <3>2. \A l, m \in written' : l.nr = m.nr => l = m
      <4> SUFFICES ASSUME NEW l \in written', NEW m \in written', l.nr = m.nr
                   PROVE  l = m
        OBVIOUS
      <4>1. \A k \in written : k.nr # n + 1
        BY <1>1 DEF IInv, NumberInv
      <4> QED
        BY <4>1, <2>1, <1>1 DEF IInv, NumberInv
    <3>3. Cardinality(written') <= MaxLines
      BY <2>2, <1>1, LogAssumption DEF CanWrite
    <3> QED
      BY <3>1, <3>2, <3>3, <2>2 DEF NumberInv
  <2>4. /\ DOMAIN disk' = DOMAIN files
        /\ \A d \in DOMAIN files :
              disk'[d] = IF d = Day(time) THEN files[d] \cup {n + 1} ELSE files[d]
    BY <2>1, <1>1
  <2>5. \A d \in DOMAIN disk' : disk'[d] \subseteq 0..Cardinality(written')
    BY <2>4, <2>2, <1>1 DEF Ready
  <2>6. LinesKept'
    <3> SUFFICES ASSUME NEW l \in written'
                 PROVE  \/ Old(l.day, latest')
                        \/ l.day \in DOMAIN disk' /\ l.nr \in disk'[l.day]
      BY DEF LinesKept, Old
    <3>1. CASE l \in written
      BY <3>1, <2>4 DEF Ready
    <3>2. CASE l = line
      BY <3>2, <2>4, <1>1 DEF Ready
    <3> QED
      BY <3>1, <3>2, <2>1
  <2>7. lost' \in Nat /\ faults' \in 0..MaxFaults /\ LossHasFault'
    BY <2>1 DEF IInv, TypeOK, LossHasFault
  <2>8. \A l \in written' : l.nr \in 1..MaxLines /\ l.day \in Days
    BY <2>1, <1>1, LogAssumption DEF IInv, TypeOK, CanWrite
  <2> QED
    BY <2>3, <2>4, <2>5, <2>6, <2>7, <2>8
<1> QED
  BY <1>4, <1>5

\* The file of the day is there already.
LEMMA WriteOnKeeps == IInv /\ WriteOn => IInv'
<1> SUFFICES ASSUME IInv, CanWrite, Current, NEW o \in Outcomes,
                    Put(file, disk, o), Fault(o = "ok"),
                    UNCHANGED <<file, currentDate, swept, time, latest>>
             PROVE  IInv'
  BY DEF WriteOn
<1>1. file = OpenFile(Day(time))
  <2>1. file.state = "open" /\ file.day = Day(time)
    BY DEF IInv, TypeOK, OpenInv, Current
  <2> QED
    BY <2>1 DEF IInv, TypeOK, OpenFile
<1>2. Ready(disk)
  BY <1>1 DEF IInv, TypeOK, OpenInv, LinesKept, Ready, OpenFile
<1>3. /\ DOMAIN disk' = DOMAIN disk
      /\ \A d \in DOMAIN disk' : disk'[d] \subseteq 0..Cardinality(written')
      /\ \A l \in written' : l.nr \in 1..MaxLines /\ l.day \in Days
      /\ lost' \in Nat /\ faults' \in 0..MaxFaults
      /\ NumberInv' /\ LinesKept' /\ LossHasFault'
  BY <1>1, <1>2, PutKeeps
<1>4. TypeOK'
  BY <1>3 DEF IInv, TypeOK
<1>5. OpenInv' /\ OldFilesGo'
  BY <1>3 DEF IInv, OpenInv, OldFilesGo, Old
<1> QED
  BY <1>3, <1>4, <1>5 DEF IInv

\* The day's file is created, and the cleanup takes only old ones.
LEMMA WriteRotatedKeeps == IInv /\ WriteRotated => IInv'
<1> SUFFICES ASSUME IInv, CanWrite, ~Current, NEW o \in Outcomes,
                    NEW t \in {time, time + 1} \cap Moments,
                    NEW left \in SUBSET OldIn(Created(Day(time)), t),
                    file' = OpenFile(Day(time)),
                    currentDate' = Day(time),
                    swept' = (left = {}),
                    Put(file', Swept(Created(Day(time)), t, left), o),
                    Fault(o = "ok"),
                    time' = t,
                    latest' = Max({t, latest})
             PROVE  IInv'
  BY Zenon DEF WriteRotated
<1> DEFINE date == Day(time)
           created == Created(date)
           files == Swept(created, t, left)
<1>1. /\ time \in Int /\ t \in Int /\ latest \in Int /\ latest' \in Int
      /\ time <= t /\ t <= latest' /\ latest <= latest' /\ latest' \in t..MaxTime
      /\ date \in Days /\ date \in Int
  <2>1. TypeOK /\ time \in Moments /\ t \in Moments
    BY DEF IInv, TypeOK
  <2>2. /\ t \in Int /\ time \in Int /\ latest \in Int
        /\ latest' \in t..MaxTime /\ latest <= latest'
    BY <2>1, LatestGrows
  <2>3. date \in Days /\ date \in Int
    BY <2>1, DayOfMoment DEF Days
  <2> QED
    BY <2>2, <2>3, CapacityIsNat
<1>2. /\ DOMAIN created = DOMAIN disk \cup {date}
      /\ \A d \in DOMAIN disk : created[d] = disk[d]
      /\ created[date] \subseteq 0..Cardinality(written)
  BY DEF Created, IInv, TypeOK
<1>3. /\ DOMAIN files \subseteq DOMAIN created
      /\ \A d \in DOMAIN files : files[d] = created[d]
      /\ \A d \in DOMAIN created : d \in DOMAIN files \/ Old(d, t)
      /\ left = {} => \A d \in DOMAIN files : ~Old(d, t)
  BY DEF Swept, Restrict, OldIn
<1>4. Ready(files)
  <2>1. DOMAIN files \subseteq Days
    BY <1>1, <1>2, <1>3 DEF IInv, TypeOK
  <2>2. \A d \in DOMAIN files : files[d] \subseteq 0..Cardinality(written)
    BY <1>2, <1>3 DEF IInv, TypeOK
  <2>3. date \in DOMAIN files \/ Old(date, latest')
    BY <1>1, <1>2, <1>3, OldForGood
  <2>4. ASSUME NEW l \in written
        PROVE  Old(l.day, latest') \/ (l.day \in DOMAIN files /\ l.nr \in files[l.day])
    <3>1. l.day \in Int
      BY DEF IInv, TypeOK, Days
    <3>2. CASE Old(l.day, latest)
      BY <3>1, <3>2, <1>1, OldForGood
    <3>3. CASE l.day \in DOMAIN disk /\ l.nr \in disk[l.day]
      BY <3>1, <3>3, <1>1, <1>2, <1>3, OldForGood
    <3> QED
      BY <3>2, <3>3 DEF IInv, LinesKept
  <2> QED
    BY <2>1, <2>2, <2>3, <2>4 DEF Ready
<1>5. Put(OpenFile(Day(time)), files, o)
  OBVIOUS
<1> HIDE DEF files, created
<1>6. /\ DOMAIN disk' = DOMAIN files
      /\ \A d \in DOMAIN disk' : disk'[d] \subseteq 0..Cardinality(written')
      /\ \A l \in written' : l.nr \in 1..MaxLines /\ l.day \in Days
      /\ lost' \in Nat /\ faults' \in 0..MaxFaults
      /\ NumberInv' /\ LinesKept' /\ LossHasFault'
  BY <1>4, <1>5, PutKeeps
<1>7. TypeOK'
  BY <1>1, <1>4, <1>6 DEF TypeOK, OpenFile, Ready
<1>8. OpenInv'
  BY <1>1, <1>4, <1>6 DEF OpenInv, OpenFile, Ready, Old
<1>9. OldFilesGo'
  <2> SUFFICES ASSUME left = {}, NEW d \in DOMAIN files
               PROVE  d + RetentionDays >= date
    BY <1>6 DEF OldFilesGo, OpenFile
  <2>1. d \in Int /\ ~Old(d, t) /\ 2 * date <= time
    BY <1>3, <1>4, <1>1, DayOfMoment DEF Ready, Days, IInv, TypeOK
  <2> QED
    BY <2>1, <1>1, LogAssumption DEF Old
<1> QED
  BY <1>6, <1>7, <1>8, <1>9 DEF IInv

-----------------------------------------------------------------------------
(* The theorem. *)

LEMMA InitKeeps == Init => IInv
<1> SUFFICES ASSUME Init
             PROVE  IInv
  OBVIOUS
<1>1. TypeOK
  BY FS_EmptySet, CapacityIsNat DEF Init, TypeOK, NoFile, Moments
<1>2. NumberInv
  BY FS_EmptySet, CapacityIsNat DEF Init, NumberInv
<1>3. OpenInv /\ LinesKept /\ OldFilesGo /\ LossHasFault
  BY DEF Init, OpenInv, LinesKept, OldFilesGo, LossHasFault, NoFile
<1> QED
  BY <1>1, <1>2, <1>3 DEF IInv

\* The other steps write nothing and remove nothing.
LEMMA OtherKeeps ==
    IInv /\ (WriteNowhere \/ Close \/ Restart \/ Clock \/ UNCHANGED vars) => IInv'
<1> SUFFICES ASSUME IInv,
                    WriteNowhere \/ Close \/ Restart \/ Clock \/ UNCHANGED vars
             PROVE  IInv'
  OBVIOUS
<1>1. CASE WriteNowhere
  BY <1>1, CapacityIsNat DEF WriteNowhere, IInv, TypeOK, OpenInv, NumberInv, LinesKept,
     OldFilesGo, LossHasFault, Closed, NoFile, Fault, Old
<1>2. CASE Close
  BY <1>2 DEF Close, IInv, TypeOK, OpenInv, NumberInv, LinesKept, OldFilesGo,
     LossHasFault, NoFile, Old
<1>3. CASE Restart
  BY <1>3 DEF Restart, IInv, TypeOK, OpenInv, NumberInv, LinesKept, OldFilesGo,
     LossHasFault, NoFile, Old
<1>4. CASE Clock
  <2>1. /\ latest \in Int /\ latest' \in Int /\ latest <= latest'
        /\ time' \in Moments /\ latest' \in time'..MaxTime
    <3>1. PICK t \in Moments : time' = t /\ latest' = Max({t, latest})
      BY <1>4 DEF Clock
    <3> QED
      BY <3>1, LatestGrows, CapacityIsNat DEF IInv
  <2>2. TypeOK' /\ NumberInv' /\ OldFilesGo' /\ LossHasFault'
    BY <1>4, <2>1 DEF Clock, IInv, TypeOK, NumberInv, OldFilesGo, LossHasFault
  <2>3. LinesKept'
    <3> SUFFICES ASSUME NEW l \in written
                 PROVE  Old(l.day, latest') \/ (l.day \in DOMAIN disk /\ l.nr \in disk[l.day])
      BY <1>4 DEF Clock, LinesKept, Old
    <3> QED
      BY <2>1, OldForGood DEF IInv, TypeOK, LinesKept, Days
  <2>4. OpenInv'
    <3>1. ASSUME file.state = "open"
          PROVE  file.day \in DOMAIN disk \/ Old(file.day, latest')
      BY <3>1, <2>1, OldForGood DEF IInv, OpenInv, Days
    <3> QED
      BY <3>1, <1>4 DEF Clock, IInv, OpenInv, Old
  <2> QED
    BY <2>2, <2>3, <2>4 DEF IInv
<1>5. CASE UNCHANGED vars
  BY <1>5 DEF vars, IInv, TypeOK, OpenInv, NumberInv, LinesKept, OldFilesGo,
     LossHasFault, Old
<1> QED
  BY <1>1, <1>2, <1>3, <1>4, <1>5

LEMMA Inductive == Spec => []IInv
<1>1. IInv /\ [Next]_vars => IInv'
  BY WriteOnKeeps, WriteRotatedKeeps, OtherKeeps DEF Next, Write
<1> QED
  BY InitKeeps, <1>1, PTL DEF Spec

\* The variables keep their types, and every file is one of a day of the clock.
THEOREM LogTypes == Spec => []TypeOK
<1>1. IInv => TypeOK
  BY DEF IInv
<1> QED
  BY Inductive, <1>1, PTL

\* A line that Write acknowledged is in the file of its day for the whole of the
\* retention, whatever the clock does and however often the writer rotates,
\* cleans up, is closed or starts again.
THEOREM LinesAreKept == Spec => []LinesKept
<1>1. IInv => LinesKept
  BY DEF IInv
<1> QED
  BY Inductive, <1>1, PTL

\* No file outlives the retention past the next rotation that can clean up.
THEOREM OldFilesAreGone == Spec => []OldFilesGo
<1>1. IInv => OldFilesGo
  BY DEF IInv
<1> QED
  BY Inductive, <1>1, PTL

\* A rotation that fails costs the line it fails on and no other.
THEOREM LossesHaveFaults == Spec => []LossHasFault
<1>1. IInv => LossHasFault
  BY DEF IInv
<1> QED
  BY Inductive, <1>1, PTL
=============================================================================
