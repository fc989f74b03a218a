------------------------------- MODULE DailyLog -------------------------------
(***************************************************************************)
(* DailyWriter (internal/logging/daily.go): one log file per day, opened   *)
(* by the first write of the day, which also removes the files that are    *)
(* older than the retention.  Every operation holds the writer's mutex.    *)
(*                                                                         *)
(* Time runs in half days, so that a day has its midnight and a later      *)
(* moment; the clock may be set back.  Rotation reads it twice.            *)
(***************************************************************************)
EXTENDS FiniteSetsExt, Functions

CONSTANTS
    NULL,           \* currentDate of a new writer
    RetentionDays,  \* one or more: NewDailyWriter takes 31 for less
    MaxTime,        \* bound: the last half day
    MaxLines,       \* bound: lines written
    MaxFaults       \* bound: times that a file operation fails

ASSUME LogAssumption ==
    /\ NULL \notin Int
    /\ RetentionDays \in Nat \ {0}
    /\ {MaxTime, MaxLines, MaxFaults} \subseteq Nat

VARIABLES
    file,         \* the open file: its day, or not
    currentDate,  \* the day of the last file that was opened
    disk,         \* the files, by day, with the lines in them; 0: a part of one
    swept,        \* the last cleanup left no file that it should have removed
    time, latest, \* the clock, and the highest it ever showed
    written,      \* history: lines Write acknowledged, with the day of each
    lost,         \* history: lines Write returned an error for
    faults        \* history and bound counter: file operations that failed

vars == <<file, currentDate, disk, swept, time, latest, written, lost, faults>>

Moments == 0..MaxTime

\* Mutant of Day: the date of another time zone.
DayElsewhere(t) == (t + 1) \div 2

\* The local date.
Day(t) == t \div 2

NoFile == [state |-> "nil", day |-> NULL]
OpenFile(d) == [state |-> "open", day |-> d]

Init ==
    /\ file = NoFile /\ currentDate = NULL
    /\ disk = [d \in {} |-> {}]
    /\ swept = TRUE
    /\ time = 0 /\ latest = 0
    /\ written = {} /\ lost = 0 /\ faults = 0

-----------------------------------------------------------------------------
\* os.OpenFile with O_CREATE and O_APPEND
Created(d) ==
    [e \in DOMAIN disk \cup {d} |-> IF e \in DOMAIN disk THEN disk[e] ELSE {}]

\* Mutant of Old: the limit is a day late.
OlderStill(d, t) == 2 * d + 2 * (RetentionDays + 1) < t

\* The file's midnight is before now - retention.
Old(d, t) == 2 * d + 2 * RetentionDays < t

OldIn(files, t) == {d \in DOMAIN files : Old(d, t)}

\* cleanupLocked, on a directory with these files: each removal may fail, and
\* all of them are left when the directory cannot be read.
Swept(files, t, left) == Restrict(files, (DOMAIN files \ OldIn(files, t)) \cup left)

\* Mutant of Closed: the file is closed and not set to nil.
StillThere == IF file.state = "nil" THEN NoFile ELSE [file EXCEPT !.state = "closed"]

\* What rotateLocked keeps of the old file before it opens the new one.
Closed == NoFile

\* What w.file.Write may come to: a full disk leaves nothing or a part of the
\* line, and the next line then goes on where that one stopped.
Outcomes == {"ok", "none", "part"}

\* With an open file the line is in it unless the disk fails.  A file that was
\* removed meanwhile takes the line with it.
Put(handle, files, o) ==
    LET line == [nr |-> Cardinality(written) + 1, day |-> Day(time)]
        done == o = "ok" /\ handle.state = "open"
        added == IF done THEN {line.nr} ELSE IF o = "part" THEN {0} ELSE {}
    IN  /\ disk' = IF handle.day \in DOMAIN files
                   THEN [files EXCEPT ![handle.day] = @ \cup added] ELSE files
        /\ written' = IF done THEN written \cup {line} ELSE written
        /\ lost' = IF done THEN lost ELSE lost + 1

\* Mutant of Current: any open file will do.
CurrentIfOpen == file.state # "nil"

Current == file.state # "nil" /\ currentDate = Day(time)

CanWrite == Cardinality(written) < MaxLines

Fault(ok) == faults' = (IF ok THEN faults ELSE faults + 1) /\ faults' <= MaxFaults

\* The day's file is open already.
WriteOn ==
    /\ CanWrite /\ Current
    /\ \E o \in Outcomes : Put(file, disk, o) /\ Fault(o = "ok")
    /\ UNCHANGED <<file, currentDate, swept, time, latest>>

\* The day changed, or there is no file: rotate, clean up by a clock that went
\* on meanwhile, write.
WriteRotated ==
    /\ CanWrite /\ ~Current
    /\ \E o \in Outcomes, t \in {time, time + 1} \cap Moments :
          LET date == Day(time)
          IN  /\ file' = OpenFile(date)
              /\ currentDate' = date
              /\ \E left \in SUBSET OldIn(Created(date), t) :
                    /\ swept' = (left = {})
                    /\ Put(file', Swept(Created(date), t, left), o)
              /\ Fault(o = "ok")
              /\ time' = t
              /\ latest' = Max({t, latest})

\* The new file cannot be opened: the line is lost and no file is open.
WriteNowhere ==
    /\ CanWrite /\ ~Current
    /\ file' = Closed
    /\ lost' = lost + 1
    /\ Fault(FALSE)
    /\ UNCHANGED <<currentDate, disk, swept, time, latest, written>>

Write == WriteOn \/ WriteRotated \/ WriteNowhere

\* A later Write opens the file again.
Close ==
    /\ file.state # "nil"
    /\ file' = NoFile
    /\ UNCHANGED <<currentDate, disk, swept, time, latest, written, lost, faults>>

\* The process ends; a new one makes a new writer for the directory.
Restart ==
    /\ file' = NoFile
    /\ currentDate' = NULL
    /\ UNCHANGED <<disk, swept, time, latest, written, lost, faults>>

\* The clock goes on, or is set back.
Clock ==
    /\ time' \in {time - 1, time + 1} \cap Moments
    /\ latest' = Max({time', latest})
    /\ UNCHANGED <<file, currentDate, disk, swept, written, lost, faults>>

Next == Write \/ Close \/ Restart \/ Clock

Spec == Init /\ [][Next]_vars
-----------------------------------------------------------------------------
(* Properties. *)

Days == 0..MaxTime \div 2

\* The variables keep their types, and every file is one of a day of the clock
\* (daily.go:79 names it).
TypeOK ==
    /\ file \in [state : {"nil", "open", "closed"}, day : Days \cup {NULL}]
    /\ currentDate \in Days \cup {NULL}
    /\ DOMAIN disk \subseteq Days
    /\ \A d \in DOMAIN disk : disk[d] \subseteq 0..Cardinality(written)
    /\ swept \in BOOLEAN
    /\ time \in Moments /\ latest \in time..MaxTime
    /\ \A l \in written : l.nr \in 1..MaxLines /\ l.day \in Days
    /\ lost \in Nat /\ faults \in 0..MaxFaults

\* A line that Write acknowledged is in the file of the day it was written on,
\* for the whole of the retention, whatever the clock does and however often
\* the files are rotated, closed, reopened and cleaned up.  (After a part of a
\* line that failed, it is on one line with that part.)
LinesKept ==
    \A l \in written :
        \/ Old(l.day, latest)
        \/ l.day \in DOMAIN disk /\ l.nr \in disk[l.day]

\* While a file is open, no file is there that was too old when its day began,
\* unless the last cleanup failed to remove one.
OldFilesGo ==
    file.state = "open" /\ swept =>
        \A d \in DOMAIN disk : d + RetentionDays >= file.day

\* Each lost line has a failed file operation of its own: a rotation that fails
\* costs the line it fails on, and a later write finds its way.
LossHasFault == lost <= faults
=============================================================================
