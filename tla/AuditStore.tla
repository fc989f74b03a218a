----------------------------- MODULE AuditStore -----------------------------
(***************************************************************************)
(* AuditStore (internal/admin/store.go): the audit entries, a list in      *)
(* memory in front of a file with one entry per line.  Write changes the   *)
(* memory first and then appends to the file; a prune drops what is older  *)
(* than the retention from memory and then rewrites the file beside itself *)
(* and renames it.                                                         *)
(*                                                                         *)
(* Both are sets here: load takes the lines in any order and List sorts    *)
(* the entries by their time.  An entry has a field "at", its CreatedAt.   *)
(***************************************************************************)
EXTENDS Naturals

CONSTANTS
    Retention,       \* retentionDays, in ticks of the clock
    AppendOutcomes,  \* "ok"; "none": nothing written; "sync": written, then an
                     \* error; "cut": a part of the line is written; "nonl": all
                     \* of it but the newline
    RewriteOutcomes  \* "ok"; "none": the new file or its rename fails

ASSUME AuditAssumption ==
    /\ Retention \in Nat
    /\ "ok" \in AppendOutcomes /\ AppendOutcomes \subseteq {"ok", "none", "sync", "cut", "nonl"}
    /\ "ok" \in RewriteOutcomes /\ RewriteOutcomes \subseteq {"ok", "none"}

VARIABLES
    entries,     \* the entries in memory
    auditLines,  \* the entries loadAudit would read
    torn,        \* "no"; "open": the file ends inside a line; "yes": it has a
                 \* line that is not JSON
    unended,     \* the entry that the file ends with, when its newline is missing
    acked,       \* history: entries whose Write returned no error
    now          \* the time of day

auditFile == <<auditLines, torn, unended>>
auditVars == <<entries, auditFile, acked, now>>

\* CreatedAt.Before(now - retention)
Expired(e) == e.at + Retention < now

Unexpired(S) == {e \in S : ~Expired(e)}

\* The file ends inside a line: what is appended goes on with it.
Continues == torn = "open" \/ unended # {}

\* Two entries on one line are not JSON, nor is a part of one and an entry.
appendLine(e, o) ==
    /\ auditLines' = (IF o = "none" THEN auditLines ELSE auditLines \ unended)
                     \cup (IF o \in {"ok", "sync", "nonl"} /\ ~Continues THEN {e} ELSE {})
    /\ unended' = IF o = "none" THEN unended
                  ELSE IF o = "nonl" /\ ~Continues THEN {e} ELSE {}
    /\ torn' = CASE o = "cut" \/ (o = "nonl" /\ Continues) -> "open"
                 [] o \in {"ok", "sync"} /\ Continues -> "yes"
                 [] OTHER -> torn

Write(e, o) ==
    /\ entries' = entries \cup {e}
    /\ appendLine(e, o)
    /\ acked' = IF o = "ok" THEN acked \cup {e} ELSE acked
    /\ UNCHANGED now

\* Mutant of rewrite: the lines in the file are filtered, memory is not asked.
rewriteFile ==
    /\ auditLines' = Unexpired(auditLines)
    /\ torn' = "no" /\ unended' = {}

\* The file becomes what memory holds: a torn line goes, an entry that could
\* not be appended comes.
rewrite ==
    /\ auditLines' = Unexpired(entries)
    /\ torn' = "no" /\ unended' = {}

\* PruneExpired.  When nothing is removed the file is left alone.
Prune(o) ==
    /\ entries' = Unexpired(entries)
    /\ IF o = "ok" /\ entries' # entries THEN rewrite ELSE UNCHANGED auditFile
    /\ UNCHANGED <<acked, now>>

\* loadAudit fails on a line that is not JSON; so does main then.
CanLoad == torn = "no"

\* An entry that Write acknowledged is not lost before its time: List shows it,
\* and the file has it unless a torn line is in the way, whatever appends and
\* rewrites fail before and after it, and however often the server is started
\* (README.md: "Audit logs are retained for 31 days by default").
AuditDurable(up) ==
    \A e \in Unexpired(acked) :
        /\ up => e \in entries
        /\ e \in auditLines \/ ~CanLoad
=============================================================================
