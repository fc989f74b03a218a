------------------------------ MODULE UserStore ------------------------------
(***************************************************************************)
(* UserStore (internal/admin/store.go): the accounts of the operators, a   *)
(* map in memory in front of a JSON file.  Create and Delete change the    *)
(* map and then save all of it: the file is written next to the old one    *)
(* and renamed over it, so a save replaces the file or leaves it alone.    *)
(*                                                                         *)
(* Passwords, hashes and timestamps are left out: an account is its role.  *)
(***************************************************************************)
EXTENDS Naturals

CONSTANTS
    Names,        \* user names, not the empty one
    NULL,         \* no such account
    SaveOutcomes  \* "ok"; "none": WriteFile or Rename fails

ASSUME UserAssumption == "ok" \in SaveOutcomes /\ SaveOutcomes \subseteq {"ok", "none"}

VARIABLES
    users,      \* the map
    usersFile,  \* what load would read
    undeleted   \* history: accounts deleted in memory since the last save

userVars == <<users, usersFile, undeleted>>

Role == {"root", "admin", "employee"}
Accounts == [Names -> Role \cup {NULL}]
NoUsers == [n \in Names |-> NULL]

save(map, o) == usersFile' = IF o = "ok" THEN map ELSE usersFile

CanCreate(n, role) == users[n] = NULL /\ role \in {"admin", "employee"}

\* Mutant of Create: the account stays in memory when it could not be saved.
CreateAndKeep(n, role, o) ==
    LET map == [users EXCEPT ![n] = role]
    IN  /\ CanCreate(n, role)
        /\ save(map, o)
        /\ users' = map
        /\ undeleted' = IF o = "ok" THEN {} ELSE undeleted

\* A failed save takes the account back.
Create(n, role, o) ==
    LET map == [users EXCEPT ![n] = role]
    IN  /\ CanCreate(n, role)
        /\ save(map, o)
        /\ users' = IF o = "ok" THEN map ELSE users
        /\ undeleted' = IF o = "ok" THEN {} ELSE undeleted

\* Mutant of CanDelete: root is an account like any other.
CanDeleteAny(n) == users[n] # NULL

CanDelete(n) == users[n] \notin {NULL, "root"}

\* A failed save is reported, and the account is gone from memory all the same.
Delete(n, o) ==
    LET map == [users EXCEPT ![n] = NULL]
    IN  /\ CanDelete(n)
        /\ save(map, o)
        /\ users' = map
        /\ undeleted' = IF o = "ok" THEN {} ELSE undeleted \cup {n}

\* NewUserStore adds the configured root when the file has no such account,
\* whatever other accounts there are.
WithRoot(map, name) == IF map[name] = NULL THEN [map EXCEPT ![name] = "root"] ELSE map

\* Memory and file agree, but for the accounts whose deletion could not be
\* saved: those the file still has, none of them is a root, and the next save
\* removes them.  What Create or Delete acknowledged is what a restart brings
\* back, through any order of failing saves, repeated deletes and crashes.
UsersAgree(up) ==
    up => \A n \in Names :
        \/ users[n] = usersFile[n]
        \/ n \in undeleted /\ users[n] = NULL /\ usersFile[n] # "root"
=============================================================================
