------------------------------ MODULE InstallID ------------------------------
(***************************************************************************)
(* install_id.go: agents of several processes resolve their identity from  *)
(* one state file.  Every file operation is a step of its own, os.WriteFile *)
(* is an open that truncates and a write, and each may fail.               *)
(***************************************************************************)
EXTENDS Naturals, FiniteSets

CONSTANTS
    Processes,
    MaxIDs          \* bound: calls of newUUID4

ASSUME InstallIDAssumption == IsFiniteSet(Processes) /\ MaxIDs \in Nat

\* The contents of the state file other than an identity.
Absent == 0
Empty == MaxIDs + 1

VARIABLES
    file,           \* the state file
    place,          \* per process: where New is, or what became of it
    installID,      \* per process: the identity it resolved, 0 for none
    fresh,          \* identities made so far
    settled,        \* history: the identity in the file since nobody was left who
                    \* had found none there, 0 if there is none
    heir            \* history: processes that began to resolve after that

identityVars == <<file, place, installID, fresh, settled, heir>>

Writing == {"mkdir", "truncate", "write"}

IdentityInit ==
    /\ file = Absent
    /\ place = [p \in Processes |-> "down"]
    /\ installID = [p \in Processes |-> 0]
    /\ fresh = 0 /\ settled = 0 /\ heir = {}

\* p goes on to the place next, the file holding f, and the histories follow.
Goto(p, next, f) ==
    /\ place' = [place EXCEPT ![p] = next]
    /\ file' = f
    /\ settled' = IF f \in {Absent, Empty} \/ \E q \in Processes : place'[q] \in Writing
                  THEN 0
                  ELSE IF settled = 0 THEN f ELSE settled
    /\ heir' = IF settled' = 0 THEN {} ELSE IF next = "read" THEN heir \union {p} ELSE heir

NewUUID(p) ==
    /\ fresh < MaxIDs
    /\ fresh' = fresh + 1
    /\ installID' = [installID EXCEPT ![p] = fresh + 1]

\* Mutant of Read: the identity read is shadowed by a new one, which is returned.
ReadShadowed(p) ==
    /\ place[p] = "read"
    /\ NewUUID(p)
    /\ Goto(p, IF file \in {Absent, Empty} THEN "mkdir" ELSE "resolved", file)

\* The file holds an identity, or it is missing or empty.
Read(p) ==
    /\ place[p] = "read"
    /\ IF file \in {Absent, Empty}
       THEN NewUUID(p) /\ Goto(p, "mkdir", file)
       ELSE /\ installID' = [installID EXCEPT ![p] = file]
            /\ Goto(p, "resolved", file)
            /\ UNCHANGED fresh

\* The file cannot be read for another reason: logged, then as if it were empty.
ReadFails(p) ==
    /\ place[p] = "read"
    /\ NewUUID(p) /\ Goto(p, "mkdir", file)

MkdirAll(p) ==
    /\ place[p] = "mkdir"
    /\ \E next \in {"truncate", "resolved"} : Goto(p, next, file)
    /\ UNCHANGED <<installID, fresh>>

Truncate(p) ==
    /\ place[p] = "truncate"
    /\ Goto(p, "write", Empty) \/ Goto(p, "resolved", file)
    /\ UNCHANGED <<installID, fresh>>

Write(p) ==
    /\ place[p] = "write"
    /\ \E f \in {installID[p], file} : Goto(p, "resolved", f)
    /\ UNCHANGED <<installID, fresh>>

\* resolveInstallID begins: an override wins, without a path the identity lives in
\* memory only.
Resolve(p, override, path) ==
    \/ override /\ Goto(p, "resolved", file) /\ UNCHANGED <<installID, fresh>>
    \/ ~override /\ ~path /\ NewUUID(p) /\ Goto(p, "resolved", file)
    \/ ~override /\ path /\ Goto(p, "read", file) /\ UNCHANGED <<installID, fresh>>

ResolveStep(p) == Read(p) \/ ReadFails(p) \/ MkdirAll(p) \/ Truncate(p) \/ Write(p)

-----------------------------------------------------------------------------
\* The identity is stable: once the file holds one and nobody is left who found
\* none there, it stays in the file, whatever crashes and restarts, and every agent
\* that begins to resolve from then on reports it.  An unreadable file ends the
\* period: its reader overwrites it.
IdentitySettles ==
    /\ settled # 0 => file = settled
    /\ settled # 0 => \A p \in heir : installID[p] \in {0, settled}
=============================================================================
