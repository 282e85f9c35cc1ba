------------------------------ MODULE SshAudit ------------------------------
(***************************************************************************)
(* The SSH key inventory, scripts/ssh_audit.py: a run collects the host    *)
(* key fingerprints and every account's authorized keys, compares them     *)
(* with the report the run before left, and overwrites that report.  The   *)
(* timer starts a run every day and an administrator may start one at any  *)
(* time; a run may die at every step, and keys change while it collects.   *)
(***************************************************************************)
EXTENDS Integers

CONSTANTS
    Accounts, Keys,  \* the accounts, and the lines of their authorized_keys
    Fingerprints,    \* what ssh-keygen prints of the host keys
    Error,           \* what a run notes when ssh-keygen fails
    Timer,           \* the run of the timer
    Manual,          \* runs started by hand
    MaxManual,       \* bound: runs started by hand
    MaxDeaths        \* bound: runs that die

ASSUME AuditAssumption ==
    /\ Error \notin Fingerprints
    /\ Fingerprints # {}
    /\ Timer \notin Manual
    /\ MaxManual \in Nat
    /\ MaxDeaths \in Nat

VARIABLES
    host, auth,  \* the host keys and the authorized keys of the machine
    file,        \* the report file: "missing", "torn" (no JSON) or "ok"
    report,      \* what it holds when it is ok
    run,         \* run[r]: a run of the script
    manuals,     \* runs started by hand so far
    deaths,      \* runs that died so far
    known        \* known[a]: the keys of a that a report has announced

vars == <<host, auth, file, report, run, manuals, deaths, known>>

Runs == {Timer} \cup Manual
Inventories == [Accounts -> SUBSET Keys]

\* changed is "none" in a report that has no such field.
Flags == {"none", "yes", "no"}
Reports == [host : Fingerprints \cup {Error}, auth : Inventories, changed : Flags]

Readable == file = "ok"

NoKeys == [a \in Accounts |-> {}]
Blank == [host |-> Error, auth |-> NoKeys, changed |-> "none"]

\* mixed: another run wrote to the file since this one truncated it.
\* found: this run could read a report; bookkeeping.
RunStates ==
    [pc : {"idle", "host", "auth", "compare", "open", "write"},
     host : Fingerprints \cup {Error}, auth : Inventories, changed : Flags,
     mixed : BOOLEAN, found : BOOLEAN]

NoRun ==
    [pc |-> "idle", host |-> Error, auth |-> NoKeys, changed |-> "none",
     mixed |-> FALSE, found |-> FALSE]

\* The report a run is about to write.
audit(q) == [host |-> q.host, auth |-> q.auth, changed |-> q.changed]

TypeOK ==
    /\ host \in Fingerprints
    /\ auth \in Inventories
    /\ file \in {"missing", "torn", "ok"}
    /\ report \in Reports
    /\ run \in [Runs -> RunStates]
    /\ manuals \in 0 .. MaxManual
    /\ deaths \in 0 .. MaxDeaths
    /\ known \in Inventories

Init ==
    /\ host \in Fingerprints
    /\ auth = NoKeys
    /\ file = "missing"
    /\ report = Blank
    /\ run = [r \in Runs |-> NoRun]
    /\ manuals = 0
    /\ deaths = 0
    /\ known = NoKeys

-----------------------------------------------------------------------------

\* External: the keys of the machine change.
KeysChange ==
    /\ \/ host' \in Fingerprints /\ UNCHANGED auth
       \/ \E a \in Accounts, ks \in SUBSET Keys :
            auth' = [auth EXCEPT ![a] = ks] /\ UNCHANGED host
    /\ UNCHANGED <<file, report, run, manuals, deaths, known>>

\* The timer's service is oneshot: it starts no run while one is active.
StartTimer ==
    /\ run[Timer].pc = "idle"
    /\ run' = [run EXCEPT ![Timer].pc = "host"]
    /\ UNCHANGED <<host, auth, file, report, manuals, deaths, known>>

StartManual(r) ==
    /\ run[r].pc = "idle"
    /\ manuals < MaxManual
    /\ manuals' = manuals + 1
    /\ run' = [run EXCEPT ![r].pc = "host"]
    /\ UNCHANGED <<host, auth, file, report, deaths, known>>

\* ssh-keygen for each host key; an error is noted in its place.
get_host_key_fingerprints(r) ==
    /\ run[r].pc = "host"
    /\ \E f \in {host, Error} :
         run' = [run EXCEPT ![r].pc = "auth", ![r].host = f]
    /\ UNCHANGED <<host, auth, file, report, manuals, deaths, known>>

\* Every account's file; one that cannot be read counts as none.
get_authorized_keys(r) ==
    /\ run[r].pc = "auth"
    /\ \E skipped \in SUBSET Accounts :
         run' = [run EXCEPT ![r].pc = "compare",
                     ![r].auth = [a \in Accounts |-> IF a \in skipped THEN {} ELSE auth[a]]]
    /\ UNCHANGED <<host, auth, file, report, manuals, deaths, known>>

\* Mutant of changed: a change of both is taken for a change.
changed_and(q, prev) ==
    IF prev.host # q.host /\ prev.auth # q.auth THEN "yes" ELSE "no"

changed(q, prev) ==
    IF prev.host # q.host \/ prev.auth # q.auth THEN "yes" ELSE "no"

\* Mutant of Compare: the error of a report that does not parse ends the run.
Compare_dies_torn(r) ==
    /\ run[r].pc = "compare"
    /\ run' = IF file = "torn" THEN [run EXCEPT ![r] = NoRun]
              ELSE [run EXCEPT ![r].pc = "open", ![r].found = Readable,
                        ![r].changed = IF Readable THEN changed(run[r], report)
                                             ELSE "none"]
    /\ UNCHANGED <<host, auth, file, report, manuals, deaths, known>>

\* Mutant of Compare: a changed report says "changed" and nothing else.
Compare_other_flag(r) ==
    /\ run[r].pc = "compare"
    /\ run' = [run EXCEPT ![r].pc = "open", ![r].found = Readable,
                   ![r].changed = IF Readable THEN "changed" ELSE "none"]
    /\ UNCHANGED <<host, auth, file, report, manuals, deaths, known>>

\* The previous report, when there is one that parses, decides on changed.
Compare(r) ==
    /\ run[r].pc = "compare"
    /\ run' = [run EXCEPT ![r].pc = "open", ![r].found = Readable,
                   ![r].changed = IF Readable THEN changed(run[r], report)
                                        ELSE "none"]
    /\ UNCHANGED <<host, auth, file, report, manuals, deaths, known>>

\* open(..., "w") empties the file for every run that has it open.
Open(r) ==
    /\ run[r].pc = "open"
    /\ file' = "torn"
    /\ report' = Blank
    /\ run' = [q \in Runs |-> IF q = r THEN [run[r] EXCEPT !.pc = "write"]
                              ELSE [run[q] EXCEPT !.mixed = FALSE]]
    /\ UNCHANGED <<host, auth, manuals, deaths, known>>

\* The runs after r wrote to the file and ended.
Written(r) ==
    [q \in Runs |-> IF q = r THEN NoRun ELSE [run[q] EXCEPT !.mixed = run[q].pc = "write"]]

\* json.dump and close, over what another run wrote meanwhile, if it did.
\* What is announced: the keys of a report that is flagged as changed, or
\* that had no readable report before it.
Dump(r) ==
    /\ run[r].pc = "write"
    /\ \/ /\ file' = "ok"
          /\ report' = audit(run[r])
          /\ known' = IF run[r].changed = "yes" \/ ~run[r].found
                      THEN [a \in Accounts |-> known[a] \cup run[r].auth[a]]
                      ELSE known
       \/ /\ run[r].mixed
          /\ file' = "torn"
          /\ report' = Blank
          /\ UNCHANGED known
    /\ run' = Written(r)
    /\ UNCHANGED <<host, auth, manuals, deaths>>

\* A run is killed, or meets an error it does not catch: ssh-keygen takes
\* too long, the disk is full.  It may have written a part of its report.
Die(r) ==
    /\ run[r].pc # "idle"
    /\ deaths < MaxDeaths
    /\ deaths' = deaths + 1
    /\ \/ /\ run' = [run EXCEPT ![r] = NoRun]
          /\ UNCHANGED <<file, report>>
       \/ /\ run[r].pc = "write"
          /\ file' = "torn"
          /\ report' = Blank
          /\ run' = Written(r)
    /\ UNCHANGED <<host, auth, manuals, known>>

\* main(), without the start.
Step(r) ==
    \/ get_host_key_fingerprints(r) \/ get_authorized_keys(r)
    \/ Compare(r) \/ Open(r) \/ Dump(r)

Next ==
    \/ KeysChange
    \/ StartTimer
    \/ \E r \in Manual : StartManual(r)
    \/ \E r \in Runs : Step(r) \/ Die(r)

\* The timer starts a run every day, and a run goes on.
Fairness == WF_vars(StartTimer \/ Step(Timer))

Spec == Init /\ [][Next]_vars
FairSpec == Spec /\ Fairness

-----------------------------------------------------------------------------
(* Properties.                                                             *)

\* Every key in the report was announced when it came in: in a report that
\* says "changed", or in one that had nothing to compare with.  Overlapping
\* runs, runs that die and files that cannot be read for a while let no key
\* slip into the inventory under a report that says nothing changed.
NewKeysAnnounced ==
    Readable => \A a \in Accounts : report.auth[a] \subseteq known[a]

\* A report that a dying run or two overlapping runs left unreadable is
\* replaced by one that can be read.
ReportRecovers == ~Readable ~> Readable

=============================================================================
