--------------------------- MODULE SshAuditProofs ---------------------------
(***************************************************************************)
(* Type correctness of the SSH audit, and that no key slips into its       *)
(* report unannounced, for any accounts, keys, runs and bounds.            *)
(***************************************************************************)
EXTENDS SshAudit, TLAPS

(***************************************************************************)
(* The report a run compares with may be gone when the run writes its own, *)
(* so NewKeysAnnounced rests on what the run carries over in between: if   *)
(* it found a report and no change, its keys were announced already.       *)
(***************************************************************************)
CarriesAnnounced(q) ==
    q.pc \in {"open", "write"} /\ q.found /\ q.changed # "yes" =>
        \A a \in Accounts : q.auth[a] \subseteq known[a]

RunsCarryAnnounced == \A r \in Runs : CarriesAnnounced(run[r])

IInv == TypeOK /\ NewKeysAnnounced /\ RunsCarryAnnounced

-----------------------------------------------------------------------------

\* A run that is not there is one of the states of a run, and says nothing.
LEMMA NoRunType == NoRun \in RunStates /\ CarriesAnnounced(NoRun) /\ Blank \in Reports
  BY DEF NoRun, RunStates, CarriesAnnounced, NoKeys, Inventories, Flags, Blank, Reports

\* Changing one run keeps the type of all runs.
LEMMA RunsType ==
    ASSUME run \in [Runs -> RunStates], NEW r \in Runs, NEW q \in RunStates
    PROVE  [run EXCEPT ![r] = q] \in [Runs -> RunStates]
  OBVIOUS

\* Writing ends the run and marks the others that have the file open.
LEMMA WrittenType ==
    ASSUME TypeOK, NEW r \in Runs
    PROVE  /\ Written(r) \in [Runs -> RunStates]
           /\ Written(r)[r] = NoRun
           /\ \A q \in Runs \ {r} :
                /\ Written(r)[q].pc = run[q].pc
                /\ Written(r)[q].auth = run[q].auth
                /\ Written(r)[q].found = run[q].found
                /\ Written(r)[q].changed = run[q].changed
  <1>1. \A q \in Runs : [run[q] EXCEPT !.mixed = run[q].pc = "write"] \in RunStates
    <2> SUFFICES ASSUME NEW q \in Runs
                 PROVE  [run[q] EXCEPT !.mixed = run[q].pc = "write"] \in RunStates
      OBVIOUS
    <2>1. run[q] \in RunStates /\ (run[q].pc = "write") \in BOOLEAN
      BY DEF TypeOK
    <2>2. QED
      BY <2>1, ZenonT(30) DEF RunStates
  <1>2. Written(r) \in [Runs -> RunStates] /\ Written(r)[r] = NoRun
    BY <1>1, NoRunType DEF Written
  <1>3. \A q \in Runs \ {r} : Written(r)[q] = [run[q] EXCEPT !.mixed = run[q].pc = "write"]
    BY DEF Written
  <1>4. QED
    BY <1>2, <1>3 DEF TypeOK, RunStates

-----------------------------------------------------------------------------

\* Before the first run there is no report and nothing is announced.
LEMMA InitIInv == Init => IInv
  <1> SUFFICES ASSUME Init PROVE IInv
    OBVIOUS
  <1>1. TypeOK
    BY NoRunType, AuditAssumption DEF Init, TypeOK, NoKeys, Inventories
  <1>2. NewKeysAnnounced
    BY DEF Init, NewKeysAnnounced, Readable
  <1>3. RunsCarryAnnounced
    BY NoRunType DEF Init, RunsCarryAnnounced
  <1>4. QED
    BY <1>1, <1>2, <1>3 DEF IInv

\* A step of one run r that leaves the file alone: what is left to show is
\* that r's new state q is one a run can be in, and carries what it should.
LEMMA LocalStep ==
    ASSUME IInv, NEW r \in Runs, NEW q \in RunStates, CarriesAnnounced(q),
           run' = [run EXCEPT ![r] = q],
           manuals' \in 0 .. MaxManual, deaths' \in 0 .. MaxDeaths,
           UNCHANGED <<host, auth, file, report, known>>
    PROVE  IInv'
  <1>1. run' \in [Runs -> RunStates]
    BY RunsType DEF IInv, TypeOK
  <1>2. TypeOK'
    BY <1>1 DEF IInv, TypeOK
  <1>3. NewKeysAnnounced'
    BY DEF IInv, NewKeysAnnounced, Readable
  <1>4. RunsCarryAnnounced'
    BY DEF IInv, TypeOK, RunsCarryAnnounced, CarriesAnnounced
  <1>5. QED
    BY <1>2, <1>3, <1>4 DEF IInv

\* A run starts, whoever starts it.
LEMMA StartInv ==
    ASSUME IInv, NEW r \in Runs, run' = [run EXCEPT ![r].pc = "host"],
           manuals' \in 0 .. MaxManual, UNCHANGED <<host, auth, file, report, deaths, known>>
    PROVE  IInv'
  <1> DEFINE q == [run[r] EXCEPT !.pc = "host"]
  <1>1. q \in RunStates /\ q.pc = "host"
    BY DEF IInv, TypeOK, RunStates
  <1>2. run' = [run EXCEPT ![r] = q]
    BY DEF IInv, TypeOK
  <1>3. CarriesAnnounced(q)
    BY <1>1 DEF CarriesAnnounced
  <1>4. deaths' \in 0 .. MaxDeaths
    BY DEF IInv, TypeOK
  <1> HIDE DEF q
  <1>5. QED
    BY <1>1, <1>2, <1>3, <1>4, LocalStep

\* Collecting puts what was seen into the run.
LEMMA CollectInv ==
    ASSUME IInv, NEW r \in Runs, get_host_key_fingerprints(r) \/ get_authorized_keys(r)
    PROVE  IInv'
  <1>1. manuals' \in 0 .. MaxManual /\ deaths' \in 0 .. MaxDeaths
    BY DEF IInv, TypeOK, get_host_key_fingerprints, get_authorized_keys
  <1>2. CASE get_host_key_fingerprints(r)
    <2>1. PICK f \in {host, Error} :
              run' = [run EXCEPT ![r].pc = "auth", ![r].host = f]
      BY <1>2 DEF get_host_key_fingerprints
    <2> DEFINE q == [run[r] EXCEPT !.pc = "auth", !.host = f]
    <2>2. f \in Fingerprints \cup {Error}
      BY DEF IInv, TypeOK
    <2>3. q \in RunStates /\ q.pc = "auth"
      BY <2>2 DEF IInv, TypeOK, RunStates
    <2>4. run' = [run EXCEPT ![r] = q]
      BY <2>1 DEF IInv, TypeOK
    <2>5. CarriesAnnounced(q)
      BY <2>3 DEF CarriesAnnounced
    <2> HIDE DEF q
    <2>6. QED
      BY <1>1, <1>2, <2>3, <2>4, <2>5, LocalStep DEF get_host_key_fingerprints
  <1>3. CASE get_authorized_keys(r)
    <2>1. PICK skipped \in SUBSET Accounts :
              run' = [run EXCEPT ![r].pc = "compare",
                          ![r].auth = [a \in Accounts |-> IF a \in skipped THEN {} ELSE auth[a]]]
      BY <1>3 DEF get_authorized_keys
    <2> DEFINE seen == [a \in Accounts |-> IF a \in skipped THEN {} ELSE auth[a]]
               q == [run[r] EXCEPT !.pc = "compare", !.auth = seen]
    <2>2. seen \in Inventories
      BY DEF IInv, TypeOK, Inventories
    <2> HIDE DEF seen
    <2>3. q \in RunStates /\ q.pc = "compare"
      BY <2>2 DEF IInv, TypeOK, RunStates
    <2>4. run' = [run EXCEPT ![r] = q]
      BY <2>1 DEF IInv, TypeOK, seen
    <2>5. CarriesAnnounced(q)
      BY <2>3 DEF CarriesAnnounced
    <2> HIDE DEF q
    <2>6. QED
      BY <1>1, <1>3, <2>3, <2>4, <2>5, LocalStep DEF get_authorized_keys
  <1>4. QED
    BY <1>2, <1>3

\* A run that finds no change has the keys of the report it compared with,
\* which were announced.
LEMMA CompareInv ==
    ASSUME IInv, NEW r \in Runs, Compare(r)
    PROVE  IInv'
  <1> DEFINE flag == IF Readable THEN changed(run[r], report) ELSE "none"
             q == [run[r] EXCEPT !.pc = "open", !.found = Readable, !.changed = flag]
  <1>1. flag \in Flags /\ Readable \in BOOLEAN
    BY DEF Flags, changed, Readable
  <1>2. Readable /\ flag # "yes" => report.auth = run[r].auth
    BY DEF changed
  <1> HIDE DEF flag
  <1>3. q \in RunStates
    BY <1>1 DEF IInv, TypeOK, RunStates
  <1>4. q.found = Readable /\ q.changed = flag /\ q.auth = run[r].auth
    BY DEF IInv, TypeOK, RunStates
  <1>5. CarriesAnnounced(q)
    BY <1>2, <1>4 DEF IInv, NewKeysAnnounced, CarriesAnnounced
  <1>6. run' = [run EXCEPT ![r] = q]
    BY DEF IInv, TypeOK, Compare, flag
  <1>7. manuals' \in 0 .. MaxManual /\ deaths' \in 0 .. MaxDeaths
    BY DEF IInv, TypeOK, Compare
  <1> HIDE DEF q
  <1>8. QED
    BY <1>3, <1>5, <1>6, <1>7, LocalStep DEF Compare


\* Truncating the file leaves nothing to announce, and moves only r.
LEMMA OpenInv ==
    ASSUME IInv, NEW r \in Runs, Open(r)
    PROVE  IInv'
  <1>1. run[r] \in RunStates /\ [run[r] EXCEPT !.pc = "write"] \in RunStates
    BY DEF IInv, TypeOK, RunStates
  <1>2. \A q \in Runs : [run[q] EXCEPT !.mixed = FALSE] \in RunStates
    BY DEF IInv, TypeOK, RunStates
  <1>3. run' \in [Runs -> RunStates]
    BY <1>1, <1>2 DEF Open
  <1>4. TypeOK'
    BY <1>3, NoRunType DEF IInv, TypeOK, Open
  <1>5. NewKeysAnnounced'
    BY DEF Open, NewKeysAnnounced, Readable
  <1>6. ASSUME NEW q \in Runs
        PROVE  CarriesAnnounced(run[q])'
    <2>1. /\ run'[q].pc = (IF q = r THEN "write" ELSE run[q].pc)
          /\ run'[q].auth = run[q].auth
          /\ run'[q].found = run[q].found
          /\ run'[q].changed = run[q].changed
      BY DEF IInv, TypeOK, Open, RunStates
    <2>2. CarriesAnnounced(run[q]) /\ run[r].pc = "open"
      BY DEF IInv, RunsCarryAnnounced, Open
    <2>3. UNCHANGED known
      BY DEF Open
    <2>4. QED
      BY <2>1, <2>2, <2>3 DEF CarriesAnnounced
  <1>7. QED
    BY <1>4, <1>5, <1>6 DEF IInv, RunsCarryAnnounced

\* The runs after r wrote keep what they carry while known only grows.
LEMMA WrittenCarries ==
    ASSUME IInv, NEW r \in Runs, run' = Written(r),
           \A a \in Accounts : known[a] \subseteq known'[a]
    PROVE  RunsCarryAnnounced'
  <1> SUFFICES ASSUME NEW q \in Runs
               PROVE  CarriesAnnounced(run[q])'
    BY DEF RunsCarryAnnounced
  <1>1. CASE q = r
    <2>1. run'[q].pc = "idle"
      BY <1>1, WrittenType DEF IInv, NoRun
    <2>2. QED
      BY <2>1 DEF CarriesAnnounced
  <1>2. CASE q # r
    <2>1. /\ run'[q].pc = run[q].pc
          /\ run'[q].auth = run[q].auth
          /\ run'[q].found = run[q].found
          /\ run'[q].changed = run[q].changed
      BY <1>2, WrittenType DEF IInv
    <2>2. CarriesAnnounced(run[q])
      BY DEF IInv, RunsCarryAnnounced
    <2>3. QED
      BY <2>1, <2>2 DEF CarriesAnnounced
  <1>3. QED
    BY <1>1, <1>2

\* What a run writes is announced by the flag, or was before.
LEMMA DumpInv ==
    ASSUME IInv, NEW r \in Runs, Dump(r)
    PROVE  IInv'
  <1>1. run' = Written(r) /\ run' \in [Runs -> RunStates]
    BY WrittenType DEF IInv, Dump
  <1>2. /\ known' \in Inventories
        /\ \A a \in Accounts : known[a] \subseteq known'[a]
    BY DEF IInv, TypeOK, RunStates, Inventories, Dump
  <1>3. audit(run[r]) \in Reports
    BY DEF IInv, TypeOK, RunStates, Reports, audit
  <1>4. TypeOK'
    BY <1>1, <1>2, <1>3, NoRunType DEF IInv, TypeOK, Dump
  <1>5. NewKeysAnnounced'
    <2>1. CASE file' = "torn"
      BY <2>1 DEF NewKeysAnnounced, Readable
    <2>2. CASE file' # "torn"
      <3>1. report'.auth = run[r].auth
        BY <2>2 DEF Dump, audit
      <3>2. CASE run[r].changed = "yes" \/ ~run[r].found
        <4>1. known' = [a \in Accounts |-> known[a] \cup run[r].auth[a]]
          BY <2>2, <3>2 DEF Dump
        <4>2. QED
          BY <3>1, <4>1 DEF NewKeysAnnounced
      <3>3. CASE ~(run[r].changed = "yes" \/ ~run[r].found)
        <4>1. \A a \in Accounts : run[r].auth[a] \subseteq known[a]
          BY <3>3 DEF IInv, RunsCarryAnnounced, CarriesAnnounced, Dump
        <4>2. QED
          BY <1>2, <3>1, <4>1 DEF NewKeysAnnounced
      <3>4. QED
        BY <3>2, <3>3
    <2>3. QED
      BY <2>1, <2>2
  <1>6. RunsCarryAnnounced'
    BY <1>1, <1>2, WrittenCarries
  <1>7. QED
    BY <1>4, <1>5, <1>6 DEF IInv

\* A run that dies takes what it carried with it.
LEMMA DieInv ==
    ASSUME IInv, NEW r \in Runs, Die(r)
    PROVE  IInv'
  <1>1. deaths' \in 0 .. MaxDeaths /\ manuals' \in 0 .. MaxManual
    BY AuditAssumption DEF IInv, TypeOK, Die
  <1>2. CASE run' = [run EXCEPT ![r] = NoRun] /\ UNCHANGED <<file, report>>
    BY <1>1, <1>2, NoRunType, LocalStep DEF Die
  <1>3. CASE run' = Written(r) /\ file' = "torn" /\ report' = Blank
    <2>1. run' \in [Runs -> RunStates]
      BY <1>3, WrittenType DEF IInv
    <2>2. TypeOK'
      BY <1>1, <1>3, <2>1, NoRunType DEF IInv, TypeOK, Die
    <2>3. NewKeysAnnounced'
      BY <1>3 DEF NewKeysAnnounced, Readable
    <2>4. \A a \in Accounts : known[a] \subseteq known'[a]
      BY DEF Die
    <2>5. RunsCarryAnnounced'
      BY <1>3, <2>4, WrittenCarries
    <2>6. QED
      BY <2>2, <2>3, <2>5 DEF IInv
  <1>4. QED
    BY <1>2, <1>3 DEF Die

\* Keys that change on the machine are in no report yet.
LEMMA KeysChangeInv ==
    ASSUME IInv, KeysChange
    PROVE  IInv'
  <1>1. host' \in Fingerprints /\ auth' \in Inventories
    BY DEF IInv, TypeOK, KeysChange, Inventories
  <1>2. TypeOK'
    BY <1>1 DEF IInv, TypeOK, KeysChange
  <1>3. NewKeysAnnounced' /\ RunsCarryAnnounced'
    BY DEF IInv, KeysChange, NewKeysAnnounced, Readable, RunsCarryAnnounced, CarriesAnnounced
  <1>4. QED
    BY <1>2, <1>3 DEF IInv

\* Every step of the machine, the timer, the runs and their deaths keeps it.
LEMMA NextIInv == IInv /\ [Next]_vars => IInv'
  <1> SUFFICES ASSUME IInv, [Next]_vars PROVE IInv'
    OBVIOUS
  <1>1. CASE KeysChange
    BY <1>1, KeysChangeInv
  <1>2. CASE StartTimer
    <2>1. Timer \in Runs /\ manuals' \in 0 .. MaxManual
      BY <1>2 DEF Runs, IInv, TypeOK, StartTimer
    <2>2. QED
      BY <1>2, <2>1, StartInv DEF StartTimer
  <1>3. CASE \E r \in Manual : StartManual(r)
    <2>1. PICK r \in Manual : StartManual(r)
      BY <1>3
    <2>2. r \in Runs /\ manuals' \in 0 .. MaxManual
      BY <2>1, AuditAssumption DEF Runs, IInv, TypeOK, StartManual
    <2>3. QED
      BY <2>1, <2>2, StartInv DEF StartManual
  <1>4. CASE \E r \in Runs : Step(r)
    BY <1>4, CollectInv, CompareInv, OpenInv, DumpInv DEF Step
  <1>5. CASE \E r \in Runs : Die(r)
    BY <1>5, DieInv
  <1>6. CASE UNCHANGED vars
    BY <1>6 DEF vars, IInv, TypeOK, NewKeysAnnounced, Readable, RunsCarryAnnounced,
               CarriesAnnounced
  <1>7. QED
    BY <1>1, <1>2, <1>3, <1>4, <1>5, <1>6 DEF Next

\* The inductive invariant holds of every behaviour of the audit.
THEOREM Inductive == Spec => []IInv
  <1>1. QED
    BY InitIInv, NextIInv, PTL DEF Spec

\* The report, the runs and the counters keep their types.
THEOREM TypeCorrect == Spec => []TypeOK
  <1>1. IInv => TypeOK
    BY DEF IInv
  <1>2. QED
    BY <1>1, Inductive, PTL

\* No key slips into a report under a flag that says nothing changed, however
\* many runs overlap or die.
THEOREM NewKeysAreAnnounced == Spec => []NewKeysAnnounced
  <1>1. IInv => NewKeysAnnounced
    BY DEF IInv
  <1>2. QED
    BY <1>1, Inductive, PTL

=============================================================================
