---------------------------- MODULE RevokerProofs ----------------------------
(***************************************************************************)
(* Type correctness of the revocation service, and that it never revokes a *)
(* device without a cause in the log, for any devices, peers and bounds.   *)
(***************************************************************************)
EXTENDS Revoker, TLAPS

(***************************************************************************)
(* What the service remembers outlives the pass in which it learnt it, and *)
(* the log grows under a pass, so RevocationHasCause rests on three facts: *)
(* the lines a pass has read are still there; a line it acts on shows the  *)
(* device unhealthy; and what it remembers as healthy was once logged.     *)
(***************************************************************************)
SeenHealthy(d) == \E k \in 1 .. Len(log) : IsEntry(log[k], d, "True")

MemoryIsLogged == \A d \in Ids : device_state[d] = "True" => SeenHealthy(d)

ReadIsLogged == pass.n <= Len(log)

ActsOnUnhealthy ==
    pass.pc \in {"remove", "sessions"} =>
        /\ pass.i <= pass.n
        /\ Line.kind = "entry"
        /\ Line.healthy = "False"
        /\ SeenHealthy(Line.device)

IInv == TypeOK /\ MemoryIsLogged /\ ReadIsLogged /\ ActsOnUnhealthy

-----------------------------------------------------------------------------

\* The line a pass looks at is one of the log's, with the fields of its kind.
LEMMA LineType ==
    ASSUME TypeOK, ReadIsLogged, pass.i <= pass.n
    PROVE  /\ pass.i \in 1 .. Len(log)
           /\ Line \in Lines
           /\ Line.kind \in {"entry", "skipped", "raises", "undecodable"}
           /\ Line.kind = "entry" => Line \in Entries
  <1>1. pass.i \in 1 .. Len(log)
    BY RevokerAssumption DEF TypeOK, ReadIsLogged, Passes
  <1>2. Line \in Lines
    BY <1>1 DEF TypeOK, Line
  <1>3. QED
    BY <1>1, <1>2 DEF Lines, Entries, Others

\* Record leaves a well-typed state: the device is known by what the line
\* says of it, and the pass goes on to the next line.
LEMMA RecordType ==
    ASSUME TypeOK, ReadIsLogged, pass.i <= pass.n, Line.kind = "entry", Record
    PROVE  /\ device_state' \in [Ids -> States]
           /\ pass' \in Passes
           /\ pass'.pc = "scan"
           /\ pass'.n = pass.n
  <1>1. Line \in Entries /\ pass.i \in 1 .. Len(log)
    BY LineType
  <1>2. device_state' \in [Ids -> States]
    BY <1>1 DEF TypeOK, Record, Observed, States, Verdicts, Entries
  <1>3. pass.i + 1 \in 1 .. MaxLog + 1
    BY <1>1, RevokerAssumption DEF TypeOK, Passes
  <1>4. /\ pass' \in Passes
        /\ pass'.pc = "scan"
        /\ pass'.n = pass.n
    BY <1>3 DEF TypeOK, Record, Passes
  <1>5. QED
    BY <1>2, <1>4

\* What Record remembers as healthy is the line it has just read.
LEMMA RecordMemory ==
    ASSUME TypeOK, ReadIsLogged, MemoryIsLogged, pass.i <= pass.n,
           Line.kind = "entry", Record, UNCHANGED log
    PROVE  MemoryIsLogged'
  <1>1. Line \in Entries /\ pass.i \in 1 .. Len(log)
    BY LineType
  <1> SUFFICES ASSUME NEW d \in Ids, device_state'[d] = "True"
               PROVE  SeenHealthy(d)'
    BY DEF MemoryIsLogged
  <1>2. CASE d = Line.device
    <2>1. Line.healthy = "True"
      BY <1>1, <1>2 DEF Record, Observed, TypeOK, Entries
    <2>2. IsEntry(log[pass.i], d, "True")
      BY <1>1, <1>2, <2>1 DEF IsEntry, Line, Entries
    <2>3. QED
      BY <1>1, <2>2 DEF SeenHealthy, IsEntry
  <1>3. CASE d # Line.device
    <2>1. device_state[d] = "True"
      BY <1>3 DEF Record, TypeOK
    <2>2. QED
      BY <2>1 DEF MemoryIsLogged, SeenHealthy, IsEntry
  <1>4. QED
    BY <1>2, <1>3

\* Giving a pass up leaves the service asleep with what it remembers.
LEMMA GiveUpInv ==
    ASSUME IInv, GiveUp, UNCHANGED log
    PROVE  /\ pass' \in Passes
           /\ device_state' \in [Ids -> States]
           /\ MemoryIsLogged'
           /\ ReadIsLogged'
           /\ ActsOnUnhealthy'
  <1>1. pass' \in Passes /\ pass'.pc = "sleep" /\ pass'.n = pass.n
    BY RevokerAssumption DEF IInv, TypeOK, GiveUp, Asleep, Passes
  <1>2. MemoryIsLogged'
    BY DEF IInv, GiveUp, MemoryIsLogged, SeenHealthy, IsEntry
  <1>3. ReadIsLogged' /\ ActsOnUnhealthy'
    BY <1>1 DEF IInv, ReadIsLogged, ActsOnUnhealthy
  <1>4. QED
    BY <1>1, <1>2, <1>3 DEF IInv, TypeOK, GiveUp

\* Finishing a line keeps the invariant.
LEMMA RecordInv ==
    ASSUME IInv, pass.i <= pass.n, Line.kind = "entry", Record, UNCHANGED log
    PROVE  /\ pass' \in Passes
           /\ device_state' \in [Ids -> States]
           /\ MemoryIsLogged'
           /\ ReadIsLogged'
           /\ ActsOnUnhealthy'
  <1>1. /\ device_state' \in [Ids -> States]
        /\ pass' \in Passes
        /\ pass'.pc = "scan"
        /\ pass'.n = pass.n
    BY RecordType DEF IInv
  <1>2. MemoryIsLogged'
    BY RecordMemory DEF IInv
  <1>3. ReadIsLogged' /\ ActsOnUnhealthy'
    BY <1>1 DEF IInv, ReadIsLogged, ActsOnUnhealthy
  <1>4. QED
    BY <1>1, <1>2, <1>3

\* A call that fails is counted within the bound.
LEMMA FaultType ==
    ASSUME TypeOK, Fault
    PROVE  faults' \in 0 .. MaxFaults
  BY RevokerAssumption DEF TypeOK, Fault

-----------------------------------------------------------------------------

\* The service starts with an empty log and remembers nothing.
LEMMA InitIInv == Init => IInv
  <1> SUFFICES ASSUME Init PROVE IInv
    OBVIOUS
  <1>1. TypeOK
    <2>1. pass \in Passes
      BY RevokerAssumption DEF Init, Asleep, Passes
    <2>2. log \in Seq(Lines) /\ Len(log) <= MaxLog
      BY RevokerAssumption DEF Init
    <2>3. QED
      BY <2>1, <2>2, RevokerAssumption DEF Init, TypeOK, Forgotten, States, Verdicts
  <1>2. MemoryIsLogged
    BY DEF Init, MemoryIsLogged, Forgotten
  <1>3. ReadIsLogged /\ ActsOnUnhealthy
    BY DEF Init, Asleep, ReadIsLogged, ActsOnUnhealthy
  <1>4. QED
    BY <1>1, <1>2, <1>3 DEF IInv

\* A line added to the log changes none of the lines before it.
LEMMA ReportInv ==
    ASSUME IInv, Report
    PROVE  IInv'
  <1>1. PICK line \in Lines : log' = Append(log, line)
    BY DEF Report
  <1>2. /\ log' \in Seq(Lines)
        /\ Len(log') = Len(log) + 1
        /\ \A k \in 1 .. Len(log) : log'[k] = log[k]
    BY <1>1 DEF IInv, TypeOK
  <1>3. TypeOK'
    BY <1>2, RevokerAssumption DEF IInv, TypeOK, Report
  <1>4. \A d : SeenHealthy(d) => SeenHealthy(d)'
    BY <1>2 DEF SeenHealthy, IsEntry, IInv, TypeOK
  <1>5. MemoryIsLogged'
    BY <1>4 DEF IInv, MemoryIsLogged, Report
  <1>6. ReadIsLogged'
    BY <1>2 DEF IInv, ReadIsLogged, Report, TypeOK, Passes
  <1>7. ActsOnUnhealthy'
    <2> SUFFICES ASSUME pass.pc \in {"remove", "sessions"}
                 PROVE  /\ pass.i <= pass.n
                        /\ Line'.kind = "entry"
                        /\ Line'.healthy = "False"
                        /\ SeenHealthy(Line.device)'
                        /\ Line' = Line
      BY DEF ActsOnUnhealthy, Report
    <2>1. pass.i <= pass.n /\ Line.kind = "entry" /\ Line.healthy = "False" /\ SeenHealthy(Line.device)
      BY DEF IInv, ActsOnUnhealthy
    <2>2. Line' = Line
      BY <1>2, <2>1, LineType DEF IInv, Line, Report
    <2>3. QED
      BY <1>4, <2>1, <2>2
  <1>8. QED
    BY <1>3, <1>5, <1>6, <1>7 DEF IInv

\* A line is dealt with: skipped, recorded, acted on, or the pass given up.
LEMMA ScanInv ==
    ASSUME IInv, Scan
    PROVE  IInv'
  <1>1. /\ pass.i \in 1 .. Len(log)
        /\ Line \in Lines
        /\ Line.kind \in {"entry", "skipped", "raises", "undecodable"}
        /\ Line.kind = "entry" => Line \in Entries
        /\ pass.i <= pass.n
        /\ UNCHANGED <<log, allowed, sessions, provisions, restarts>>
    BY LineType DEF IInv, Scan, env
  <1>2. SUFFICES /\ pass' \in Passes
                 /\ device_state' \in [Ids -> States]
                 /\ faults' \in 0 .. MaxFaults
                 /\ MemoryIsLogged'
                 /\ ReadIsLogged'
                 /\ ActsOnUnhealthy'
    BY <1>1 DEF IInv, TypeOK
  <1>3. UNCHANGED faults => faults' \in 0 .. MaxFaults
    BY DEF IInv, TypeOK
  <1>4. CASE Line.kind = "skipped"
    <2>1. /\ pass' = [pass EXCEPT !.i = @ + 1]
          /\ UNCHANGED <<device_state, faults>>
      BY <1>4 DEF Scan
    <2>2. pass.i + 1 \in 1 .. MaxLog + 1
      BY <1>1, RevokerAssumption DEF IInv, TypeOK
    <2>3. pass' \in Passes /\ pass'.pc = "scan" /\ pass'.n = pass.n
      BY <2>1, <2>2 DEF IInv, TypeOK, Passes, Scan
    <2>4. MemoryIsLogged'
      BY <1>1, <2>1 DEF IInv, MemoryIsLogged, SeenHealthy, IsEntry
    <2>5. ReadIsLogged' /\ ActsOnUnhealthy'
      BY <1>1, <2>3 DEF IInv, ReadIsLogged, ActsOnUnhealthy
    <2>6. QED
      BY <1>3, <2>1, <2>3, <2>4, <2>5 DEF IInv, TypeOK
  <1>5. CASE Line.kind = "raises"
    <2>1. GiveUp /\ UNCHANGED faults
      BY <1>5 DEF Scan
    <2>2. QED
      BY <1>1, <1>3, <2>1, GiveUpInv
  <1>6. CASE Line.kind = "entry" /\ ~Degrades(device_state[Line.device], Line.healthy)
    <2>1. Record /\ UNCHANGED faults
      BY <1>6 DEF Scan
    <2>2. QED
      BY <1>1, <1>3, <1>6, <2>1, RecordInv
  <1>7. CASE Line.kind = "entry" /\ Degrades(device_state[Line.device], Line.healthy)
    <2>1. \/ /\ \E T \in SUBSET Peers : pass' = [pass EXCEPT !.pc = "remove", !.targets = T]
             /\ UNCHANGED device_state
             /\ UNCHANGED faults \/ Fault
          \/ Fault /\ GiveUp
      BY <1>7 DEF Scan, Covering
    <2>2. faults' \in 0 .. MaxFaults
      <3>1. CASE Fault
        BY <3>1, FaultType DEF IInv
      <3>2. QED
        BY <1>3, <2>1, <3>1
    <2>3. CASE Fault /\ GiveUp
      BY <1>1, <2>2, <2>3, GiveUpInv
    <2>4. CASE /\ \E T \in SUBSET Peers : pass' = [pass EXCEPT !.pc = "remove", !.targets = T]
               /\ UNCHANGED device_state
      <3>1. PICK T \in SUBSET Peers : pass' = [pass EXCEPT !.pc = "remove", !.targets = T]
        BY <2>4
      <3>2. pass' \in Passes /\ pass'.n = pass.n /\ pass'.i = pass.i
        BY <3>1 DEF IInv, TypeOK, Passes
      <3>3. Line' = Line
        BY <1>1, <3>2 DEF Line
      <3>4. MemoryIsLogged'
        BY <1>1, <2>4 DEF IInv, MemoryIsLogged, SeenHealthy, IsEntry
      <3>5. ReadIsLogged'
        BY <1>1, <3>2 DEF IInv, ReadIsLogged
      <3>6. Line.device \in Ids /\ device_state[Line.device] = "True" /\ Line.healthy = "False"
        BY <1>1, <1>7 DEF Degrades, Entries
      <3>7. SeenHealthy(Line.device)
        BY <3>6 DEF IInv, MemoryIsLogged
      <3>8. ActsOnUnhealthy'
        BY <1>1, <1>7, <3>2, <3>3, <3>6, <3>7 DEF ActsOnUnhealthy, SeenHealthy, IsEntry
      <3>9. QED
        BY <2>2, <2>4, <3>2, <3>4, <3>5, <3>8 DEF IInv, TypeOK
    <2>5. QED
      BY <2>1, <2>3, <2>4
  <1>8. QED
    BY <1>4, <1>5, <1>6, <1>7 DEF Scan

\* Every step of the service and of its environment keeps the invariant.
LEMMA NextIInv == IInv /\ [Next]_vars => IInv'
  <1> SUFFICES ASSUME IInv, [Next]_vars PROVE IInv'
    OBVIOUS
  <1>s. ASSUME UNCHANGED <<log, device_state>>, pass' \in Passes, pass'.n <= Len(log),
               pass'.pc \in {"remove", "sessions"} =>
                   pass.pc \in {"remove", "sessions"} /\ pass'.i = pass.i /\ pass'.n = pass.n
        PROVE  MemoryIsLogged' /\ ReadIsLogged' /\ ActsOnUnhealthy'
    <2>1. MemoryIsLogged'
      BY <1>s DEF IInv, MemoryIsLogged, SeenHealthy, IsEntry
    <2>2. ReadIsLogged'
      BY <1>s DEF ReadIsLogged
    <2>3. ActsOnUnhealthy'
      BY <1>s DEF IInv, ActsOnUnhealthy, Line, SeenHealthy, IsEntry
    <2>4. QED
      BY <2>1, <2>2, <2>3
  <1>n. pass \in Passes /\ pass.n <= Len(log)
    BY DEF IInv, TypeOK, ReadIsLogged
  <1>1. CASE Report
    BY <1>1, ReportInv
  <1>2. ASSUME NEW p \in Peers, NEW d \in Ids, Provision(p, d)
        PROVE  IInv'
    <2>1. TypeOK'
      BY <1>2, RevokerAssumption DEF IInv, TypeOK, Provision
    <2>2. QED
      BY <1>2, <1>n, <1>s, <2>1 DEF IInv, Provision
  <1>3. ASSUME NEW u \in Users, Login(u)
        PROVE  IInv'
    <2>1. TypeOK'
      BY <1>3 DEF IInv, TypeOK, Login
    <2>2. QED
      BY <1>3, <1>n, <1>s, <2>1 DEF IInv, Login
  <1>4. CASE StartPass
    <2>1. faults' \in 0 .. MaxFaults
      BY <1>4, FaultType DEF IInv, TypeOK, StartPass
    <2>2. pass' \in Passes /\ pass'.n <= Len(log) /\ pass'.pc \in {"sleep", "scan"}
      <3>1. Len(log) \in 0 .. MaxLog /\ 1 \in 1 .. MaxLog + 1
        BY RevokerAssumption DEF IInv, TypeOK
      <3>2. CASE pass' = [pass EXCEPT !.pc = "scan", !.n = Len(log), !.i = 1]
        <4>1. pass'.pc = "scan" /\ pass'.n = Len(log)
          BY <1>n, <3>2 DEF Passes
        <4>2. pass' \in Passes
          BY <1>n, <3>1, <3>2, ZenonT(30) DEF Passes
        <4>3. QED
          BY <3>1, <4>1, <4>2
      <3>3. CASE UNCHANGED pass
        BY <1>4, <1>n, <3>3 DEF StartPass
      <3>4. QED
        BY <1>4, <3>2, <3>3 DEF StartPass
    <2>3. TypeOK'
      BY <1>4, <2>1, <2>2 DEF IInv, TypeOK, StartPass, env
    <2>4. QED
      BY <1>4, <1>s, <2>2, <2>3 DEF IInv, StartPass, env
  <1>5. CASE Scan
    BY <1>5, ScanInv
  <1>6. ASSUME NEW p \in Peers, Remove(p)
        PROVE  IInv'
    <2>1. allowed' \in [Peers -> SUBSET Ids]
      BY <1>6 DEF IInv, TypeOK, Remove
    <2>2. faults' \in 0 .. MaxFaults
      <3>1. CASE Fault
        BY <3>1, FaultType DEF IInv
      <3>2. QED
        BY <1>6, <3>1 DEF IInv, TypeOK, Remove
    <2>3. CASE GiveUp
      BY <1>6, <2>1, <2>2, <2>3, GiveUpInv DEF IInv, TypeOK, Remove
    <2>4. CASE pass' = [pass EXCEPT !.targets = @ \ {p}] /\ UNCHANGED device_state
      <3>1. /\ pass' \in Passes
            /\ pass'.pc = pass.pc
            /\ pass'.i = pass.i
            /\ pass'.n = pass.n
        BY <2>4, <1>n DEF Passes
      <3>2. TypeOK'
        BY <1>6, <2>1, <2>2, <2>4, <3>1 DEF IInv, TypeOK, Remove
      <3>3. QED
        BY <1>6, <1>n, <1>s, <2>4, <3>1, <3>2 DEF IInv, Remove
    <2>5. QED
      BY <1>6, <2>3, <2>4 DEF Remove
  <1>7. CASE Removed
    <2>1. /\ pass' \in Passes
          /\ pass'.pc = "sessions"
          /\ pass'.i = pass.i
          /\ pass'.n = pass.n
      BY <1>7, <1>n DEF Removed, Passes
    <2>2. TypeOK'
      BY <1>7, <2>1 DEF IInv, TypeOK, Removed, env
    <2>3. QED
      BY <1>7, <1>n, <1>s, <2>1, <2>2 DEF IInv, Removed, env
  <1>8. CASE RevokeSessions
    <2>1. pass.i <= pass.n /\ Line.kind = "entry" /\ UNCHANGED log
      BY <1>8 DEF IInv, ActsOnUnhealthy, RevokeSessions
    <2>2. sessions' \subseteq Users
      BY <1>8 DEF IInv, TypeOK, RevokeSessions
    <2>3. faults' \in 0 .. MaxFaults
      <3>1. CASE Fault
        BY <3>1, FaultType DEF IInv
      <3>2. QED
        BY <1>8, <3>1 DEF IInv, TypeOK, RevokeSessions
    <2>4. Record \/ GiveUp
      BY <1>8 DEF RevokeSessions
    <2>5. /\ pass' \in Passes
          /\ device_state' \in [Ids -> States]
          /\ MemoryIsLogged'
          /\ ReadIsLogged'
          /\ ActsOnUnhealthy'
      BY <2>1, <2>4, GiveUpInv, RecordInv
    <2>6. QED
      BY <1>8, <2>2, <2>3, <2>5 DEF IInv, TypeOK, RevokeSessions
  <1>9. CASE EndPass
    <2>1. pass' \in Passes /\ pass'.pc = "sleep" /\ pass'.n = pass.n
      BY <1>9, <1>n, RevokerAssumption DEF EndPass, Asleep, Passes
    <2>2. TypeOK'
      BY <1>9, <2>1 DEF IInv, TypeOK, EndPass, env
    <2>3. QED
      BY <1>9, <1>n, <1>s, <2>1, <2>2 DEF IInv, EndPass, env
  <1>10. CASE Restart
    <2>1. pass' \in Passes /\ pass'.pc = "sleep" /\ pass'.n = 0
      BY <1>10, RevokerAssumption DEF Restart, Asleep, Passes
    <2>2. TypeOK'
      BY <1>10, <2>1, RevokerAssumption DEF IInv, TypeOK, Restart, env, Forgotten, States, Verdicts
    <2>3. MemoryIsLogged'
      BY <1>10 DEF MemoryIsLogged, Restart, Forgotten
    <2>4. ReadIsLogged' /\ ActsOnUnhealthy'
      BY <1>10, <2>1, <2>2 DEF IInv, ReadIsLogged, ActsOnUnhealthy, Restart, env, TypeOK
    <2>5. QED
      BY <2>2, <2>3, <2>4 DEF IInv
  <1>11. CASE UNCHANGED vars
    <2>1. TypeOK'
      BY <1>11 DEF IInv, TypeOK, vars
    <2>2. QED
      BY <1>11, <1>n, <1>s, <2>1 DEF IInv, vars
  <1>12. QED
    BY <1>1, <1>2, <1>3, <1>4, <1>5, <1>6, <1>7, <1>8, <1>9, <1>10, <1>11
    DEF Next, Service

\* The inductive invariant holds throughout, restarts included.
THEOREM Invariance == Spec => []IInv
  BY InitIInv, NextIInv, PTL DEF Spec

\* The service's memory, its pass and the peers keep their types.
THEOREM TypeCorrect == Spec => []TypeOK
  <1>1. IInv => TypeOK
    BY DEF IInv
  <1>2. QED
    BY <1>1, Invariance, PTL

\* process_posture_log revokes a device only at an unhealthy line of its own,
\* and only if the log has shown it healthy.
THEOREM RevocationsHaveCause == Spec => []RevocationHasCause
  <1>1. IInv => RevocationHasCause
    BY DEF IInv, ActsOnUnhealthy, ReadIsLogged, RevocationHasCause, SeenHealthy
  <1>2. QED
    BY <1>1, Invariance, PTL

\* Every step of the service, of its environment and of systemd takes a session
\* or a peer's addresses for a reason only.
LEMMA StepHasCause ==
    ASSUME IInv, [Next]_vars
    PROVE  /\ \A u \in sessions \ sessions' :
                \E k \in 1 .. Len(log) :
                    Cause(k) /\ log[k].user_email \in Emails /\ FirstMatch[log[k].user_email] = u
           /\ \A p \in Peers : allowed[p] # {} /\ allowed'[p] = {} =>
                \/ \E q \in Peers \ {p} : allowed[p] \subseteq allowed'[q]
                \/ \E k \in 1 .. Len(log) : Cause(k)
  \* While a revocation is under way, the line at hand is its reason.
  <1>1. ASSUME pass.pc \in {"remove", "sessions"}
        PROVE  /\ pass.i \in 1 .. Len(log) /\ Cause(pass.i)
               /\ log[pass.i].user_email \in Emails \cup {NoEmail}
    <2>1. pass.i <= pass.n /\ Line.kind = "entry" /\ Line.healthy = "False" /\ SeenHealthy(Line.device)
      BY <1>1 DEF IInv, ActsOnUnhealthy
    <2>2. pass.i \in 1 .. Len(log) /\ Line \in Entries
      BY <2>1, LineType DEF IInv
    <2> QED
      BY <2>1, <2>2 DEF Cause, SeenHealthy, Line, Entries
  <1>2. \A u \in sessions \ sessions' :
          \E k \in 1 .. Len(log) :
              Cause(k) /\ log[k].user_email \in Emails /\ FirstMatch[log[k].user_email] = u
    <2> SUFFICES ASSUME NEW u \in sessions \ sessions'
                 PROVE  \E k \in 1 .. Len(log) :
                            Cause(k) /\ log[k].user_email \in Emails /\ FirstMatch[log[k].user_email] = u
      OBVIOUS
    <2>1. RevokeSessions
      BY DEF Next, Service, vars, env, Report, Provision, Login, StartPass, Scan, Remove,
             Removed, EndPass, Restart
    <2>2. pass.pc = "sessions" /\ Line.user_email # NoEmail /\ u = FirstMatch[Line.user_email]
      BY <2>1 DEF RevokeSessions
    <2> QED
      BY <1>1, <2>2 DEF Line
  <1>3. \A p \in Peers : allowed[p] # {} /\ allowed'[p] = {} =>
          \/ \E q \in Peers \ {p} : allowed[p] \subseteq allowed'[q]
          \/ \E k \in 1 .. Len(log) : Cause(k)
    <2> SUFFICES ASSUME NEW p \in Peers, allowed[p] # {}, allowed'[p] = {}
                 PROVE  \/ \E q \in Peers \ {p} : allowed[p] \subseteq allowed'[q]
                        \/ \E k \in 1 .. Len(log) : Cause(k)
      OBVIOUS
    <2>1. \/ \E q \in Peers, d \in Ids : Provision(q, d)
          \/ \E q \in Peers : Remove(q)
      BY DEF Next, Service, vars, env, Report, Login, StartPass, Scan, Removed,
             RevokeSessions, EndPass, Restart
    <2>2. ASSUME NEW q \in Peers, NEW d \in Ids, Provision(q, d)
          PROVE  \E x \in Peers \ {p} : allowed[p] \subseteq allowed'[x]
      <3>1. allowed' = [x \in Peers |-> IF x = q THEN {d} ELSE allowed[x] \ {d}]
        BY <2>2 DEF Provision
      <3>2. q # p /\ allowed[p] \subseteq {d} /\ allowed'[q] = {d}
        BY <3>1
      <3> QED
        BY <3>2
    <2>3. ASSUME NEW q \in Peers, Remove(q)
          PROVE  \E k \in 1 .. Len(log) : Cause(k)
      BY <1>1, <2>3 DEF Remove
    <2> QED
      BY <2>1, <2>2, <2>3
  <1> QED
    BY <1>2, <1>3

\* No session ends and no peer is taken off the interface without a degradation
\* in the log to account for it, however passes, failures, restarts, logins and
\* provisioning interleave, and whomever Authentik's search finds.
THEOREM AccessNeverEndsWithoutCause == Spec => AccessEndsWithCause
  BY StepHasCause, Invariance, PTL DEF Spec, AccessEndsWithCause

=============================================================================
