------------------------- MODULE PostureStoreProofs -------------------------
(***************************************************************************)
(* Proofs about PostureStore, for every set of devices, every clock skew,  *)
(* every age limit and every number of crashes and registrations.          *)
(***************************************************************************)
EXTENDS PostureStore, TLAPS

\* A healthy envelope filed for device d carries a stamp that d earned at one
\* of the times in g[d].
EarnedBy(d, rec, g) ==
    rec.kind = "envelope" /\ rec.posture = "healthy" =>
        \E t \in g[d] : rec.checked_at = Stamp(d, t)

\* A record without checked_at reads as stamped 0.
Unstamped(rec) == rec.kind # "envelope" => rec.checked_at = 0

\* A store, on disk or in a writer's copy, holds earned verdicts only.
Sound(recs, g) ==
    /\ \A ip \in Ips : Unstamped(recs[ip])
    /\ \A d \in Devices : EarnedBy(d, recs[IpOf[d]], g)

\* So does the record rec that a writer is about to file under key.
SoundRecord(key, rec, g) ==
    /\ Unstamped(rec)
    /\ \A d \in Devices : key = IpOf[d] => EarnedBy(d, rec, g)

\* The state r of a writer: what it may still write is sound.
SoundRun(r, g) ==
    /\ Sound(r.copy, g)
    /\ SoundRecord(r.key, r.rec, g)
    /\ r.pc # "idle" => r.key \in Ips

\* The inductive invariant.  That the file is sound is not inductive alone:
\* the file is overwritten with copies, and copies are made from the file
\* and the pending records.
IInv ==
    /\ TypeOK
    /\ Sound(file.recs, genuine)
    /\ \A w \in Writers : SoundRun(run[w], genuine)

Runs == [pc : PCs, key : Ips \cup {NoKey}, rec : Records, copy : [Ips -> Records]]

-----------------------------------------------------------------------------

\* The records and the stores the model is built from have their types.
LEMMA RecordTypes ==
    /\ NoRecord \in Records
    /\ \A p \in {"healthy", "unhealthy"} : Bare(p) \in Records
    /\ \A p \in {"healthy", "unhealthy"}, t \in Int : Envelope(p, t) \in Records
    /\ EmptyStore \in [Ips -> Records]
    /\ Shipped \in [Ips -> Records]
  BY DEF NoRecord, Bare, Envelope, Record, Records, EmptyStore, Shipped, sign_entry

\* Earned verdicts stay earned when genuine grows.
LEMMA SoundMonotone ==
    ASSUME NEW g, NEW h, \A d \in Devices : g[d] \subseteq h[d]
    PROVE  /\ \A recs : Sound(recs, g) => Sound(recs, h)
           /\ \A r : SoundRun(r, g) => SoundRun(r, h)
  BY DEF Sound, SoundRun, SoundRecord, EarnedBy

\* A store stays sound when a sound record is filed in it.
LEMMA SoundUpdate ==
    ASSUME NEW recs \in [Ips -> Records], NEW g, Sound(recs, g),
           NEW key \in Ips, NEW rec, SoundRecord(key, rec, g)
    PROVE  Sound([recs EXCEPT ![key] = rec], g)
  BY StoreAssumption DEF Sound, SoundRecord, EarnedBy, Unstamped

\* The store that holds nothing is sound, and so is a bare record.
LEMMA EmptySound ==
    ASSUME NEW g
    PROVE  /\ Sound(EmptyStore, g)
           /\ \A key : SoundRecord(key, NoRecord, g)
           /\ \A key, p : SoundRecord(key, Bare(p), g)
  BY StoreAssumption
  DEF Sound, SoundRecord, EarnedBy, Unstamped, EmptyStore, NoRecord, Bare, Record

\* An idle writer has nothing to file.
LEMMA IdleSound ==
    ASSUME NEW g
    PROVE  Idle \in Runs /\ SoundRun(Idle, g)
  BY EmptySound, RecordTypes DEF Idle, PCs, Runs, SoundRun

\* Writing a copy leaves the file sound: what it holds is the copy, or is
\* not readable.
LEMMA OverwriteSound ==
    ASSUME NEW recs \in [Ips -> Records], NEW g, Sound(recs, g),
           NEW f \in Overwrite(recs)
    PROVE  f \in Files /\ Sound(f.recs, g)
  BY EmptySound, RecordTypes DEF Overwrite, Text, Garbled, Files

\* The truncated file shows a reader nothing.
LEMMA EmptyFileSound ==
    ASSUME NEW g
    PROVE  EmptyFile \in Files /\ Sound(EmptyFile.recs, g)
  BY EmptySound, RecordTypes DEF EmptyFile, Files

\* No file, an empty store and the shipped store hold no verdict that counts.
LEMMA InitIInv == Init => IInv
  <1> SUFFICES ASSUME Init PROVE IInv
    OBVIOUS
  <1>1. file \in Files /\ Sound(file.recs, genuine) /\ written \in [Ips -> Records]
    <2>1. Sound(Shipped, genuine)
      BY StoreAssumption DEF Sound, EarnedBy, Unstamped, Shipped, Bare, Record
    <2> QED
      BY <2>1, EmptySound, RecordTypes DEF Init, Files, NoFile, Text
  <1>2. TypeOK
    BY <1>1, IdleSound, ClockAssumption, StoreAssumption DEF Init, TypeOK, Times, Runs
  <1> QED
    BY <1>1, <1>2, IdleSound DEF IInv, Init

\* Follow touches the bookkeeping only, and keeps its type.
LEMMA FollowType ==
    ASSUME TypeOK, NEW ok \in BOOLEAN, Follow(ok)
    PROVE  exclusive' \in BOOLEAN /\ written' \in [Ips -> Records]
  BY RecordTypes DEF TypeOK, Follow

-----------------------------------------------------------------------------

\* Every step of an agent, of the registration script and of a crash keeps the
\* invariant.
LEMMA NextIInv == IInv /\ [Next]_vars => IInv'
  <1> SUFFICES ASSUME IInv, [Next]_vars PROVE IInv'
    OBVIOUS
  <1> USE DEF Runs
  <1>0. TypeOK /\ Sound(file.recs, genuine)
        /\ \A w \in Writers : run[w] \in Runs /\ SoundRun(run[w], genuine)
    BY DEF IInv, TypeOK
  \* A step of writer w that leaves genuine alone.
  <1>w. ASSUME NEW w \in Writers, NEW r \in Runs, SoundRun(r, genuine),
               run' = [run EXCEPT ![w] = r],
               file' \in Files, Sound(file'.recs, genuine),
               now' \in Times, genuine' = genuine,
               crashes' \in 0 .. MaxCrashes,
               registrations' \in 0 .. MaxRegistrations,
               exclusive' \in BOOLEAN, written' \in [Ips -> Records]
        PROVE  IInv'
    <2>1. run' \in [Writers -> Runs]
      BY <1>0, <1>w DEF TypeOK
    <2>2. TypeOK'
      BY <1>0, <1>w, <2>1 DEF TypeOK
    <2>3. \A v \in Writers : SoundRun(run'[v], genuine')
      BY <1>0, <1>w DEF TypeOK
    <2> QED
      BY <2>2, <2>3, <1>w DEF IInv
  <1>s. Script \in Writers
    BY DEF Writers
  <1>1. CASE Tick
    <2>1. now' \in Times
      BY <1>0, <1>1, ClockAssumption DEF Tick, TypeOK, Times
    <2>2. TypeOK'
      BY <1>0, <1>1, <2>1 DEF Tick, TypeOK
    <2> QED
      BY <1>0, <1>1, <2>2 DEF Tick, IInv
  <1>2. ASSUME NEW d \in Devices, Check(d) PROVE IInv'
    <2>1. PICK true \in SUBSET Signals, failed \in SUBSET Signals, key \in Keys[d] :
            /\ run' = [run EXCEPT ![d] =
                  [Idle EXCEPT !.pc = "checked", !.key = key,
                       !.rec = Envelope(Verdict(true, failed), Stamp(d, now))]]
            /\ genuine' = [genuine EXCEPT ![d] =
                  IF true = Signals THEN @ \cup {now} ELSE @]
      BY <1>2 DEF Check
    <2> DEFINE rec == Envelope(Verdict(true, failed), Stamp(d, now))
               r == [Idle EXCEPT !.pc = "checked", !.key = key, !.rec = rec]
    <2>2. d \in Writers /\ key \in Ips
      BY StoreAssumption DEF Writers
    <2>3. rec \in Records
      BY <1>0, RecordTypes, ClockAssumption DEF Stamp, Verdict, TypeOK, Times
    <2>4. r \in Runs /\ r.copy = EmptyStore /\ r.key = key /\ r.rec = rec
      BY <2>2, <2>3, IdleSound DEF Idle, PCs
    <2>5. genuine' \in [Devices -> SUBSET Times]
          /\ \A e \in Devices : genuine[e] \subseteq genuine'[e]
      BY <1>0, <2>1 DEF TypeOK
    <2>6. Verdict(true, failed) = "healthy" => now \in genuine'[d]
      <3> SUFFICES ASSUME Verdict(true, failed) = "healthy" PROVE now \in genuine'[d]
        OBVIOUS
      <3>1. true = Signals
        BY <2>1 DEF Verdict
      <3> QED
        BY <3>1, <2>1, <1>0 DEF TypeOK
    <2>7. SoundRecord(key, rec, genuine')
      BY <2>2, <2>6, StoreAssumption
      DEF SoundRecord, Unstamped, EarnedBy, Envelope, Record
    <2>8. SoundRun(r, genuine')
      BY <2>2, <2>4, <2>7, EmptySound DEF SoundRun
    <2>9. \A w \in Writers : run'[w] \in Runs /\ SoundRun(run'[w], genuine')
      BY <1>0, <2>1, <2>2, <2>4, <2>5, <2>8, SoundMonotone DEF TypeOK
    <2>10. TypeOK'
      BY <1>0, <1>2, <2>1, <2>2, <2>4, <2>5 DEF TypeOK, Check
    <2>11. Sound(file'.recs, genuine')
      BY <1>0, <1>2, <2>5, SoundMonotone DEF Check
    <2> QED
      BY <2>9, <2>10, <2>11 DEF IInv
  \* Reading a store of sound records into the copy of w.
  <1>l. ASSUME NEW w \in Writers, run[w].pc = "checked",
               NEW recs \in [Ips -> Records], Sound(recs, genuine),
               Loaded(w, recs), NEW ok \in BOOLEAN, Follow(ok),
               UNCHANGED <<now, genuine, file, crashes, registrations>>
        PROVE  IInv'
    <2> DEFINE copy == [recs EXCEPT ![run[w].key] = run[w].rec]
               r == [run[w] EXCEPT !.pc = "loaded", !.copy = copy]
    <2>1. run[w].key \in Ips /\ SoundRecord(run[w].key, run[w].rec, genuine)
      BY <1>0, <1>l DEF SoundRun
    <2>2. copy \in [Ips -> Records] /\ Sound(copy, genuine)
      BY <1>0, <1>l, <2>1, SoundUpdate
    <2>3. r \in Runs /\ SoundRun(r, genuine)
      BY <1>0, <2>1, <2>2 DEF SoundRun, PCs
    <2>4. run' = [run EXCEPT ![w] = r]
      BY <1>0, <1>l DEF Loaded, TypeOK
    <2>5. file' \in Files /\ Sound(file'.recs, genuine) /\ now' \in Times
          /\ crashes' \in 0 .. MaxCrashes /\ registrations' \in 0 .. MaxRegistrations
      BY <1>0, <1>l DEF TypeOK
    <2> HIDE DEF r, copy
    <2> QED
      BY <1>w, <1>l, <1>0, <2>3, <2>4, <2>5, FollowType
  <1>3. ASSUME NEW d \in Devices, Load(d) PROVE IInv'
    <2>1. d \in Writers
      BY DEF Writers
    <2> DEFINE recs == IF file.kind = "ok" THEN file.recs ELSE EmptyStore
    <2>2. recs \in [Ips -> Records] /\ Sound(recs, genuine)
      BY <1>0, EmptySound, RecordTypes DEF TypeOK, Files
    <2>3. /\ run[d].pc = "checked"
          /\ Loaded(d, recs)
          /\ Follow(~Overlaps(d))
          /\ UNCHANGED <<now, genuine, file, crashes, registrations>>
      BY <1>3 DEF Load
    <2> HIDE DEF recs
    <2> QED
      BY <1>l, <2>1, <2>2, <2>3
  <1>4. ASSUME NEW w \in Writers, Open(w) PROVE IInv'
    <2> DEFINE r == [run[w] EXCEPT !.pc = "opened"]
    <2>1. r \in Runs /\ SoundRun(r, genuine)
      BY <1>0, <1>4 DEF Open, SoundRun, PCs
    <2>2. run' = [run EXCEPT ![w] = r] /\ file' = EmptyFile
          /\ UNCHANGED <<now, genuine, crashes, registrations, exclusive, written>>
      BY <1>0, <1>4 DEF Open, TypeOK
    <2> HIDE DEF r
    <2> QED
      BY <1>w, <1>0, <2>1, <2>2, EmptyFileSound DEF TypeOK
  <1>5. ASSUME NEW w \in Writers, Dump(w) PROVE IInv'
    <2>1. /\ run[w].copy \in [Ips -> Records] /\ Sound(run[w].copy, genuine)
          /\ run[w].rec \in Records
      BY <1>0 DEF SoundRun
    <2>2. file' \in Files /\ Sound(file'.recs, genuine)
      BY <1>5, <2>1, OverwriteSound DEF Dump
    <2>3. written' \in [Ips -> Records]
      BY <1>0, <1>5, <2>1 DEF Dump, TypeOK
    <2>4. run' = [run EXCEPT ![w] = Idle]
          /\ UNCHANGED <<now, genuine, crashes, registrations, exclusive>>
      BY <1>5 DEF Dump
    <2> QED
      BY <1>w, <1>0, <2>2, <2>3, <2>4, IdleSound DEF TypeOK
  <1>6. ASSUME NEW d \in Devices, RegisterStart(IpOf[d]) PROVE IInv'
    <2> DEFINE r == [Idle EXCEPT
                       !.pc = IF file.kind = "missing" THEN "seed" ELSE "checked",
                       !.key = IpOf[d], !.rec = Bare("unhealthy")]
    <2>1. r \in Runs /\ SoundRun(r, genuine)
      BY IdleSound, EmptySound, RecordTypes, StoreAssumption DEF SoundRun, Idle, PCs
    <2>2. run' = [run EXCEPT ![Script] = r]
          /\ UNCHANGED <<now, genuine, file, crashes>>
          /\ Follow(file.kind = "missing" => ~Overlaps(Script))
      BY <1>6 DEF RegisterStart
    <2>3. registrations' \in 0 .. MaxRegistrations
      BY <1>0, <1>6, StoreAssumption DEF RegisterStart, TypeOK
    <2> HIDE DEF r
    <2> QED
      BY <1>w, <1>s, <1>0, <2>1, <2>2, <2>3, FollowType DEF TypeOK
  <1>7. CASE SeedOpen
    <2> DEFINE r == [run[Script] EXCEPT !.pc = "seeding"]
    <2>1. r \in Runs /\ SoundRun(r, genuine)
      BY <1>0, <1>s, <1>7 DEF SeedOpen, SoundRun, PCs
    <2>2. run' = [run EXCEPT ![Script] = r] /\ file' = EmptyFile
          /\ UNCHANGED <<now, genuine, crashes, registrations, exclusive, written>>
      BY <1>0, <1>s, <1>7 DEF SeedOpen, TypeOK
    <2> HIDE DEF r
    <2> QED
      BY <1>w, <1>s, <1>0, <2>1, <2>2, EmptyFileSound DEF TypeOK
  <1>8. CASE SeedWrite
    <2> DEFINE r == [run[Script] EXCEPT !.pc = "checked"]
    <2>1. r \in Runs /\ SoundRun(r, genuine)
      BY <1>0, <1>s, <1>8 DEF SeedWrite, SoundRun, PCs
    <2>2. run' = [run EXCEPT ![Script] = r]
          /\ UNCHANGED <<now, genuine, crashes, registrations, exclusive, written>>
      BY <1>0, <1>s, <1>8 DEF SeedWrite, TypeOK
    <2>3. file' \in Files /\ Sound(file'.recs, genuine)
      BY <1>8, EmptySound, RecordTypes, OverwriteSound DEF SeedWrite
    <2> HIDE DEF r
    <2> QED
      BY <1>w, <1>s, <1>0, <2>1, <2>2, <2>3 DEF TypeOK
  <1>9. CASE RegisterLoad
    <2>1. CASE file.kind = "ok"
      <3>1. file.recs \in [Ips -> Records]
        BY <1>0 DEF TypeOK, Files
      <3>2. /\ run[Script].pc = "checked"
            /\ Loaded(Script, file.recs)
            /\ Follow(~Overlaps(Script))
            /\ UNCHANGED <<now, genuine, file, crashes, registrations>>
        BY <1>9, <2>1 DEF RegisterLoad
      <3> QED
        BY <1>l, <1>s, <1>0, <3>1, <3>2
    <2>2. CASE file.kind # "ok"
      <3>1. run' = [run EXCEPT ![Script] = Idle]
            /\ UNCHANGED <<now, genuine, file, crashes, registrations, exclusive, written>>
        BY <1>9, <2>2 DEF RegisterLoad
      <3> QED
        BY <1>w, <1>s, <1>0, <3>1, IdleSound DEF TypeOK
    <2> QED
      BY <2>1, <2>2
  <1>10. ASSUME NEW w \in Writers, Abort(w) PROVE IInv'
    <2>1. run' = [run EXCEPT ![w] = Idle] /\ Follow(FALSE)
          /\ UNCHANGED <<now, genuine, file, registrations>>
      BY <1>10 DEF Abort
    <2>2. crashes' \in 0 .. MaxCrashes
      BY <1>0, <1>10, StoreAssumption DEF Abort, TypeOK
    <2> QED
      BY <1>w, <1>0, <2>1, <2>2, IdleSound, FollowType DEF TypeOK
  <1>11. CASE UNCHANGED vars
    BY <1>0, <1>11 DEF vars, IInv, TypeOK
  <1>12. \A d \in Devices : d \in Writers
    BY DEF Writers
  <1> QED
    BY <1>1, <1>2, <1>3, <1>4, <1>5, <1>6, <1>7, <1>8, <1>9, <1>10, <1>11, <1>12, <1>s
    DEF Next, Agent, Register

-----------------------------------------------------------------------------

\* IInv holds in every reachable state of the store and its writers.
THEOREM Invariance == Spec => []IInv
  BY InitIInv, NextIInv, PTL DEF Spec

\* Every reachable state of the posture store and its writers is well typed.
THEOREM TypeCorrect == Spec => []TypeOK
  <1>1. IInv => TypeOK
    BY DEF IInv
  <1> QED
    BY <1>1, Invariance, PTL

\* get_posture calls a device healthy only when it recently passed its checks:
\* overlapping rewrites of the file, dying writers and stale copies may lose
\* or revert a verdict, but not make one up.
THEOREM HealthyIsEarned == Spec => []HealthyIsGenuine
  <1>1. IInv => HealthyIsGenuine
    <2> SUFFICES ASSUME IInv, NEW d \in Devices, get_posture(IpOf[d]) = "healthy"
                 PROVE  \E t \in genuine[d] : now - t <= MaxPostureAge + Skew[d]
      BY DEF HealthyIsGenuine
    <2> DEFINE rec == file.recs[IpOf[d]]
    <2>1. rec.posture = "healthy" /\ now - rec.checked_at <= MaxPostureAge
      BY DEF get_posture
    <2>2. now \in Times /\ IpOf[d] \in Ips /\ genuine[d] \subseteq Times
      BY StoreAssumption DEF IInv, TypeOK
    <2>3. Unstamped(rec) /\ EarnedBy(d, rec, genuine)
      BY <2>2 DEF IInv, Sound
    <2>4. rec.kind \in {"none", "bare", "envelope"}
      BY <2>2 DEF IInv, TypeOK, Files, Records
    <2>5. rec.kind = "envelope"
      \* A record without checked_at is as old as the epoch.
      BY <2>1, <2>2, <2>3, ClockAssumption DEF Unstamped, Times
    <2>6. PICK t \in genuine[d] : rec.checked_at = t + Skew[d]
      BY <2>1, <2>3, <2>5 DEF EarnedBy, Stamp
    <2>7. now - t <= MaxPostureAge + Skew[d]
      BY <2>1, <2>2, <2>6, ClockAssumption DEF Times
    <2> QED
      BY <2>7
  <1> QED
    BY <1>1, Invariance, PTL

\* What a reader finds for a device is nothing, or a stamp it earned.
ViewIsEarned == /\ viewOf \in [Devices -> Int]
                /\ \A d \in Devices : viewOf[d] \in View!Earned(d)

\* What a reader finds for a device is a verdict that device earned.
LEMMA ViewEarned == IInv => ViewIsEarned
  <1> SUFFICES ASSUME IInv, NEW d \in Devices
               PROVE  viewOf[d] \in Int /\ viewOf[d] \in View!Earned(d)
    BY DEF viewOf, ViewIsEarned
  <1>1. IpOf[d] \in Ips /\ file.recs[IpOf[d]].checked_at \in Int
    BY StoreAssumption DEF IInv, TypeOK, Files, Records
  <1>2. EarnedBy(d, file.recs[IpOf[d]], genuine)
    BY DEF IInv, Sound
  <1> QED
    BY <1>1, <1>2 DEF viewOf, View!Earned, View!Stamp, Stamp, EarnedBy

\* The files the system starts from show a reader no healthy verdict.
LEMMA ViewInit == Init => View!Init
  BY StoreAssumption
  DEF Init, View!Init, viewOf, NoFile, Text, EmptyStore, Shipped, NoRecord, Bare, Record

\* Every step of the store and its writers is a step of PostureView, or one
\* its readers do not see.
LEMMA ViewStep ==
    ASSUME IInv, IInv', [Next]_vars
    PROVE  [View!Next]_(View!vars)
  <1>1. viewOf' \in [Devices -> Int] /\ \A d \in Devices : viewOf'[d] \in View!Earned(d)'
    <2>1. ViewIsEarned'
      BY ViewEarned, PTL
    <2> QED
      BY <2>1 DEF ViewIsEarned
  <1>2. ASSUME UNCHANGED <<now, genuine>> PROVE View!Publish
    <2>1. \A d \in Devices : View!Earned(d)' = View!Earned(d)
      BY <1>2 DEF View!Earned
    <2>2. viewOf' \in [Devices -> UNION {View!Earned(d) : d \in Devices}]
      BY <1>1, <2>1
    <2> QED
      BY <1>1, <1>2, <2>1, <2>2 DEF View!Publish
  <1>3. file' = file => viewOf' = viewOf
    BY DEF viewOf, verify_posture_sig
  <1>4. CASE Tick
    BY <1>3, <1>4 DEF Tick, View!Next, View!Tick
  <1>5. ASSUME NEW d \in Devices, Check(d) PROVE [View!Next]_(View!vars)
    <2>1. viewOf' = viewOf /\ now' = now
      BY <1>3, <1>5 DEF Check
    <2>2. genuine' = [genuine EXCEPT ![d] = @ \cup {now}]
          \/ genuine' = [genuine EXCEPT ![d] = @]
      BY <1>5 DEF Check
    <2>3. genuine \in [Devices -> SUBSET Times]
      BY DEF IInv, TypeOK
    <2>4. CASE genuine' = [genuine EXCEPT ![d] = @ \cup {now}]
      BY <2>1, <2>4 DEF View!Next, View!Attest
    <2>5. CASE genuine' = [genuine EXCEPT ![d] = @]
      BY <2>1, <2>3, <2>5 DEF View!vars
    <2> QED
      BY <2>2, <2>4, <2>5
  <1>6. ASSUME ~Tick, \A d \in Devices : ~Check(d)
        PROVE  UNCHANGED <<now, genuine>>
    BY <1>6 DEF Next, vars, Agent, Register, Load, Open, Dump, RegisterStart, SeedOpen,
                SeedWrite, RegisterLoad, Abort
  <1> QED
    BY <1>2, <1>4, <1>5, <1>6 DEF View!Next

\* PostureStore implements PostureView: the authz-bridge, modelled on top of
\* PostureView, may forget how the file is written.
THEOREM StoreImplementsView == Spec => ViewSpec
  BY Invariance, ViewInit, ViewStep, PTL DEF Spec, ViewSpec, View!Spec

-----------------------------------------------------------------------------
(* Runs that have the file for themselves lose no verdict.                 *)

\* A copy that writes back what was last written for every address but its own.
Faithful(r, wr) == r.copy = [wr EXCEPT ![r.key] = r.rec]

\* The file shows what was last written for every address.
Settled(f, wr) == f = Text(wr) \/ (f = NoFile /\ wr = EmptyStore)

\* What a writer in state r relies on once it has the file.
SerialRun(r, f, wr) ==
    /\ r.pc = "seed"    => f = NoFile /\ wr = EmptyStore
    /\ r.pc = "seeding" => f = EmptyFile /\ wr = EmptyStore
    /\ r.pc = "loaded"  => Faithful(r, wr)
    /\ r.pc = "opened"  => Faithful(r, wr) /\ f = EmptyFile

Truncates(r) == r.pc \in {"seeding", "opened"}

\* SerialRunsKeepVerdicts is about moments between two runs; what leads from
\* one to the next is that a single writer has the file, that its copy agrees
\* with the history, and that nothing but its own truncation empties the file.
Serial ==
    /\ \A v, w \in Writers : InFile(v) /\ InFile(w) => v = w
    /\ \A w \in Writers : SerialRun(run[w], file, written)
    /\ (\A w \in Writers : ~Truncates(run[w])) => Settled(file, written)

SerialInv == exclusive => Serial

\* Every file the system starts from is its own history.
LEMMA InitSerial == Init => SerialInv
  BY DEF Init, SerialInv, Serial, InFile, SerialRun, Settled, Truncates, Idle, NoFile, Text

\* A run that has lost the file to another, or died, is never forgotten.
LEMMA ExclusiveEnds ==
    ASSUME IInv, [Next]_vars, exclusive'
    PROVE  exclusive
  BY DEF IInv, TypeOK, Next, vars, Tick, Agent, Register, Check, Load, Open, Dump,
         RegisterStart, SeedOpen, SeedWrite, RegisterLoad, Abort, Follow

\* As long as runs do not overlap, every step of one keeps the invariant.
LEMMA NextSerial ==
    ASSUME IInv, SerialInv, [Next]_vars
    PROVE  SerialInv'
  <1> SUFFICES ASSUME exclusive' PROVE Serial'
    BY DEF SerialInv
  <1>0. exclusive /\ Serial
    BY ExclusiveEnds DEF SerialInv
  <1>t. /\ run \in [Writers -> Runs] /\ file \in Files /\ written \in [Ips -> Records]
        /\ \A w \in Writers : run[w].pc # "idle" => run[w].key \in Ips
    BY DEF IInv, TypeOK, SoundRun, Runs
  <1>s. Script \in Writers /\ \A d \in Devices : d \in Writers
    BY DEF Writers
  \* A step of a writer that has not got the file, and does not take it.
  <1>q. ASSUME NEW w \in Writers, NEW r, run' = [run EXCEPT ![w] = r],
               ~InFile(w), r.pc \in {"idle", "checked"},
               file' = file, written' = written
        PROVE  Serial'
    <2>1. run'[w] = r /\ \A v \in Writers : v # w => run'[v] = run[v]
      BY <1>t, <1>q
    <2>2. \A v \in Writers : InFile(v)' => v # w /\ InFile(v)
      BY <1>q, <2>1 DEF InFile
    <2>3. \A v \in Writers : SerialRun(run'[v], file, written)
      BY <1>0, <1>q, <2>1 DEF Serial, SerialRun
    <2>4. (\A v \in Writers : ~Truncates(run'[v])) => \A v \in Writers : ~Truncates(run[v])
      BY <1>q, <2>1 DEF Truncates, InFile
    <2> QED
      BY <1>0, <1>q, <2>2, <2>3, <2>4 DEF Serial
  \* A step of the writer that has the file.
  <1>a. ASSUME NEW w \in Writers, NEW r, run' = [run EXCEPT ![w] = r],
               ~Overlaps(w), SerialRun(r, file', written'),
               ~Truncates(r) => Settled(file', written')
        PROVE  Serial'
    <2>1. run'[w] = r /\ \A v \in Writers : v # w => run'[v] = run[v] /\ ~InFile(v)
      BY <1>t, <1>a DEF Overlaps
    <2>2. \A v \in Writers : InFile(v)' => v = w
      BY <2>1 DEF InFile
    <2>3. \A v \in Writers : SerialRun(run'[v], file', written')
      BY <1>a, <2>1 DEF SerialRun, InFile
    <2> QED
      BY <1>a, <2>1, <2>2, <2>3 DEF Serial
  <1>o. \A w \in Writers : InFile(w) => ~Overlaps(w)
    BY <1>0 DEF Serial, Overlaps
  \* Where no other writer has the file and w has not truncated it.
  <1>f. ASSUME NEW w \in Writers, ~Overlaps(w), ~Truncates(run[w])
        PROVE  Settled(file, written)
    <2>1. \A v \in Writers : ~Truncates(run[v])
      BY <1>f DEF Overlaps, Truncates, InFile
    <2> QED
      BY <1>0, <2>1 DEF Serial
  <1>1. CASE Tick
    BY <1>0, <1>1 DEF Tick, Serial, InFile
  <1>2. ASSUME NEW d \in Devices, Check(d) PROVE Serial'
    <2>1. PICK key, rec : run' = [run EXCEPT ![d] =
                [Idle EXCEPT !.pc = "checked", !.key = key, !.rec = rec]]
      BY <1>2 DEF Check
    <2> DEFINE r == [Idle EXCEPT !.pc = "checked", !.key = key, !.rec = rec]
    <2>2. r.pc = "checked" /\ ~InFile(d) /\ file' = file /\ written' = written
      BY <1>2 DEF Check, Idle, InFile
    <2> HIDE DEF r
    <2> QED
      BY <1>q, <1>s, <2>1, <2>2 DEF r
  \* A writer reads the file and changes its own record.
  <1>l. ASSUME NEW w \in Writers, run[w].pc = "checked",
               NEW recs, recs = IF file.kind = "ok" THEN file.recs ELSE EmptyStore,
               Loaded(w, recs), Follow(~Overlaps(w)), file' = file
        PROVE  Serial'
    <2> DEFINE r == [run[w] EXCEPT !.pc = "loaded",
                         !.copy = [recs EXCEPT ![run[w].key] = run[w].rec]]
    <2>1. ~Overlaps(w) /\ written' = written
      BY <1>l DEF Follow
    <2>2. Settled(file, written)
      BY <1>f, <1>l, <2>1 DEF Truncates
    <2>3. recs = written
      BY <1>l, <2>2 DEF Settled, Text, NoFile
    <2>4. run' = [run EXCEPT ![w] = r]
      BY <1>l, <1>t DEF Loaded, Runs
    <2>5. r.pc = "loaded" /\ Faithful(r, written)
      BY <1>t, <2>3 DEF Faithful, Runs
    <2>6. SerialRun(r, file', written')
      BY <1>l, <2>1, <2>5 DEF SerialRun
    <2> HIDE DEF r
    <2> QED
      BY <1>a, <1>l, <2>1, <2>2, <2>4, <2>6
  <1>3. ASSUME NEW d \in Devices, Load(d) PROVE Serial'
    BY <1>l, <1>s, <1>3 DEF Load
  <1>4. ASSUME NEW w \in Writers, Open(w) PROVE Serial'
    <2> DEFINE r == [run[w] EXCEPT !.pc = "opened"]
    <2>1. run' = [run EXCEPT ![w] = r] /\ file' = EmptyFile /\ written' = written
      BY <1>4, <1>t DEF Open
    <2>2. ~Overlaps(w) /\ Faithful(run[w], written)
      BY <1>0, <1>4, <1>o DEF Open, InFile, Serial, SerialRun
    <2>3. r.pc = "opened" /\ Faithful(r, written)
      BY <1>t, <2>2 DEF Faithful, Runs
    <2>4. SerialRun(r, file', written') /\ Truncates(r)
      BY <2>1, <2>3 DEF SerialRun, Truncates
    <2> HIDE DEF r
    <2> QED
      BY <1>a, <2>1, <2>2, <2>4
  <1>5. ASSUME NEW w \in Writers, Dump(w) PROVE Serial'
    <2>1. ~Overlaps(w) /\ Faithful(run[w], written) /\ file = EmptyFile
      BY <1>0, <1>5, <1>o DEF Dump, InFile, Serial, SerialRun
    <2>2. run' = [run EXCEPT ![w] = Idle] /\ written' = run[w].copy
      BY <1>0, <1>5, <2>1 DEF Dump, Faithful
    <2>3. file' = Text(run[w].copy)
      BY <1>5, <2>1 DEF Dump, Overwrite, EmptyFile
    <2>4. SerialRun(Idle, file', written') /\ Settled(file', written')
      BY <2>2, <2>3 DEF SerialRun, Settled, Idle
    <2> QED
      BY <1>a, <2>1, <2>2, <2>4
  <1>6. ASSUME NEW d \in Devices, RegisterStart(IpOf[d]) PROVE Serial'
    <2> DEFINE r == [Idle EXCEPT
                       !.pc = IF file.kind = "missing" THEN "seed" ELSE "checked",
                       !.key = IpOf[d], !.rec = Bare("unhealthy")]
    <2>1. run' = [run EXCEPT ![Script] = r] /\ file' = file /\ written' = written
          /\ ~InFile(Script) /\ (file.kind = "missing" => ~Overlaps(Script))
      BY <1>6 DEF RegisterStart, Follow, InFile
    <2>2. r.pc = IF file.kind = "missing" THEN "seed" ELSE "checked"
      BY DEF Idle
    <2> HIDE DEF r
    <2>3. CASE file.kind = "missing"
      <3>1. Settled(file, written)
        BY <1>f, <1>s, <2>1, <2>3 DEF InFile, Truncates
      <3>2. SerialRun(r, file', written')
        BY <2>1, <2>2, <2>3, <3>1 DEF SerialRun, Settled, Text
      <3> QED
        BY <1>a, <1>s, <2>1, <2>3, <3>1, <3>2
    <2>4. CASE file.kind # "missing"
      BY <1>q, <1>s, <2>1, <2>2, <2>4
    <2> QED
      BY <2>3, <2>4
  <1>7. CASE SeedOpen
    <2> DEFINE r == [run[Script] EXCEPT !.pc = "seeding"]
    <2>1. run' = [run EXCEPT ![Script] = r] /\ file' = EmptyFile /\ written' = written
      BY <1>7, <1>t, <1>s DEF SeedOpen
    <2>2. ~Overlaps(Script) /\ written = EmptyStore
      BY <1>0, <1>7, <1>o, <1>s DEF SeedOpen, InFile, Serial, SerialRun
    <2>3. r.pc = "seeding"
      BY <1>t, <1>s DEF Runs
    <2>4. SerialRun(r, file', written') /\ Truncates(r)
      BY <2>1, <2>2, <2>3 DEF SerialRun, Truncates
    <2> HIDE DEF r
    <2> QED
      BY <1>a, <1>s, <2>1, <2>2, <2>4
  <1>8. CASE SeedWrite
    <2> DEFINE r == [run[Script] EXCEPT !.pc = "checked"]
    <2>1. run' = [run EXCEPT ![Script] = r] /\ written' = written
      BY <1>8, <1>t, <1>s DEF SeedWrite
    <2>2. ~Overlaps(Script) /\ written = EmptyStore /\ file = EmptyFile
      BY <1>0, <1>8, <1>o, <1>s DEF SeedWrite, InFile, Serial, SerialRun
    <2>3. file' = Text(EmptyStore)
      BY <1>8, <2>2 DEF SeedWrite, Overwrite, EmptyFile
    <2>4. r.pc = "checked"
      BY <1>t, <1>s DEF Runs
    <2>5. SerialRun(r, file', written') /\ Settled(file', written')
      BY <2>1, <2>2, <2>3, <2>4 DEF SerialRun, Settled
    <2> HIDE DEF r
    <2> QED
      BY <1>a, <1>s, <2>1, <2>2, <2>5
  <1>9. CASE RegisterLoad
    <2>1. CASE file.kind = "ok"
      BY <1>l, <1>s, <1>9, <2>1 DEF RegisterLoad
    <2>2. CASE file.kind # "ok"
      <3>1. run' = [run EXCEPT ![Script] = Idle] /\ ~InFile(Script)
            /\ Idle.pc = "idle" /\ file' = file /\ written' = written
        BY <1>9, <2>2 DEF RegisterLoad, InFile, Idle
      <3> QED
        BY <1>q, <1>s, <3>1
    <2> QED
      BY <2>1, <2>2
  <1>10. ASSUME NEW w \in Writers, Abort(w) PROVE FALSE
    BY <1>10 DEF Abort, Follow
  <1>11. CASE UNCHANGED vars
    BY <1>0, <1>11 DEF vars, Serial, InFile
  <1> QED
    BY <1>1, <1>2, <1>3, <1>4, <1>5, <1>6, <1>7, <1>8, <1>9, <1>10, <1>11, <1>s
    DEF Next, Agent, Register

\* Agents and registrations that have the file one at a time and finish lose no
\* record: between two runs the store holds what was last written for every
\* address, for any number of devices.
THEOREM SerialRunsLoseNothing == Spec => []SerialRunsKeepVerdicts
  <1>1. IInv /\ SerialInv => SerialRunsKeepVerdicts
    BY DEF SerialInv, Serial, SerialRunsKeepVerdicts, Truncates, Settled, Text, NoFile
  <1> QED
    BY <1>1, InitSerial, NextSerial, Invariance, PTL DEF Spec

=============================================================================
