---------------------------- MODULE PostureStore ----------------------------
(***************************************************************************)
(* The shared posture store: one JSON file, rewritten whole by the posture *)
(* agent of every device (scripts/posture_check.py, run by a timer) and by *)
(* the registration step of scripts/wg-add-peer.sh, with no lock and no    *)
(* atomic rename, and read by get_posture of the authz-bridge.             *)
(*                                                                         *)
(* A writer reads the file into a private copy, changes one record, opens  *)
(* the file for writing, which truncates it, and writes the copy.  Any     *)
(* other writer, and any reader, may run between two of these steps, and   *)
(* the writer may die there.                                               *)
(***************************************************************************)
EXTENDS Clocks, FiniteSets

CONSTANTS
    Ips,             \* keys of the store
    IpOf,            \* IpOf[d]: the address the gateway sees device d under
    Keys,            \* Keys[d]: the keys the agent of d may file its record
                     \* under, as its host name resolves: IpOf[d], or an
                     \* address such as 127.0.0.1 that is no client's
    NoKey,           \* no key: the writer is idle
    Script,          \* the wg-add-peer.sh process
    Signals,         \* the checks: disk encryption, patch age, processes
    AgentSigns,      \* POSTURE_SIGNING_SECRET is set for the agents
    VerifySigs,      \* POSTURE_SIGNING_SECRET is set for the authz-bridge
    MaxCrashes,      \* bound: writers that die halfway
    MaxRegistrations \* bound: runs of the registration script

ASSUME StoreAssumption ==
    /\ IpOf \in [Devices -> Ips]
    /\ Keys \in [Devices -> SUBSET Ips]
    /\ \A d, e \in Devices : IpOf[d] \in Keys[e] => d = e
    /\ \A d, e \in Devices : IpOf[d] = IpOf[e] => d = e
    /\ NoKey \notin Ips
    /\ Script \notin Devices
    /\ AgentSigns \in BOOLEAN
    /\ VerifySigs \in BOOLEAN
    /\ MaxCrashes \in Nat
    /\ MaxRegistrations \in Nat

Writers == Devices \cup {Script}

VARIABLES
    now,            \* the gateway's clock
    genuine,        \* genuine[d]: the times at which d passed every check
    file,           \* the shared file
    run,            \* run[w]: the state of writer w
    crashes,        \* writers that have died so far
    registrations,  \* registrations started so far
    exclusive,      \* every run so far had the file for itself and finished
    written         \* written[ip]: the record last written for ip; kept only
                    \* while exclusive

vars == <<now, genuine, file, run, crashes, registrations, exclusive, written>>

-----------------------------------------------------------------------------
(* Records.  An agent writes an envelope {"data": ..., "sig": ...}; the    *)
(* script, and the file the repository ships, hold bare records with no    *)
(* checked_at, which readers take for 0, and no signature.                 *)

Record(kind, posture, checked_at, sig) ==
    [kind |-> kind, posture |-> posture, checked_at |-> checked_at, sig |-> sig]

NoRecord == Record("none", "unhealthy", 0, "none")
Bare(posture) == Record("bare", posture, 0, "none")

\* sign_entry: an empty signature when the agent has no secret.
sign_entry == IF AgentSigns THEN "valid" ELSE "none"

Envelope(posture, checked_at) ==
    Record("envelope", posture, checked_at, sign_entry)

Records ==
    [kind : {"none", "bare", "envelope"}, posture : {"healthy", "unhealthy"},
     checked_at : Int, sig : {"none", "valid"}]

EmptyStore == [ip \in Ips |-> NoRecord]

\* What the file holds: no file, no text, text that is not JSON, or a store.
Files == [kind : {"missing", "empty", "garbled", "ok"}, recs : [Ips -> Records]]

NoFile     == [kind |-> "missing", recs |-> EmptyStore]
EmptyFile  == [kind |-> "empty",   recs |-> EmptyStore]
Garbled    == [kind |-> "garbled", recs |-> EmptyStore]
Text(recs) == [kind |-> "ok",      recs |-> recs]

-----------------------------------------------------------------------------
(* The reader.                                                             *)

\* _verify_posture_sig
verify_posture_sig(rec) == VerifySigs => rec.sig = "valid"

\* Mutant of get_posture: the age of the record is not looked at.
get_posture_any_age(ip) ==
    IF file.kind = "ok" /\ verify_posture_sig(file.recs[ip])
    THEN file.recs[ip].posture
    ELSE "unhealthy"

\* get_posture: unhealthy unless the file is readable, holds a record for
\* the address, and the record is signed, recent and says healthy.
get_posture(ip) ==
    LET rec == file.recs[ip] IN
    IF /\ file.kind = "ok"
       /\ rec.kind # "none"
       /\ verify_posture_sig(rec)
       /\ now - rec.checked_at <= MaxPostureAge
    THEN rec.posture
    ELSE "unhealthy"

-----------------------------------------------------------------------------
(* The writers.                                                            *)

Idle == [pc |-> "idle", key |-> NoKey, rec |-> NoRecord, copy |-> EmptyStore]

PCs == {"idle", "seed", "seeding", "checked", "loaded", "opened"}

\* A writer whose copy will not show what another writer does meanwhile.
InFile(w) == run[w].pc \in {"seed", "seeding", "loaded", "opened"}

TypeOK ==
    /\ now \in Times
    /\ genuine \in [Devices -> SUBSET Times]
    /\ file \in Files
    /\ run \in [Writers -> [pc : PCs, key : Ips \cup {NoKey}, rec : Records,
                            copy : [Ips -> Records]]]
    /\ crashes \in 0 .. MaxCrashes
    /\ registrations \in 0 .. MaxRegistrations
    /\ written \in [Ips -> Records]
    /\ exclusive \in BOOLEAN

\* The repository ships a store of bare healthy records, one per address; a
\* fresh host has no file, or an empty store.
Shipped == [ip \in Ips |-> Bare("healthy")]

Init ==
    /\ now = StartTime
    /\ genuine = [d \in Devices |-> {}]
    /\ file \in {NoFile, Text(EmptyStore), Text(Shipped)}
    /\ run = [w \in Writers |-> Idle]
    /\ crashes = 0
    /\ registrations = 0
    /\ written = file.recs
    /\ exclusive = TRUE

Tick ==
    /\ now < MaxTime
    /\ now' = now + 1
    /\ UNCHANGED <<genuine, file, run, crashes, registrations, exclusive, written>>

\* Mutant of Verdict: a query that fails counts as passed.
Verdict_fails_open(true, failed) ==
    IF true \cup failed = Signals THEN "healthy" ELSE "unhealthy"

\* Mutant of Verdict: a third value for a query that fails.
Verdict_unknown(true, failed) ==
    IF failed # {} THEN "unknown"
    ELSE IF true = Signals THEN "healthy" ELSE "unhealthy"

\* The verdict of main: each check passes only if it is true of the device
\* and its query did not fail.
Verdict(true, failed) == IF true \ failed = Signals THEN "healthy" ELSE "unhealthy"

\* main, up to the verdict: the checks and their stamp.
Check(d) ==
    /\ run[d].pc = "idle"
    /\ \E true, failed \in SUBSET Signals, key \in Keys[d] :
         /\ run' = [run EXCEPT ![d] =
                [Idle EXCEPT !.pc = "checked", !.key = key,
                     !.rec = Envelope(Verdict(true, failed), Stamp(d, now))]]
         /\ genuine' = [genuine EXCEPT ![d] =
                IF true = Signals THEN @ \cup {now} ELSE @]
    /\ UNCHANGED <<now, file, crashes, registrations, exclusive, written>>

\* Mutant of Loaded: the new text holds the writer's own record only.
Loaded_own_record_only(w, recs) ==
    run' = [run EXCEPT ![w].pc = "loaded",
                       ![w].copy = [EmptyStore EXCEPT ![run[w].key] = run[w].rec]]

\* What writer w's copy becomes once it has read recs.
Loaded(w, recs) ==
    run' = [run EXCEPT ![w].pc = "loaded",
                       ![w].copy = [recs EXCEPT ![run[w].key] = run[w].rec]]

\* Another writer is about to overwrite the file.
Overlaps(w) == \E v \in Writers \ {w} : InFile(v)

\* Follow the last record of every address as long as ok holds.
Follow(ok) ==
    /\ exclusive' = (exclusive /\ ok)
    /\ written' = IF exclusive' THEN written ELSE EmptyStore

\* Mutant of Load: no handler for a file that does not parse; the agent dies.
Load_dies_unreadable(d) ==
    /\ run[d].pc = "checked"
    /\ IF file.kind \in {"ok", "missing"}
       THEN Loaded(d, file.recs) /\ Follow(~Overlaps(d))
       ELSE run' = [run EXCEPT ![d] = Idle] /\ UNCHANGED <<exclusive, written>>
    /\ UNCHANGED <<now, genuine, file, crashes, registrations>>

\* main: read the store; a missing or unreadable file is an empty store.
Load(d) ==
    /\ run[d].pc = "checked"
    /\ Loaded(d, IF file.kind = "ok" THEN file.recs ELSE EmptyStore)
    /\ Follow(~Overlaps(d))
    /\ UNCHANGED <<now, genuine, file, crashes, registrations>>

\* open(..., "w"), and the shell's > redirection: the text is gone.
Open(w) ==
    /\ run[w].pc = "loaded"
    /\ run' = [run EXCEPT ![w].pc = "opened"]
    /\ file' = EmptyFile
    /\ UNCHANGED <<now, genuine, crashes, registrations, exclusive, written>>

\* What the file can hold after a writer that opened it writes the text of
\* recs at offset 0.  Text another writer put there meanwhile stays visible
\* past the end of the new text, if it is longer, and makes it unreadable.
Overwrite(recs) ==
    IF \/ file.kind \in {"missing", "empty"}
       \/ file.kind = "ok" /\ file.recs \in {EmptyStore, recs}
    THEN {Text(recs)}
    ELSE IF recs = EmptyStore THEN {Garbled} ELSE {Text(recs), Garbled}

\* json.dump and close; echo "$entry".
Dump(w) ==
    /\ run[w].pc = "opened"
    /\ file' \in Overwrite(run[w].copy)
    /\ written' = IF exclusive THEN [written EXCEPT ![run[w].key] = run[w].rec]
                               ELSE written
    /\ run' = [run EXCEPT ![w] = Idle]
    /\ UNCHANGED <<now, genuine, crashes, registrations, exclusive>>

\* register_posture: a bare unhealthy record for the new peer's address.
RegisterStart(ip) ==
    /\ run[Script].pc = "idle"
    /\ registrations < MaxRegistrations
    /\ registrations' = registrations + 1
    /\ run' = [run EXCEPT ![Script] =
           [Idle EXCEPT !.pc = IF file.kind = "missing" THEN "seed" ELSE "checked",
                        !.key = ip, !.rec = Bare("unhealthy")]]
    /\ Follow(file.kind = "missing" => ~Overlaps(Script))
    /\ UNCHANGED <<now, genuine, file, crashes>>

\* echo '{}' > "$POSTURE_STORE": truncate or create the file, then write.
SeedOpen ==
    /\ run[Script].pc = "seed"
    /\ run' = [run EXCEPT ![Script].pc = "seeding"]
    /\ file' = EmptyFile
    /\ UNCHANGED <<now, genuine, crashes, registrations, exclusive, written>>

SeedWrite ==
    /\ run[Script].pc = "seeding"
    /\ run' = [run EXCEPT ![Script].pc = "checked"]
    /\ file' \in Overwrite(EmptyStore)
    /\ UNCHANGED <<now, genuine, crashes, registrations, exclusive, written>>

\* json.load in the script's Python has no handler, and set -e ends the
\* script when it fails: a file that does not parse is left as it is.
RegisterLoad ==
    /\ run[Script].pc = "checked"
    /\ IF file.kind = "ok"
       THEN /\ Loaded(Script, file.recs)
            /\ Follow(~Overlaps(Script))
       ELSE /\ run' = [run EXCEPT ![Script] = Idle]
            /\ UNCHANGED <<exclusive, written>>
    /\ UNCHANGED <<now, genuine, file, crashes, registrations>>

\* A writer dies: killed, its host down, the volume gone.
Abort(w) ==
    /\ run[w].pc # "idle"
    /\ crashes < MaxCrashes
    /\ crashes' = crashes + 1
    /\ run' = [run EXCEPT ![w] = Idle]
    /\ Follow(FALSE)
    /\ UNCHANGED <<now, genuine, file, registrations>>

Agent(d) == Check(d) \/ Load(d) \/ Open(d) \/ Dump(d)

Register ==
    \/ \E d \in Devices : RegisterStart(IpOf[d])
    \/ SeedOpen
    \/ SeedWrite
    \/ RegisterLoad
    \/ Open(Script)
    \/ Dump(Script)

Next ==
    \/ Tick
    \/ \E d \in Devices : Agent(d)
    \/ Register
    \/ \E w \in Writers : Abort(w)

\* The timer starts every agent again and again, and an agent that is not
\* killed runs to its end.
Fairness == \A d \in Devices : WF_vars(Agent(d))

Spec == Init /\ [][Next]_vars
FairSpec == Spec /\ Fairness

-----------------------------------------------------------------------------
(* Properties.                                                             *)

\* A device that get_posture calls healthy did pass every check, no longer
\* ago than MAX_POSTURE_AGE_SECONDS and what its clock runs ahead; no race,
\* crash, revert or corruption of the file makes up a healthy verdict.
HealthyIsGenuine ==
    \A d \in Devices :
        get_posture(IpOf[d]) = "healthy" =>
            \E t \in genuine[d] : now - t <= MaxPostureAge + Skew[d]

\* While the writers have the file one at a time and finish, the store holds
\* the last verdict of every device: a run changes its own record only.
SerialRunsKeepVerdicts ==
    exclusive /\ (\A w \in Writers : run[w].pc \in {"idle", "checked", "loaded"})
        => file.recs = written

\* A store that no reader can parse is readable again later: the agents take
\* it for an empty store and rewrite it.
StoreRecovers == file.kind \in {"empty", "garbled"} ~> file.kind = "ok"

\* checked_at of the healthy verdict a reader finds for device d, or 0.
viewOf == [d \in Devices |->
    LET rec == file.recs[IpOf[d]] IN
    IF /\ file.kind = "ok"
       /\ rec.kind = "envelope"
       /\ verify_posture_sig(rec)
       /\ rec.posture = "healthy"
    THEN rec.checked_at
    ELSE 0]

View == INSTANCE PostureView WITH view <- viewOf

\* The store gives its readers what PostureView promises.
ViewSpec == View!Spec

=============================================================================
