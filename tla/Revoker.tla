------------------------------- MODULE Revoker -------------------------------
(***************************************************************************)
(* The revocation service, scripts/posture_revoker.py: every few seconds   *)
(* it reads the whole posture log again and, for each entry that shows a   *)
(* device unhealthy that the entry before it showed healthy, removes the   *)
(* device's WireGuard peers and ends the sessions of its user.             *)
(*                                                                         *)
(* What the service knows of a device is kept in memory from one pass to   *)
(* the next, and lost when it is restarted.  The log grows, peers are      *)
(* provisioned and users log in between any two of its steps, and each     *)
(* call it makes may fail.                                                 *)
(***************************************************************************)
EXTENDS Integers, Sequences

CONSTANTS
    Ids,            \* device_ids that are addresses: no peer is found for another
    Peers,          \* public keys
    Users,
    Emails,         \* what entries have as user_email
    NoEmail,        \* an entry without one
    FirstMatch,     \* FirstMatch[e]: the first of the users Authentik finds
                    \* when it searches for e; a search for a text may find
                    \* others whose name or email contains it
    MaxLog,         \* bound: lines in the log
    MaxFaults,      \* bound: calls that fail
    MaxProvisions,  \* bound: peers provisioned
    MaxRestarts     \* bound: restarts of the service

ASSUME RevokerAssumption ==
    /\ NoEmail \notin Emails
    /\ FirstMatch \in [Emails -> Users]
    /\ MaxLog \in Nat
    /\ MaxFaults \in Nat
    /\ MaxProvisions \in Nat
    /\ MaxRestarts \in Nat

VARIABLES
    log,           \* /var/log/device_posture.log
    allowed,       \* allowed[p]: the devices peer p's allowed-ips cover, {}
                   \* when the interface has no such peer
    sessions,      \* users with a session at the identity provider
    device_state,  \* what the service last saw of each device
    pass,          \* the pass over the log in progress
    faults, provisions, restarts

env == <<log, allowed, sessions, provisions>>
vars == <<log, allowed, sessions, device_state, pass, faults, provisions, restarts>>

\* entry.get("healthy", False): true, false or absent, or a value such as
\* null or 1 that is neither True nor False.
Verdicts == {"True", "False", "other"}

\* A line of the log: an entry; one that is blank or not JSON, which is
\* skipped; JSON that is no object, which entry.get raises on; or bytes that
\* are no text, on which readlines raises.
Entries ==
    [kind : {"entry"}, device : Ids, healthy : Verdicts, user_email : Emails \cup {NoEmail}]
Others == [kind : {"skipped", "raises", "undecodable"}]
Lines == Entries \cup Others

IsEntry(line, d, healthy) ==
    line.kind = "entry" /\ line.device = d /\ line.healthy = healthy

States == Verdicts \cup {"None"}

Passes ==
    [pc : {"sleep", "scan", "remove", "sessions"}, n : 0 .. MaxLog,
     i : 1 .. MaxLog + 1, targets : SUBSET Peers]

TypeOK ==
    /\ log \in Seq(Lines)
    /\ Len(log) <= MaxLog
    /\ allowed \in [Peers -> SUBSET Ids]
    /\ sessions \subseteq Users
    /\ device_state \in [Ids -> States]
    /\ pass \in Passes
    /\ faults \in 0 .. MaxFaults
    /\ provisions \in 0 .. MaxProvisions
    /\ restarts \in 0 .. MaxRestarts

Forgotten == [d \in Ids |-> "None"]

Asleep(n) == [pc |-> "sleep", n |-> n, i |-> 1, targets |-> {}]

Init ==
    /\ log = <<>>
    /\ allowed = [p \in Peers |-> {}]
    /\ sessions = {}
    /\ device_state = Forgotten
    /\ pass = Asleep(0)
    /\ faults = 0
    /\ provisions = 0
    /\ restarts = 0

-----------------------------------------------------------------------------
(* External: the writer of the log, the administrator, the users.          *)

Report ==
    /\ Len(log) < MaxLog
    /\ \E line \in Lines : log' = Append(log, line)
    /\ UNCHANGED <<allowed, sessions, device_state, pass, faults, provisions, restarts>>

\* wg set ... allowed-ips: an address belongs to one peer, the latest.
Provision(p, d) ==
    /\ provisions < MaxProvisions
    /\ provisions' = provisions + 1
    /\ allowed' = [q \in Peers |-> IF q = p THEN {d} ELSE allowed[q] \ {d}]
    /\ UNCHANGED <<log, sessions, device_state, pass, faults, restarts>>

Login(u) ==
    /\ sessions' = sessions \cup {u}
    /\ UNCHANGED <<log, allowed, device_state, pass, faults, provisions, restarts>>

-----------------------------------------------------------------------------
(* The service.                                                            *)

Fault == faults < MaxFaults /\ faults' = faults + 1

\* Mutant of StartPass: the lines read by the last pass are not read again.
StartPass_new_lines ==
    /\ pass.pc = "sleep"
    /\ pass' = [pass EXCEPT !.pc = "scan", !.n = Len(log), !.i = pass.n + 1]
    /\ UNCHANGED <<env, device_state, faults, restarts>>

\* The log has a line that is no text; it is never rotated.
Undecodable == \E k \in 1 .. Len(log) : log[k].kind = "undecodable"

\* process_posture_log: readlines, the whole file, if it can be read.  When it
\* raises, no line is looked at, not even those before the one at fault.
StartPass ==
    /\ pass.pc = "sleep"
    /\ ~Undecodable
    /\ \/ pass' = [pass EXCEPT !.pc = "scan", !.n = Len(log), !.i = 1] /\ UNCHANGED faults
       \/ Fault /\ UNCHANGED pass
    /\ UNCHANGED <<env, device_state, restarts>>

Line == log[pass.i]

\* Mutant of Degrades: a device never seen before is taken for healthy.
Degrades_if_unseen(prev, healthy) == prev # "False" /\ healthy = "False"

\* prev is True and healthy is False
Degrades(prev, healthy) == prev = "True" /\ healthy = "False"

\* Mutant of Observed: a value the rest of the service does not know.
Observed_degraded(line) == IF line.healthy = "True" THEN "True" ELSE "degraded"

\* device_state[device_id] = healthy
Observed(line) == line.healthy

\* The end of the loop body, once a line has been dealt with.
Record ==
    /\ device_state' = [device_state EXCEPT ![Line.device] = Observed(Line)]
    /\ pass' = [pass EXCEPT !.pc = "scan", !.i = @ + 1, !.targets = {}]

\* main catches what process_posture_log raises and sleeps.
GiveUp ==
    /\ pass' = Asleep(pass.n)
    /\ UNCHANGED device_state

\* The peers whose allowed-ips cover device d, from wg show.
Covering(d) == {p \in Peers : d \in allowed[p]}

\* The loop body up to _revoke_device's list of peers.  When wg show fails or
\* times out the list is empty; when wg cannot be started the error goes up
\* to main.
Scan ==
    /\ pass.pc = "scan"
    /\ pass.i <= pass.n
    /\ \/ /\ Line.kind = "skipped"
          /\ pass' = [pass EXCEPT !.i = @ + 1]
          /\ UNCHANGED <<device_state, faults>>
       \/ Line.kind = "raises" /\ GiveUp /\ UNCHANGED faults
       \/ /\ Line.kind = "entry"
          /\ ~Degrades(device_state[Line.device], Line.healthy)
          /\ Record
          /\ UNCHANGED faults
       \/ /\ Line.kind = "entry"
          /\ Degrades(device_state[Line.device], Line.healthy)
          /\ \/ /\ pass' = [pass EXCEPT !.pc = "remove", !.targets = Covering(Line.device)]
                /\ UNCHANGED <<device_state, faults>>
             \/ /\ Fault
                /\ pass' = [pass EXCEPT !.pc = "remove", !.targets = {}]
                /\ UNCHANGED device_state
             \/ Fault /\ GiveUp
    /\ UNCHANGED <<env, restarts>>

\* remove_wireguard_peer, for each peer listed; its result is not looked at.
\* What the peer covers by now does not matter: it goes by its key.  A wg set
\* that times out may have taken effect.
Remove(p) ==
    /\ pass.pc = "remove"
    /\ p \in pass.targets
    /\ \/ /\ pass' = [pass EXCEPT !.targets = @ \ {p}]
          /\ allowed' = [allowed EXCEPT ![p] = {}]
          /\ UNCHANGED <<device_state, faults>>
       \/ /\ Fault
          /\ pass' = [pass EXCEPT !.targets = @ \ {p}]
          /\ allowed' \in {allowed, [allowed EXCEPT ![p] = {}]}
          /\ UNCHANGED device_state
       \/ Fault /\ GiveUp /\ UNCHANGED allowed
    /\ UNCHANGED <<log, sessions, provisions, restarts>>

Removed ==
    /\ pass.pc = "remove"
    /\ pass.targets = {}
    /\ pass' = [pass EXCEPT !.pc = "sessions"]
    /\ UNCHANGED <<env, device_state, faults, restarts>>

\* Mutant of RevokeSessions: every user the search may find is logged out.
RevokeSessions_all_found ==
    /\ pass.pc = "sessions"
    /\ Record
    /\ sessions' = IF Line.user_email = NoEmail THEN sessions ELSE {}
    /\ UNCHANGED <<log, allowed, faults, provisions, restarts>>

\* revoke_authentik_sessions, if the entry names a user: the sessions of the
\* first user found for it are ended; no user is found, or the call is refused
\* or unreachable; or there is an error it does not catch, such as a timeout
\* while it reads the answer.  A call without a good answer may have ended the
\* sessions.  AUTHENTIK_TOKEN is taken to be set.
RevokeSessions ==
    /\ pass.pc = "sessions"
    /\ \/ /\ Line.user_email # NoEmail
          /\ sessions' = sessions \ {FirstMatch[Line.user_email]}
          /\ Record
          /\ UNCHANGED faults
       \/ /\ Line.user_email # NoEmail
          /\ Fault
          /\ Record \/ GiveUp
          /\ sessions' \in {sessions, sessions \ {FirstMatch[Line.user_email]}}
       \/ /\ Line.user_email = NoEmail
          /\ Record
          /\ UNCHANGED <<sessions, faults>>
    /\ UNCHANGED <<log, allowed, provisions, restarts>>

EndPass ==
    /\ pass.pc = "scan"
    /\ pass.i > pass.n
    /\ pass' = Asleep(pass.n)
    /\ UNCHANGED <<env, device_state, faults, restarts>>

\* The service is stopped or dies; systemd starts it again.
Restart ==
    /\ restarts < MaxRestarts
    /\ restarts' = restarts + 1
    /\ device_state' = Forgotten
    /\ pass' = Asleep(0)
    /\ UNCHANGED <<env, faults>>

Service ==
    \/ StartPass \/ Scan \/ Removed \/ RevokeSessions \/ EndPass
    \/ \E p \in Peers : Remove(p)

Next ==
    \/ Report
    \/ \E p \in Peers, d \in Ids : Provision(p, d)
    \/ \E u \in Users : Login(u)
    \/ Service
    \/ Restart

\* The main loop never ends and every call in it has a timeout.
Fairness == WF_vars(Service)

Spec == Init /\ [][Next]_vars
FairSpec == Spec /\ Fairness

-----------------------------------------------------------------------------
(* Properties.                                                             *)

\* A revocation has a cause in the log: the line at hand says that the device
\* is unhealthy, and some line has said that it was healthy.  A device that
\* was never seen healthy is not acted on, however passes and restarts fall.
RevocationHasCause ==
    pass.pc \in {"remove", "sessions"} =>
        /\ pass.i <= pass.n
        /\ pass.n <= Len(log)
        /\ Line.kind = "entry"
        /\ Line.healthy = "False"
        /\ \E k \in 1 .. Len(log) : IsEntry(log[k], Line.device, "True")

\* The log has a reason to revoke at line k: it shows a device unhealthy that
\* it has also shown healthy.
Cause(k) ==
    /\ log[k].kind = "entry"
    /\ log[k].healthy = "False"
    /\ \E j \in 1 .. Len(log) : IsEntry(log[j], log[k].device, "True")

\* Nobody loses access by accident.  A session ends only when the log has a
\* reason to revoke that names somebody the search takes for this user; a peer
\* loses its addresses only to another peer, or when the log has a reason to
\* revoke, however the list of peers has aged since it was made.
AccessEndsWithCause ==
    [][/\ \A u \in sessions \ sessions' :
            \E k \in 1 .. Len(log) :
                Cause(k) /\ log[k].user_email \in Emails /\ FirstMatch[log[k].user_email] = u
       /\ \A p \in Peers : allowed[p] # {} /\ allowed'[p] = {} =>
            \/ \E q \in Peers \ {p} : allowed[p] \subseteq allowed'[q]
            \/ \E k \in 1 .. Len(log) : Cause(k)]_vars

\* The log shows device d degrade at line j: the entry of d before line j is
\* healthy, and no line up to j makes every pass stop there.
Degraded(d, j) ==
    /\ j \in 1 .. Len(log)
    /\ IsEntry(log[j], d, "False")
    /\ \A k \in 1 .. j : log[k].kind # "raises"
    /\ \E i \in 1 .. j - 1 :
         /\ IsEntry(log[i], d, "True")
         /\ \A k \in i + 1 .. j - 1 : log[k].kind = "entry" => log[k].device # d

\* The user found for the one that line j names, if any, has no session.
LoggedOut(j) ==
    \A e \in Emails :
        /\ j <= Len(log)
        /\ log[j].kind = "entry"
        /\ log[j].user_email = e
        => FirstMatch[e] \notin sessions

\* A device that degrades loses its peers, and the user found for the one its
\* entry names loses the session, although calls to wg and to Authentik fail,
\* the service is restarted and peers are provisioned again meanwhile; unless
\* a line that is no text, anywhere in the log, has stopped the service.
DegradationIsRevoked ==
    \A d \in Ids, j \in 2 .. MaxLog :   \* line 1 has no entry before it
        /\ Degraded(d, j) ~> (Covering(d) = {} \/ Undecodable)
        /\ Degraded(d, j) ~> (LoggedOut(j) \/ Undecodable)

\* The documents of the service: it acts when a device goes from healthy to
\* unhealthy, so the log has the healthy entry before the unhealthy one.
RevocationFollowsDegradation ==
    pass.pc \in {"remove", "sessions"} =>
        \E k \in 1 .. pass.i - 1 : IsEntry(log[k], Line.device, "True")

=============================================================================
