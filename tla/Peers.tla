------------------------------- MODULE Peers --------------------------------
(***************************************************************************)
(* Provisioning of WireGuard peers, from two sides that do not know of     *)
(* each other: the peer API of the authz-bridge (add_peer, remove_peer,    *)
(* next_ip) and the administrators' script wg-add-peer.sh, of which several*)
(* runs may be under way.  The API takes a free address to be one the      *)
(* posture store does not list, and lists no address itself; the script    *)
(* asks WireGuard, waits for a confirmation, and lists the address in the  *)
(* store when it is done.  The revocation service removes peers meanwhile. *)
(* Nobody takes a lock.                                                    *)
(*                                                                         *)
(* An address is its last octet in 10.8.0.0/24.                            *)
(***************************************************************************)
EXTENDS Integers

CONSTANTS
    Keys,        \* well-formed public keys
    Prefixes,    \* what DELETE is given: each the set of keys it begins
    Workers,     \* gunicorn's workers
    Runs,        \* runs of wg-add-peer.sh that may overlap
    FirstHost,   \* the addresses next_ip hands out: 10 .. 254
    LastHost,
    Asked,       \* the addresses an administrator asks for
    WgShowFails  \* may wg show fail or time out?

ASSUME PeersAssumption ==
    /\ Prefixes \subseteq SUBSET Keys
    /\ FirstHost \in 1 .. 255
    /\ LastHost \in 1 .. 255
    /\ Asked \subseteq 1 .. 255
    /\ WgShowFails \in BOOLEAN

NoAddress == 0
Addresses == Asked \cup (FirstHost .. LastHost)

VARIABLES
    present,   \* the keys of the interface's peers
    allowed,   \* allowed[k]: the allowed-ips of peer k
    store,     \* the addresses a reader finds in the posture store
    req,       \* req[w]: the API request worker w handles
    script,    \* script[s]: run s of wg-add-peer.sh
    given,     \* given[k]: the address a run of the script gave k, as long as
               \* k may be expected to keep it (see ScriptPeersKeepAddress)
    reported   \* keys whose addition a log line, an audit record or an error
               \* answer names, since they were last removed

wg == <<present, allowed>>
history == <<given, reported>>
vars == <<present, allowed, store, req, script, given, reported>>

Requests ==
    [pc : {"idle", "auth", "pick", "list", "set", "audit"}, op : {"add", "remove"},
     match : SUBSET Keys, ip : Addresses \cup {NoAddress}]

NoRequest == [pc |-> "idle", op |-> "add", match |-> {}, ip |-> NoAddress]

\* alone is bookkeeping: nobody else provisioned the same key or the same
\* address since the run began.
Scripts ==
    [pc : {"idle", "ip", "key", "confirm", "set", "register"}, match : SUBSET Keys,
     ip : Addresses \cup {NoAddress}, alone : BOOLEAN]

NoScript == [pc |-> "idle", match |-> {}, ip |-> NoAddress, alone |-> TRUE]

NothingGiven == [k \in Keys |-> NoAddress]

TypeOK ==
    /\ present \subseteq Keys
    /\ allowed \in [Keys -> SUBSET Addresses]
    /\ store \subseteq Addresses
    /\ req \in [Workers -> Requests]
    /\ script \in [Runs -> Scripts]
    /\ given \in [Keys -> Addresses \cup {NoAddress}]
    /\ reported \subseteq Keys

Init ==
    /\ present = {}
    /\ allowed = [k \in Keys |-> {}]
    /\ store = {}
    /\ req = [w \in Workers |-> NoRequest]
    /\ script = [s \in Runs |-> NoScript]
    /\ given = NothingGiven
    /\ reported = {}

-----------------------------------------------------------------------------
(* External: the interface, and who else changes it and the store.         *)

\* wg set ... peer k allowed-ips ip/32: an address belongs to one peer, the
\* latest, and a peer set again has the new address only.
WgSet(k, ip) ==
    /\ present' = present \cup {k}
    /\ allowed' = [j \in Keys |-> IF j = k THEN {ip} ELSE allowed[j] \ {ip}]

\* wg set ... peer k remove
WgRemove(k) ==
    /\ present' = present \ {k}
    /\ allowed' = [allowed EXCEPT ![k] = {}]

\* Nothing is expected any more of the peers in keys, and of those that were
\* given an address in ips.
Forget(keys, ips) ==
    given' = [k \in Keys |-> IF k \in keys \/ given[k] \in ips THEN NoAddress ELSE given[k]]

Adding(w) == req[w].pc # "idle" /\ req[w].op = "add"

\* A request to add a peer and a run of the script, or two runs, are about
\* the same key or the same address.
Collide(r, s) == r.match \cap s.match # {} \/ (r.ip = s.ip /\ r.ip # NoAddress)

\* The runs of the script when r is at work beside them.
Beside(r) ==
    [s \in Runs |->
        IF Collide(r, script[s]) THEN [script[s] EXCEPT !.alone = FALSE] ELSE script[s]]

\* The revocation service removes a peer.
Revoke(k) ==
    /\ k \in present
    /\ WgRemove(k)
    /\ Forget({k}, {})
    /\ reported' = reported \ {k}
    /\ UNCHANGED <<store, req, script>>

\* The interface is brought up anew: nothing reads peers.conf.
Restart ==
    /\ present # {}
    /\ present' = {}
    /\ allowed' = [k \in Keys |-> {}]
    /\ Forget(Keys, {})
    /\ reported' = {}
    /\ UNCHANGED <<store, req, script>>

\* An agent files its verdict.
CheckIn(ip) ==
    /\ ip \notin store
    /\ store' = store \cup {ip}
    /\ UNCHANGED <<present, allowed, req, script, history>>

\* The store is unreadable, or records are lost in a race (PostureStore).
StoreLost ==
    /\ store # {}
    /\ store' \in SUBSET store \ {store}
    /\ Forget({}, store \ store')
    /\ UNCHANGED <<present, allowed, req, script, reported>>

-----------------------------------------------------------------------------
(* The peer API.  A request that is refused (400, 403, 404, 409, 507) ends *)
(* without a trace in the interface.                                       *)

End(w) == req' = [req EXCEPT ![w] = NoRequest]
Goto(w, pc) == req' = [req EXCEPT ![w].pc = pc]

\* The key of a request, once it names one.
Key(r) == CHOOSE k \in r.match : TRUE

\* POST /api/peers, with or without allowed_ip, or DELETE /api/peers/<prefix>.
Arrive(w) ==
    /\ req[w].pc = "idle"
    /\ \/ \E k \in Keys, ip \in Asked \cup {NoAddress} :
            req' = [req EXCEPT ![w] = [pc |-> "auth", op |-> "add", match |-> {k}, ip |-> ip]]
       \/ \E p \in Prefixes :
            req' = [req EXCEPT ![w] =
                       [pc |-> "auth", op |-> "remove", match |-> p, ip |-> NoAddress]]
    /\ script' = IF req'[w].op = "add" THEN Beside(req'[w]) ELSE script
    /\ UNCHANGED <<wg, store, history>>

\* check_identity and the Authorization header: an admin session or the
\* token, else 403; then the checks of the body, else 400.
Authorize(w) ==
    /\ req[w].pc = "auth"
    /\ End(w) \/ Goto(w, IF req[w].op = "add" THEN "pick" ELSE "list")
    /\ UNCHANGED <<wg, store, script, history>>

\* Mutant of next_available_ip: the range ends one address later.
next_available_ip_one_more ==
    {ip \in FirstHost .. LastHost + 1 :
        ip \notin store /\ \A i \in FirstHost .. ip - 1 : i \in store}

\* _next_available_ip: the lowest address the store does not list, if any.
next_available_ip ==
    {ip \in FirstHost .. LastHost :
        ip \notin store /\ \A i \in FirstHost .. ip - 1 : i \in store}

\* The address of the new peer; 507 when none is left.  One that is asked for
\* is the administrator's own choice; one that a run of the script has given
\* and not yet listed cannot be told from a free one.
Pick(w) ==
    /\ req[w].pc = "pick"
    /\ \/ req[w].ip # NoAddress /\ Goto(w, "list")
       \/ /\ req[w].ip = NoAddress
          /\ \E ip \in next_available_ip : req' = [req EXCEPT ![w].pc = "list", ![w].ip = ip]
       \/ req[w].ip = NoAddress /\ next_available_ip = {} /\ End(w)
    /\ script' = Beside(req'[w])
    /\ IF req[w].ip # NoAddress THEN Forget({}, {req[w].ip})
       ELSE Forget({}, {script[s].ip : s \in {t \in Runs : script[t].pc = "register"}}
                         \cap {req'[w].ip})
    /\ UNCHANGED <<wg, store, reported>>

\* _get_wg_peers: {} when wg show fails or times out.
Listings == {present} \cup (IF WgShowFails THEN {{}} ELSE {})

\* An added key must not be listed (409), a removed one must (404; the first
\* that matches is taken).
List(w, listed) ==
    /\ req[w].pc = "list"
    /\ \/ req[w].op = "add" /\ req[w].match \cap listed = {} /\ Goto(w, "set")
       \/ req[w].op = "add" /\ req[w].match \cap listed # {} /\ End(w)
       \/ /\ req[w].op = "remove"
          /\ \E k \in req[w].match \cap listed :
               req' = [req EXCEPT ![w].pc = "set", ![w].match = {k}]
       \/ req[w].op = "remove" /\ req[w].match \cap listed = {} /\ End(w)
    /\ Forget(IF req[w].op = "add" THEN req[w].match \ listed ELSE {}, {})
    /\ UNCHANGED <<wg, store, script, reported>>

\* _add_wg_peer, and wg set ... remove.
Set(w) ==
    /\ req[w].pc = "set"
    /\ \/ /\ req[w].op = "add"
          /\ WgSet(Key(req[w]), req[w].ip)
          /\ UNCHANGED <<given, reported>>
       \/ /\ req[w].op = "remove"
          /\ WgRemove(Key(req[w]))
          /\ Forget(req[w].match, {})
          /\ reported' = reported \ req[w].match
    /\ Goto(w, "audit")
    /\ UNCHANGED <<store, script>>

\* The key of a request to add one is named to the client or in the logs.
Reports(w) == reported' = reported \cup (IF req[w].op = "add" THEN req[w].match ELSE {})

\* Mutant of Fails: no error goes back to the client.
Fails_silent(w) ==
    /\ req[w].pc # "idle"
    /\ End(w)
    /\ UNCHANGED <<wg, store, script, history>>

\* wg set fails or times out, before or after it took effect (500), or the
\* worker dies at any point (502): the client is told of an error.
Fails(w) ==
    /\ req[w].pc # "idle"
    /\ End(w)
    /\ Reports(w)
    /\ UNCHANGED <<wg, store, script, given>>

\* The audit record, the log line and the answer 201, or 200.
Audit(w) ==
    /\ req[w].pc = "audit"
    /\ End(w)
    /\ Reports(w)
    /\ UNCHANGED <<wg, store, script, given>>

Api(w) ==
    \/ Arrive(w) \/ Authorize(w) \/ Pick(w) \/ Set(w) \/ Fails(w) \/ Audit(w)
    \/ \E listed \in Listings : List(w, listed)

-----------------------------------------------------------------------------
(* wg-add-peer.sh; set -e ends it at the first command that fails.         *)

\* validate_ip: the last octet is between 2 and 254.
validate_ip(ip) == ip \in 2 .. 254

ScriptStart(s, k, ip) ==
    /\ script[s].pc = "idle"
    /\ validate_ip(ip)
    /\ LET run == [pc |-> "ip", match |-> {k}, ip |-> ip, alone |-> TRUE]
           alone == /\ \A t \in Runs : ~Collide(script[t], run)
                    /\ \A w \in Workers : Adding(w) => ~Collide(req[w], run)
       IN script' = [Beside(run) EXCEPT ![s] = [run EXCEPT !.alone = alone]]
    /\ UNCHANGED <<wg, store, req, history>>

\* grep -q "$ip": the digits of ip begin those of the address listed.
grep(ip, listed) == ip \in {listed, listed \div 10, listed \div 100}

check_duplicate_ip(ip) == \E k \in present : \E a \in allowed[k] : grep(ip, a)

\* A check of the script: when it holds the script ends; when wg show fails
\* nothing is found.
ScriptCheck(s, pc, duplicate, next) ==
    /\ script[s].pc = pc
    /\ \/ /\ script' = [script EXCEPT ![s] =
                           IF duplicate THEN NoScript ELSE [script[s] EXCEPT !.pc = next]]
          /\ UNCHANGED given
       \/ /\ WgShowFails
          /\ duplicate
          /\ script' = [script EXCEPT ![s] = [script[s] EXCEPT !.pc = next]]
          /\ Forget({}, {script[s].ip})
    /\ UNCHANGED <<wg, store, req, reported>>

CheckIp(s) == ScriptCheck(s, "ip", check_duplicate_ip(script[s].ip), "key")
CheckKey(s) == ScriptCheck(s, "key", script[s].match \cap present # {}, "confirm")

\* The administrator confirms, after any time, or does not.
Confirm(s) ==
    /\ script[s].pc = "confirm"
    /\ \E run \in {[script[s] EXCEPT !.pc = "set"], NoScript} :
         script' = [script EXCEPT ![s] = run]
    /\ UNCHANGED <<wg, store, req, history>>

\* assign_peer: the log line, then wg set and the entry in peers.conf.
assign_peer(s) ==
    /\ script[s].pc = "set"
    /\ WgSet(Key(script[s]), script[s].ip)
    /\ script' = [script EXCEPT ![s] = [script[s] EXCEPT !.pc = "register"]]
    /\ given' = [given EXCEPT ![Key(script[s])] =
                     IF script[s].alone THEN script[s].ip ELSE NoAddress]
    /\ reported' = reported \cup script[s].match
    /\ UNCHANGED <<store, req>>

\* Mutant of register_posture: the address is not listed.
register_posture_skipped(s) ==
    /\ script[s].pc = "register"
    /\ script' = [script EXCEPT ![s] = NoScript]
    /\ UNCHANGED <<wg, store, req, history>>

\* register_posture: the store lists the address.
register_posture(s) ==
    /\ script[s].pc = "register"
    /\ store' = store \cup {script[s].ip}
    /\ script' = [script EXCEPT ![s] = NoScript]
    /\ UNCHANGED <<wg, req, history>>

\* A command fails: wg set, the entry in peers.conf, or reading the store.
ScriptDies(s) ==
    /\ script[s].pc \in {"set", "register"}
    /\ script' = [script EXCEPT ![s] = NoScript]
    /\ Forget({}, IF script[s].pc = "register" THEN {script[s].ip} ELSE {})
    /\ UNCHANGED <<wg, store, req, reported>>

Script(s) ==
    \/ \E k \in Keys, ip \in Asked : ScriptStart(s, k, ip)
    \/ CheckIp(s) \/ CheckKey(s) \/ Confirm(s) \/ assign_peer(s) \/ register_posture(s)
    \/ ScriptDies(s)

Next ==
    \/ \E k \in Keys : Revoke(k)
    \/ Restart
    \/ \E ip \in Addresses : CheckIn(ip)
    \/ StoreLost
    \/ \E w \in Workers : Api(w)
    \/ \E s \in Runs : Script(s)

Spec == Init /\ [][Next]_vars

-----------------------------------------------------------------------------
(* Properties.                                                             *)

\* A peer that a run of the script added, with nobody else provisioning the
\* same key or the same address during the run, keeps its address: what the
\* script asks of WireGuard and writes to the store is enough for later runs
\* and for the API not to take it, whatever else they do beside each other.
\* It ends when the peer is removed, when its record in the store is lost or
\* was not yet written as the API looked for an address, when a wg show that
\* would have shown the peer fails, and when an administrator asks the API
\* for that very address.
ScriptPeersKeepAddress ==
    \A k \in Keys :
        given[k] # NoAddress => k \in present /\ allowed[k] = {given[k]}

\* A peer the interface has was reported since it was added last: in the
\* audit log, in the script's log, or by an error to the client that asked
\* for it, although workers and the script may die between the change and the
\* record of it, and others remove the peer meanwhile.
EveryPeerReported ==
    \A k \in present :
        \/ k \in reported
        \/ \E w \in Workers : req[w].pc = "audit" /\ req[w].op = "add" /\ k \in req[w].match

\* The docstring of _next_available_ip: the address it finds is available.
NextIpIsFree ==
    \A w \in Workers :
        /\ req[w].pc = "pick"
        /\ req[w].ip = NoAddress
        => \A k \in present : allowed[k] \cap next_available_ip = {}

\* What check_duplicate_ip refuses, "IP $ip is already assigned to another
\* peer", does not happen: a run that goes on to wg set takes no other peer's
\* address.
ScriptTakesNoAddress ==
    \A s \in Runs :
        script[s].pc = "set" =>
            \A k \in present \ script[s].match : script[s].ip \notin allowed[k]

=============================================================================
