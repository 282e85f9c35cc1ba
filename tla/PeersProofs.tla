---------------------------- MODULE PeersProofs -----------------------------
(***************************************************************************)
(* Type correctness of peer provisioning, that no peer goes unreported,    *)
(* and that a peer the script added keeps its address, for any keys,       *)
(* workers, addresses and overlapping runs of the script.                  *)
(***************************************************************************)
EXTENDS Peers, TLAPS

(***************************************************************************)
(* What a request and the script know of the peer they are about: one key, *)
(* and an address from the moment it was picked.                           *)
(***************************************************************************)
OneKey(match) == \E k \in Keys : match = {k}

RequestShape(r) ==
    /\ r.pc # "idle" /\ r.op = "add" => OneKey(r.match)
    /\ r.pc \in {"list", "set", "audit"} /\ r.op = "add" => r.ip # NoAddress
    /\ r.pc \in {"set", "audit"} => OneKey(r.match)

RunShape(x) == x.pc # "idle" => OneKey(x.match) /\ x.ip # NoAddress

Shape ==
    /\ \A w \in Workers : RequestShape(req[w])
    /\ \A s \in Runs : RunShape(script[s])

TInv == TypeOK /\ Shape

(***************************************************************************)
(* Why a peer of the script keeps its address: a run that is alone has no  *)
(* key and no address in common with anybody at work (Apart); an address   *)
(* given is in the store, or will be before its run ends (GivenIsListed);  *)
(* so what add_peer picks and the keys it found no peer for are not given  *)
(* to a peer (PickedFree, AddedNew), and neither is the address a run of   *)
(* the script has checked (Checked).                                       *)
(***************************************************************************)
Apart ==
    \A s \in Runs :
        script[s].pc # "idle" /\ script[s].alone =>
            /\ \A w \in Workers : Adding(w) => ~Collide(req[w], script[s])
            /\ \A t \in Runs \ {s} : script[t].pc # "idle" => ~Collide(script[t], script[s])

GivenIsListed ==
    \A k \in Keys :
        given[k] # NoAddress =>
            \/ given[k] \in store
            \/ \E s \in Runs : script[s].pc = "register" /\ script[s].ip = given[k]

PickedFree ==
    \A w \in Workers :
        req[w].op = "add" /\ req[w].pc \in {"list", "set"} =>
            \A k \in Keys : given[k] # req[w].ip

AddedNew ==
    \A w \in Workers :
        req[w].op = "add" /\ req[w].pc = "set" =>
            \A k \in req[w].match : given[k] = NoAddress

Checked ==
    \A s \in Runs :
        script[s].pc \in {"key", "confirm", "set"} => \A k \in Keys : given[k] # script[s].ip

AInv ==
    /\ ScriptPeersKeepAddress
    /\ Apart
    /\ GivenIsListed
    /\ PickedFree
    /\ AddedNew
    /\ Checked

-----------------------------------------------------------------------------

\* 0 is no address of the subnet that is ever handed out.
LEMMA NoAddressApart ==
    /\ Addresses \subseteq Int
    /\ NoAddress \notin Addresses
    /\ Asked \subseteq Addresses
    /\ FirstHost .. LastHost \subseteq Addresses
  BY PeersAssumption DEF Addresses, NoAddress

\* The one key a request names.
LEMMA KeyOfOne ==
    ASSUME NEW r, OneKey(r.match)
    PROVE  Key(r) \in Keys /\ r.match = {Key(r)}
  <1>1. PICK k \in Keys : r.match = {k}
    BY DEF OneKey
  <1>2. Key(r) = k
    BY <1>1 DEF Key
  <1>3. QED
    BY <1>1, <1>2

\* Ending a request leaves the worker without one.
LEMMA EndEffect ==
    ASSUME TypeOK, NEW w \in Workers, End(w)
    PROVE  /\ req' \in [Workers -> Requests]
           /\ req'[w].pc = "idle"
           /\ \A v \in Workers \ {w} : req'[v] = req[v]
  BY DEF TypeOK, End, NoRequest, Requests, NoAddress

\* Moving a request on changes nothing else of it.
LEMMA GotoEffect ==
    ASSUME TypeOK, NEW w \in Workers, NEW pc \in {"pick", "list", "set", "audit"}, Goto(w, pc)
    PROVE  /\ req' \in [Workers -> Requests]
           /\ req'[w].pc = pc
           /\ req'[w].op = req[w].op
           /\ req'[w].match = req[w].match
           /\ req'[w].ip = req[w].ip
           /\ \A v \in Workers \ {w} : req'[v] = req[v]
  <1>1. [req[w] EXCEPT !.pc = pc] \in Requests
    BY DEF TypeOK, Requests
  <1>2. req' = [req EXCEPT ![w] = [req[w] EXCEPT !.pc = pc]]
    BY DEF TypeOK, Goto
  <1>3. req[w] \in Requests
    BY DEF TypeOK
  <1>4. QED
    BY <1>1, <1>2, <1>3 DEF TypeOK, Requests

\* What a new request looks like.
LEMMA ArriveEffect ==
    ASSUME TypeOK, NEW w \in Workers, Arrive(w)
    PROVE  /\ req' \in [Workers -> Requests]
           /\ req'[w].pc = "auth"
           /\ req'[w].op = "add" => OneKey(req'[w].match)
           /\ \A v \in Workers \ {w} : req'[v] = req[v]
  <1>1. CASE \E k \in Keys, ip \in Asked \cup {NoAddress} :
                req' = [req EXCEPT ![w] =
                            [pc |-> "auth", op |-> "add", match |-> {k}, ip |-> ip]]
    <2>1. PICK k \in Keys, ip \in Asked \cup {NoAddress} :
                req' = [req EXCEPT ![w] =
                            [pc |-> "auth", op |-> "add", match |-> {k}, ip |-> ip]]
      BY <1>1
    <2>2. [pc |-> "auth", op |-> "add", match |-> {k}, ip |-> ip] \in Requests
      BY NoAddressApart DEF Requests
    <2>3. QED
      BY <2>1, <2>2 DEF TypeOK, OneKey
  <1>2. CASE \E p \in Prefixes :
                req' = [req EXCEPT ![w] =
                            [pc |-> "auth", op |-> "remove", match |-> p, ip |-> NoAddress]]
    <2>1. PICK p \in Prefixes :
                req' = [req EXCEPT ![w] =
                            [pc |-> "auth", op |-> "remove", match |-> p, ip |-> NoAddress]]
      BY <1>2
    <2>2. [pc |-> "auth", op |-> "remove", match |-> p, ip |-> NoAddress] \in Requests
      BY PeersAssumption DEF Requests
    <2>3. QED
      BY <2>1, <2>2 DEF TypeOK
  <1>3. QED
    BY <1>1, <1>2 DEF Arrive

\* Picking an address keeps the key; an address picked is not in the store.
LEMMA PickEffect ==
    ASSUME TInv, NEW w \in Workers, Pick(w)
    PROVE  /\ req' \in [Workers -> Requests]
           /\ req'[w].pc \in {"idle", "list"}
           /\ req'[w].pc = "list" =>
                /\ req'[w].op = req[w].op
                /\ req'[w].match = req[w].match
                /\ req'[w].ip \in Addresses
                /\ req[w].ip = NoAddress => req'[w].ip \notin store
                /\ req[w].ip # NoAddress => req'[w].ip = req[w].ip
           /\ \A v \in Workers \ {w} : req'[v] = req[v]
  <1>1. req[w] \in Requests
    BY DEF TInv, TypeOK
  <1>2. CASE req[w].ip # NoAddress /\ Goto(w, "list")
    BY <1>1, <1>2, GotoEffect DEF TInv, Requests
  <1>3. CASE /\ req[w].ip = NoAddress
             /\ \E ip \in next_available_ip :
                    req' = [req EXCEPT ![w].pc = "list", ![w].ip = ip]
    <2>1. PICK ip \in next_available_ip : req' = [req EXCEPT ![w].pc = "list", ![w].ip = ip]
      BY <1>3
    <2>2. ip \in Addresses /\ ip \notin store
      BY NoAddressApart DEF next_available_ip
    <2> DEFINE r == [req[w] EXCEPT !.pc = "list", !.ip = ip]
    <2>3. r \in Requests
      BY <1>1, <2>2 DEF Requests
    <2>4. r.pc = "list" /\ r.ip = ip /\ r.op = req[w].op /\ r.match = req[w].match
      BY <1>1 DEF Requests
    <2>5. req' = [req EXCEPT ![w] = r]
      BY <2>1 DEF TInv, TypeOK
    <2> HIDE DEF r
    <2>6. QED
      BY <1>3, <2>2, <2>3, <2>4, <2>5 DEF TInv, TypeOK
  <1>4. CASE End(w)
    BY <1>4, EndEffect DEF TInv
  <1>5. QED
    BY <1>2, <1>3, <1>4 DEF Pick

\* Listing ends a request, or moves it on with one key: of an added one it is
\* no peer listed, of a removed one it is.
LEMMA ListEffect ==
    ASSUME TInv, NEW w \in Workers, NEW listed \in SUBSET Keys, List(w, listed)
    PROVE  /\ req' \in [Workers -> Requests]
           /\ req'[w].pc \in {"idle", "set"}
           /\ req'[w].pc = "set" =>
                /\ req'[w].op = req[w].op
                /\ req'[w].ip = req[w].ip
                /\ OneKey(req'[w].match)
                /\ req[w].op = "add" => /\ req'[w].match = req[w].match
                                        /\ req'[w].match \cap listed = {}
           /\ \A v \in Workers \ {w} : req'[v] = req[v]
  <1>1. req[w] \in Requests /\ RequestShape(req[w])
    BY DEF TInv, TypeOK, Shape
  <1>2. CASE req[w].op = "add" /\ req[w].match \cap listed = {} /\ Goto(w, "set")
    BY <1>1, <1>2, GotoEffect DEF TInv, List, RequestShape
  <1>3. CASE End(w)
    BY <1>3, EndEffect DEF TInv
  <1>4. CASE /\ req[w].op = "remove"
             /\ \E k \in req[w].match \cap listed :
                    req' = [req EXCEPT ![w].pc = "set", ![w].match = {k}]
    <2>1. PICK k \in req[w].match \cap listed :
              req' = [req EXCEPT ![w].pc = "set", ![w].match = {k}]
      BY <1>4
    <2> DEFINE r == [req[w] EXCEPT !.pc = "set", !.match = {k}]
    <2>2. {k} \in SUBSET Keys
      BY <2>1
    <2>3. r \in Requests
      BY <1>1, <2>2 DEF Requests
    <2>4. r.pc = "set" /\ r.match = {k} /\ r.op = req[w].op /\ r.ip = req[w].ip
      BY <1>1 DEF Requests
    <2>5. req' = [req EXCEPT ![w] = r]
      BY <2>1 DEF TInv, TypeOK
    <2> HIDE DEF r
    <2>6. QED
      BY <1>4, <2>2, <2>3, <2>4, <2>5 DEF TInv, TypeOK, OneKey
  <1>5. QED
    BY <1>2, <1>3, <1>4 DEF List

-----------------------------------------------------------------------------
(* Types and shapes.                                                       *)

Givens == [Keys -> Addresses \cup {NoAddress}]

\* The interface keeps its type when a peer is set or removed.
LEMMA WgType ==
    ASSUME TypeOK, NEW k \in Keys, NEW ip \in Addresses, WgSet(k, ip) \/ WgRemove(k)
    PROVE  present' \subseteq Keys /\ allowed' \in [Keys -> SUBSET Addresses]
  BY DEF TypeOK, WgSet, WgRemove

\* Forgetting keeps the type of what was given, and gives nothing.
LEMMA ForgetEffect ==
    ASSUME TypeOK, NEW keys, NEW ips, Forget(keys, ips)
    PROVE  /\ given' \in Givens
           /\ \A k \in Keys : given'[k] = IF k \in keys \/ given[k] \in ips
                                        THEN NoAddress ELSE given[k]
  BY DEF TypeOK, Forget, Givens

\* Somebody at work beside the runs of the script changes nothing of them but
\* that they are alone.
LEMMA BesideEffect ==
    ASSUME TypeOK, NEW r, NEW after, after = Beside(r)
    PROVE  /\ after \in [Runs -> Scripts]
           /\ \A s \in Runs : /\ after[s].pc = script[s].pc
                              /\ after[s].match = script[s].match
                              /\ after[s].ip = script[s].ip
                              /\ after[s].alone => script[s].alone /\ ~Collide(r, script[s])
  <1>1. ASSUME NEW s \in Runs
        PROVE  /\ after[s] \in Scripts
               /\ after[s].pc = script[s].pc
               /\ after[s].match = script[s].match
               /\ after[s].ip = script[s].ip
               /\ after[s].alone => script[s].alone /\ ~Collide(r, script[s])
    <2>1. script[s] \in Scripts
      BY DEF TypeOK
    <2>2. CASE Collide(r, script[s])
      <3>1. after[s] = [script[s] EXCEPT !.alone = FALSE]
        BY <2>2 DEF Beside
      <3>2. QED
        BY <2>1, <3>1 DEF Scripts
    <2>3. CASE ~Collide(r, script[s])
      <3>1. after[s] = script[s]
        BY <2>3 DEF Beside
      <3>2. QED
        BY <2>1, <2>3, <3>1
    <2>4. QED
      BY <2>2, <2>3
  <1>2. after = [s \in Runs |-> after[s]]
    BY DEF Beside
  <1>3. QED
    BY <1>1, <1>2

\* The runs of the script are about the same keys and addresses as before.
SameRuns ==
    \A s \in Runs : /\ script'[s].pc = script[s].pc
                    /\ script'[s].match = script[s].match
                    /\ script'[s].ip = script[s].ip
                    /\ script'[s].alone => script[s].alone

\* A step of the API on one request keeps the others in shape.
LEMMA ShapeOfOthers ==
    ASSUME Shape, NEW w \in Workers, RequestShape(req'[w]), SameRuns,
           \A v \in Workers \ {w} : req'[v] = req[v]
    PROVE  Shape'
  <1>1. ASSUME NEW v \in Workers
        PROVE  RequestShape(req'[v])
    BY DEF Shape
  <1>2. ASSUME NEW s \in Runs
        PROVE  RunShape(script'[s])
    BY DEF Shape, SameRuns, RunShape
  <1>3. QED
    BY <1>1, <1>2 DEF Shape, RequestShape, RunShape, OneKey

\* Runs that a step leaves alone are the same.
LEMMA RunsUntouched == UNCHANGED script => SameRuns
  BY DEF SameRuns

\* The runs of the script in shape, and the requests as they were.
LEMMA ShapeOfScript ==
    ASSUME Shape, UNCHANGED req, \A s \in Runs : RunShape(script'[s])
    PROVE  Shape'
  BY DEF Shape, RequestShape, RunShape, OneKey

\* What other services and administrators do changes no request.
LEMMA EnvTInv ==
    ASSUME TInv, \/ \E k \in Keys : Revoke(k)
                 \/ Restart
                 \/ \E ip \in Addresses : CheckIn(ip)
                 \/ StoreLost
    PROVE  TInv'
  <1>1. UNCHANGED <<req, script>>
    BY DEF Revoke, Restart, CheckIn, StoreLost
  <1>2. Shape'
    BY <1>1 DEF TInv, Shape, RequestShape, RunShape, OneKey
  <1>3. TypeOK'
    <2>0. TypeOK
      BY DEF TInv
    <2>1. ASSUME NEW k \in Keys, Revoke(k)
          PROVE  TypeOK'
      <3>1. given' \in Givens
        BY <2>0, <2>1, ForgetEffect DEF Revoke
      <3>2. present' \subseteq Keys /\ allowed' \in [Keys -> SUBSET Addresses]
        BY <2>1 DEF TInv, TypeOK, Revoke, WgRemove
      <3>3. QED
        BY <2>1, <3>1, <3>2 DEF TInv, TypeOK, Revoke, Givens
    <2>2. CASE Restart
      <3>1. given' \in Givens
        BY <2>0, <2>2, ForgetEffect DEF Restart
      <3>2. QED
        BY <2>2, <3>1 DEF TInv, TypeOK, Restart, Givens
    <2>3. ASSUME NEW ip \in Addresses, CheckIn(ip)
          PROVE  TypeOK'
      BY <2>3 DEF TInv, TypeOK, CheckIn, history
    <2>4. CASE StoreLost
      <3>1. given' \in Givens
        BY <2>0, <2>4, ForgetEffect DEF StoreLost
      <3>2. store' \subseteq store
        BY <2>4 DEF StoreLost
      <3>3. QED
        BY <2>4, <3>1, <3>2 DEF TInv, TypeOK, StoreLost, Givens
    <2>5. QED
      BY <2>1, <2>2, <2>3, <2>4
  <1>4. QED
    BY <1>2, <1>3 DEF TInv

\* Every step of the API keeps types and shapes.
LEMMA ApiTInv ==
    ASSUME TInv, NEW w \in Workers, Api(w)
    PROVE  TInv'
  <1>0. /\ TypeOK
        /\ Shape
        /\ req[w] \in Requests
        /\ RequestShape(req[w])
        /\ given \in Givens
    BY DEF TInv, TypeOK, Shape, Givens
  <1>r. UNCHANGED script => script' \in [Runs -> Scripts] /\ SameRuns
    BY <1>0, RunsUntouched DEF TypeOK
  <1>1. CASE Arrive(w)
    <2>1. RequestShape(req'[w]) /\ req' \in [Workers -> Requests]
      BY <1>0, <1>1, ArriveEffect DEF RequestShape
    <2>2. script' \in [Runs -> Scripts] /\ SameRuns
      <3>1. CASE script' = Beside(req'[w])
        BY <1>0, <3>1, BesideEffect DEF SameRuns
      <3>2. QED
        BY <1>1, <1>r, <3>1 DEF Arrive
    <2>3. Shape'
      BY <1>0, <1>1, <2>1, <2>2, ArriveEffect, ShapeOfOthers
    <2>4. QED
      BY <1>1, <2>1, <2>2, <2>3 DEF TInv, TypeOK, Arrive, wg, history
  <1>2. CASE Authorize(w)
    <2>1. /\ req' \in [Workers -> Requests]
          /\ RequestShape(req'[w])
          /\ \A v \in Workers \ {w} : req'[v] = req[v]
      <3>1. CASE End(w)
        BY <1>0, <3>1, EndEffect DEF RequestShape
      <3>2. CASE req[w].op = "add" /\ Goto(w, "pick")
        BY <1>0, <1>2, <3>2, GotoEffect DEF RequestShape, Authorize
      <3>3. CASE req[w].op # "add" /\ Goto(w, "list")
        BY <1>0, <3>3, GotoEffect DEF RequestShape
      <3>4. QED
        BY <1>2, <3>1, <3>2, <3>3 DEF Authorize
    <2>2. Shape'
      BY <1>0, <1>2, <1>r, <2>1, ShapeOfOthers DEF Authorize
    <2>3. QED
      BY <1>2, <2>1, <2>2 DEF TInv, TypeOK, Authorize, wg, history
  <1>3. CASE Pick(w)
    <2>1. RequestShape(req'[w])
      BY <1>0, <1>3, PickEffect, NoAddressApart DEF RequestShape, Pick
    <2>2. script' \in [Runs -> Scripts] /\ SameRuns
      BY <1>0, <1>3, BesideEffect DEF SameRuns, Pick
    <2>3. Shape'
      BY <1>0, <1>3, <2>1, <2>2, PickEffect, ShapeOfOthers
    <2>4. given' \in Givens
      BY <1>0, <1>3, ForgetEffect DEF Pick
    <2>5. req' \in [Workers -> Requests]
      BY <1>3, PickEffect
    <2>6. QED
      BY <1>3, <2>2, <2>3, <2>4, <2>5 DEF TInv, TypeOK, Pick, wg, Givens
  <1>4. ASSUME NEW listed \in Listings, List(w, listed)
        PROVE  TInv'
    <2>0. listed \in SUBSET Keys
      BY <1>0 DEF TypeOK, Listings
    <2>1. RequestShape(req'[w]) /\ req' \in [Workers -> Requests]
      BY <1>0, <1>4, <2>0, ListEffect DEF RequestShape, List
    <2>2. Shape'
      BY <1>0, <1>4, <1>r, <2>0, <2>1, ListEffect, ShapeOfOthers DEF List
    <2>3. given' \in Givens
      BY <1>0, <1>4, ForgetEffect DEF List
    <2>4. QED
      BY <1>4, <2>1, <2>2, <2>3 DEF TInv, TypeOK, List, wg, Givens
  <1>5. CASE Set(w)
    <2>1. Key(req[w]) \in Keys /\ req[w].match = {Key(req[w])}
      BY <1>0, <1>5, KeyOfOne DEF Set, RequestShape
    <2>2. req' \in [Workers -> Requests] /\ RequestShape(req'[w])
      BY <1>0, <1>5, GotoEffect DEF Set, RequestShape
    <2>3. Shape'
      BY <1>0, <1>5, <1>r, <2>2, GotoEffect, ShapeOfOthers DEF Set
    <2>4. /\ present' \subseteq Keys
          /\ allowed' \in [Keys -> SUBSET Addresses]
          /\ given' \in Givens
          /\ reported' \subseteq Keys
      <3>1. CASE req[w].op = "add"
        <4>1. req[w].ip \in Addresses
          BY <1>0, <1>5, <3>1 DEF Set, RequestShape, Requests
        <4>2. QED
          BY <1>0, <1>5, <2>1, <3>1, <4>1, WgType DEF Set, TypeOK
      <3>2. CASE req[w].op = "remove"
        <4>1. WgRemove(Key(req[w])) /\ given' \in Givens
          BY <1>0, <1>5, <3>2, ForgetEffect DEF Set
        <4>2. reported' \subseteq reported
          BY <1>5, <3>2 DEF Set
        <4>3. QED
          BY <1>0, <2>1, <4>1, <4>2 DEF WgRemove, TypeOK, Givens
      <3>3. QED
        BY <1>0, <3>1, <3>2 DEF Requests
    <2>5. QED
      BY <1>0, <1>5, <2>2, <2>3, <2>4 DEF TInv, TypeOK, Set, Givens
  <1>6. CASE Fails(w) \/ Audit(w)
    <2>1. RequestShape(req'[w]) /\ req' \in [Workers -> Requests]
      BY <1>0, <1>6, EndEffect DEF RequestShape, Fails, Audit
    <2>2. Shape'
      BY <1>0, <1>6, <1>r, <2>1, EndEffect, ShapeOfOthers DEF Fails, Audit
    <2>3. reported' \subseteq Keys
      BY <1>0, <1>6 DEF Fails, Audit, Reports, TypeOK, Requests
    <2>4. QED
      BY <1>6, <2>1, <2>2, <2>3 DEF TInv, TypeOK, Fails, Audit, wg
  <1>7. QED
    BY <1>1, <1>2, <1>3, <1>4, <1>5, <1>6 DEF Api

\* A run of the script moves on, or ends, and the others stay.
LEMMA ScriptMoves ==
    ASSUME TInv, NEW s \in Runs, NEW pc \in {"key", "confirm", "set", "register"},
           script[s].pc # "idle", NEW x,
           x = [script[s] EXCEPT !.pc = pc] \/ x = NoScript,
           script' = [script EXCEPT ![s] = x]
    PROVE  /\ script' \in [Runs -> Scripts]
           /\ \A t \in Runs \ {s} : script'[t] = script[t]
           /\ script'[s].pc \in {pc, "idle"}
           /\ x = [script[s] EXCEPT !.pc = pc] => script'[s].pc = pc
           /\ x = NoScript => script'[s].pc = "idle"
           /\ script'[s].pc # "idle" => /\ script'[s].match = script[s].match
                                        /\ script'[s].ip = script[s].ip
                                        /\ script'[s].alone = script[s].alone
           /\ \A t \in Runs : RunShape(script'[t])
  <1>1. script[s] \in Scripts /\ NoScript \in Scripts
    BY DEF TInv, TypeOK, Scripts, NoScript, NoAddress
  <1>2. x \in Scripts
    BY <1>1 DEF Scripts
  <1>3. /\ x.pc \in {pc, "idle"}
        /\ x = [script[s] EXCEPT !.pc = pc] => x.pc = pc
        /\ x = NoScript => x.pc = "idle"
        /\ x.pc # "idle" => /\ x.match = script[s].match
                            /\ x.ip = script[s].ip
                            /\ x.alone = script[s].alone
    BY <1>1 DEF Scripts, NoScript
  <1>4. script'[s] = x /\ \A t \in Runs \ {s} : script'[t] = script[t]
    BY DEF TInv, TypeOK
  <1>5. script' \in [Runs -> Scripts]
    BY <1>2 DEF TInv, TypeOK
  <1>6. \A t \in Runs : RunShape(script'[t])
    BY <1>3, <1>4 DEF TInv, Shape, RunShape
  <1>7. QED
    BY <1>3, <1>4, <1>5, <1>6

\* A new run, and what it makes of the others.
LEMMA StartEffect ==
    ASSUME TInv, NEW s \in Runs, NEW k \in Keys, NEW ip \in Asked, ScriptStart(s, k, ip)
    PROVE  /\ script' \in [Runs -> Scripts]
           /\ \A t \in Runs : RunShape(script'[t])
           /\ script'[s].pc = "ip" /\ script'[s].match = {k} /\ script'[s].ip = ip
           /\ script'[s].alone =>
                 /\ \A t \in Runs : ~Collide(script[t], script'[s])
                 /\ \A w \in Workers : Adding(w) => ~Collide(req[w], script'[s])
           /\ \A t \in Runs \ {s} : /\ script'[t].pc = script[t].pc
                                    /\ script'[t].match = script[t].match
                                    /\ script'[t].ip = script[t].ip
                                    /\ script'[t].alone =>
                                         script[t].alone /\ ~Collide(script'[s], script[t])
  <1> DEFINE run == [pc |-> "ip", match |-> {k}, ip |-> ip, alone |-> TRUE]
             alone == /\ \A t \in Runs : ~Collide(script[t], run)
                      /\ \A w \in Workers : Adding(w) => ~Collide(req[w], run)
             x == [run EXCEPT !.alone = alone]
             after == Beside(run)
  <1>1. ip \in Addresses /\ ip # NoAddress
    BY NoAddressApart
  <1>2. script' = [after EXCEPT ![s] = x]
    BY DEF ScriptStart
  <1>3. alone \in BOOLEAN
    OBVIOUS
  <1> HIDE DEF alone
  <1>4. x = [pc |-> "ip", match |-> {k}, ip |-> ip, alone |-> alone]
    OBVIOUS
  <1>5. /\ after \in [Runs -> Scripts]
        /\ \A t \in Runs : /\ after[t].pc = script[t].pc
                           /\ after[t].match = script[t].match
                           /\ after[t].ip = script[t].ip
                           /\ after[t].alone => script[t].alone /\ ~Collide(run, script[t])
    BY BesideEffect DEF TInv
  <1>6. /\ \A z : Collide(z, x) <=> Collide(z, run)
        /\ \A z : Collide(x, z) <=> Collide(run, z)
    BY <1>4 DEF Collide
  <1> HIDE DEF after
  <1>7. x \in Scripts
    BY <1>1, <1>3, <1>4 DEF Scripts
  <1>8. script'[s] = x /\ (\A t \in Runs \ {s} : script'[t] = after[t])
        /\ script' \in [Runs -> Scripts]
    BY <1>2, <1>5, <1>7
  <1>9. \A t \in Runs : RunShape(script'[t])
    <2>1. RunShape(x)
      BY <1>1, <1>4 DEF RunShape, OneKey
    <2>2. ASSUME NEW t \in Runs \ {s} PROVE RunShape(script'[t])
      BY <1>5, <1>8, <2>2 DEF RunShape, TInv, Shape
    <2>3. QED
      BY <1>8, <2>1, <2>2
  <1>10. script'[s].alone => alone
    BY <1>4, <1>8
  <1>11. script'[s].alone => /\ \A t \in Runs : ~Collide(script[t], script'[s])
                            /\ \A w \in Workers : Adding(w) => ~Collide(req[w], script'[s])
    <2> HIDE DEF run, x
    <2>1. alone => /\ \A t \in Runs : ~Collide(script[t], run)
                   /\ \A w \in Workers : Adding(w) => ~Collide(req[w], run)
      BY Zenon DEF alone
    <2>2. QED
      BY <1>6, <1>8, <1>10, <2>1, Zenon
  <1>12. QED
    BY <1>4, <1>5, <1>6, <1>8, <1>9, <1>11

\* Every step of the script keeps types and shapes.
LEMMA ScriptTInv ==
    ASSUME TInv, NEW s \in Runs, Script(s)
    PROVE  TInv'
  <1>0. /\ TypeOK /\ Shape /\ script[s] \in Scripts /\ given \in Givens
        /\ RunShape(script[s])
    BY DEF TInv, TypeOK, Givens, Shape
  <1>1. ASSUME NEW k \in Keys, NEW ip \in Asked, ScriptStart(s, k, ip)
        PROVE  TInv'
    <2>1. Shape' /\ script' \in [Runs -> Scripts]
      BY <1>0, <1>1, StartEffect, ShapeOfScript DEF ScriptStart
    <2>2. QED
      BY <1>1, <2>1 DEF TInv, TypeOK, ScriptStart, wg, history
  <1>2. ASSUME NEW pc \in {"ip", "key"}, NEW next \in {"key", "confirm"},
               NEW duplicate \in BOOLEAN, ScriptCheck(s, pc, duplicate, next)
        PROVE  TInv'
    <2>1. PICK x \in {[script[s] EXCEPT !.pc = next], NoScript} :
              script' = [script EXCEPT ![s] = x]
      BY <1>2 DEF ScriptCheck
    <2>2. script' \in [Runs -> Scripts] /\ \A t \in Runs : RunShape(script'[t])
      BY <1>2, <2>1, ScriptMoves DEF ScriptCheck
    <2>3. Shape'
      BY <1>0, <1>2, <2>2, ShapeOfScript DEF ScriptCheck
    <2>4. given' \in Givens
      BY <1>0, <1>2, ForgetEffect DEF ScriptCheck
    <2>5. QED
      BY <1>2, <2>2, <2>3, <2>4 DEF TInv, TypeOK, ScriptCheck, wg, Givens
  <1>3. CASE CheckIp(s)
    BY <1>2, <1>3 DEF CheckIp, check_duplicate_ip
  <1>4. CASE CheckKey(s)
    BY <1>2, <1>4 DEF CheckKey
  <1>5. CASE Confirm(s)
    <2>1. PICK x \in {[script[s] EXCEPT !.pc = "set"], NoScript} :
              script' = [script EXCEPT ![s] = x]
      BY <1>5 DEF Confirm
    <2>2. script' \in [Runs -> Scripts] /\ \A t \in Runs : RunShape(script'[t])
      BY <1>5, <2>1, ScriptMoves DEF Confirm
    <2>3. Shape'
      BY <1>0, <1>5, <2>2, ShapeOfScript DEF Confirm
    <2>4. QED
      BY <1>5, <2>2, <2>3 DEF TInv, TypeOK, Confirm, wg, history
  <1>6. CASE assign_peer(s)
    <2>1. script' \in [Runs -> Scripts] /\ \A t \in Runs : RunShape(script'[t])
      BY <1>6, ScriptMoves DEF assign_peer
    <2>2. Shape'
      BY <1>0, <1>6, <2>1, ShapeOfScript DEF assign_peer
    <2>3. /\ Key(script[s]) \in Keys /\ script[s].match = {Key(script[s])}
          /\ script[s].ip \in Addresses
      BY <1>0, <1>6, KeyOfOne DEF assign_peer, RunShape, Scripts
    <2>4. present' \subseteq Keys /\ allowed' \in [Keys -> SUBSET Addresses]
      BY <1>0, <1>6, <2>3, WgType DEF assign_peer
    <2>5. given' \in Givens
      BY <1>0, <1>6, <2>3 DEF Givens, assign_peer
    <2>6. QED
      BY <1>6, <2>1, <2>2, <2>3, <2>4, <2>5 DEF TInv, TypeOK, assign_peer, Givens
  <1>7. CASE register_posture(s)
    <2>1. script' \in [Runs -> Scripts] /\ \A t \in Runs : RunShape(script'[t])
      BY <1>7, ScriptMoves DEF register_posture
    <2>2. script[s].ip \in Addresses
      BY <1>0, <1>7 DEF register_posture, RunShape, Scripts
    <2>3. Shape'
      BY <1>0, <1>7, <2>1, ShapeOfScript DEF register_posture
    <2>4. QED
      BY <1>7, <2>1, <2>2, <2>3 DEF TInv, TypeOK, register_posture, wg, history
  <1>8. CASE ScriptDies(s)
    <2>1. script' \in [Runs -> Scripts] /\ \A t \in Runs : RunShape(script'[t])
      BY <1>8, ScriptMoves DEF ScriptDies
    <2>2. Shape'
      BY <1>0, <1>8, <2>1, ShapeOfScript DEF ScriptDies
    <2>3. given' \in Givens
      BY <1>0, <1>8, ForgetEffect DEF ScriptDies
    <2>4. QED
      BY <1>8, <2>1, <2>2, <2>3 DEF TInv, TypeOK, ScriptDies, wg, Givens
  <1>9. QED
    BY <1>1, <1>3, <1>4, <1>5, <1>6, <1>7, <1>8 DEF Script

\* The interface is empty and nobody is at work.
LEMMA InitTInv == Init => TInv
  <1> SUFFICES ASSUME Init PROVE TInv
    OBVIOUS
  <1>1. NoRequest \in Requests /\ NoScript \in Scripts
    BY DEF NoRequest, Requests, NoScript, Scripts, NoAddress
  <1>2. TypeOK
    BY <1>1 DEF Init, TypeOK, NothingGiven
  <1>3. Shape
    BY DEF Init, Shape, RequestShape, RunShape, NoRequest, NoScript
  <1>4. QED
    BY <1>2, <1>3 DEF TInv

\* Types and shapes are kept by every step.
LEMMA NextTInv == TInv /\ [Next]_vars => TInv'
  <1> SUFFICES ASSUME TInv, [Next]_vars PROVE TInv'
    OBVIOUS
  <1>1. CASE UNCHANGED vars
    BY <1>1 DEF vars, TInv, TypeOK, Shape, RequestShape, RunShape, OneKey
  <1>2. QED
    BY <1>1, EnvTInv, ApiTInv, ScriptTInv DEF Next

-----------------------------------------------------------------------------
(* Reports.                                                                *)

Pending(k, w) == req[w].pc = "audit" /\ req[w].op = "add" /\ k \in req[w].match

\* A request that neither ends an addition nor removes a peer leaves every
\* peer reported, or about to be.
LEMMA ReportsKept ==
    ASSUME TInv, EveryPeerReported, NEW w \in Workers,
           UNCHANGED <<present, reported>>, req[w].pc # "audit",
           \A v \in Workers \ {w} : req'[v] = req[v]
    PROVE  EveryPeerReported'
  <1> SUFFICES ASSUME NEW k \in present
               PROVE  (k \in reported \/ \E v \in Workers : Pending(k, v))'
    BY DEF EveryPeerReported, Pending
  <1>1. CASE k \in reported
    BY <1>1
  <1>2. CASE \E v \in Workers : Pending(k, v)
    <2>1. PICK v \in Workers : Pending(k, v)
      BY <1>2
    <2>2. v # w /\ req'[v] = req[v]
      BY <2>1 DEF Pending
    <2>3. QED
      BY <2>1, <2>2 DEF Pending
  <1>3. QED
    BY <1>1, <1>2 DEF EveryPeerReported, Pending

\* Every step leaves each peer reported, or about to be.
LEMMA NextReported ==
    ASSUME TInv, EveryPeerReported, [Next]_vars
    PROVE  EveryPeerReported'
  <1>0. TypeOK /\ Shape
    BY DEF TInv
  <1>1. ASSUME NEW k \in Keys, Revoke(k)
        PROVE  EveryPeerReported'
    BY <1>1 DEF EveryPeerReported, Revoke, WgRemove
  <1>2. CASE Restart
    BY <1>2 DEF EveryPeerReported, Restart
  <1>3. CASE StoreLost \/ \E ip \in Addresses : CheckIn(ip)
    BY <1>3 DEF EveryPeerReported, StoreLost, CheckIn, history
  <1>4. ASSUME NEW w \in Workers, Api(w)
        PROVE  EveryPeerReported'
    <2>0. req[w] \in Requests /\ RequestShape(req[w])
      BY <1>0 DEF TypeOK, Shape
    <2>1. CASE Arrive(w)
      BY <1>0, <2>1, ArriveEffect, ReportsKept DEF Arrive, wg, history
    <2>2. CASE Authorize(w)
      <3>1. \A v \in Workers \ {w} : req'[v] = req[v]
        <4>1. CASE End(w)
          BY <1>0, <4>1, EndEffect
        <4>2. CASE \E pc \in {"pick", "list"} : Goto(w, pc)
          BY <1>0, <4>2, GotoEffect
        <4>3. QED
          BY <2>2, <4>1, <4>2 DEF Authorize
      <3>2. QED
        BY <2>2, <3>1, ReportsKept DEF Authorize, wg, history
    <2>3. CASE Pick(w)
      <3>1. /\ \A v \in Workers \ {w} : req'[v] = req[v]
            /\ UNCHANGED <<present, reported>>
            /\ req[w].pc # "audit"
        BY <2>3, PickEffect DEF Pick, wg
      <3>2. QED
        BY <3>1, ReportsKept
    <2>4. ASSUME NEW listed \in Listings, List(w, listed)
          PROVE  EveryPeerReported'
      <3>1. listed \in SUBSET Keys
        BY <1>0 DEF TypeOK, Listings
      <3>2. QED
        BY <2>4, <3>1, ListEffect, ReportsKept DEF List, wg
    <2>5. CASE Set(w) /\ req[w].op = "add"
      <3>1. PICK k \in Keys : k = Key(req[w]) /\ req[w].match = {k}
        BY <2>0, <2>5, KeyOfOne DEF Set, RequestShape
      <3>2. /\ Pending(k, w)'
            /\ \A v \in Workers \ {w} : req'[v] = req[v]
            /\ req[w].pc # "audit"
        BY <1>0, <2>5, <3>1, GotoEffect DEF Set, Pending
      <3>3. present' = present \cup {k} /\ reported' = reported
        BY <2>5, <3>1 DEF Set, WgSet
      <3>4. QED
        BY <3>2, <3>3 DEF EveryPeerReported, Pending
    <2>6. CASE Set(w) /\ req[w].op = "remove"
      <3>1. Key(req[w]) \in Keys /\ req[w].match = {Key(req[w])}
        BY <2>0, <2>6, KeyOfOne DEF Set, RequestShape
      <3>2. (\A v \in Workers \ {w} : req'[v] = req[v]) /\ req[w].pc # "audit"
        BY <1>0, <2>6, GotoEffect DEF Set
      <3>3. present' = present \ {Key(req[w])} /\ reported' = reported \ {Key(req[w])}
        BY <2>6, <3>1 DEF Set, WgRemove
      <3>4. QED
        BY <3>2, <3>3 DEF EveryPeerReported
    <2>7. CASE Fails(w) \/ Audit(w)
      <3>1. \A v \in Workers \ {w} : req'[v] = req[v]
        BY <1>0, <2>7, EndEffect DEF Fails, Audit
      <3>2. /\ UNCHANGED present
            /\ reported \subseteq reported'
            /\ req[w].op = "add" => req[w].match \subseteq reported'
        BY <2>7 DEF Fails, Audit, Reports, wg
      <3>3. QED
        BY <3>1, <3>2 DEF EveryPeerReported
    <2>8. QED
      BY <1>4, <2>0, <2>1, <2>2, <2>3, <2>4, <2>5, <2>6, <2>7 DEF Api, Requests
  <1>5. ASSUME NEW s \in Runs, Script(s), ~assign_peer(s)
        PROVE  EveryPeerReported'
    <2>1. UNCHANGED <<present, reported, req>>
      BY <1>5 DEF Script, ScriptStart, CheckIp, CheckKey, ScriptCheck, Confirm,
                  register_posture, ScriptDies, wg, history
    <2>2. QED
      BY <2>1 DEF EveryPeerReported
  <1>6. ASSUME NEW s \in Runs, assign_peer(s)
        PROVE  EveryPeerReported'
    <2>1. script[s].match = {Key(script[s])}
      BY <1>0, <1>6, KeyOfOne DEF assign_peer, Shape, RunShape
    <2>2. /\ present' = present \cup {Key(script[s])}
          /\ reported' = reported \cup {Key(script[s])}
          /\ UNCHANGED req
      BY <1>6, <2>1 DEF assign_peer, WgSet
    <2>3. QED
      BY <2>2 DEF EveryPeerReported
  <1>7. CASE UNCHANGED vars
    BY <1>7 DEF vars, EveryPeerReported
  <1>8. QED
    BY <1>1, <1>2, <1>3, <1>4, <1>5, <1>6, <1>7 DEF Next

-----------------------------------------------------------------------------
(* Addresses.                                                              *)

Fewer == \A k \in Keys : given'[k] \in {given[k], NoAddress}

\* A step that only takes addresses away from what was given.
LEMMA EnvKeeps ==
    ASSUME TInv, TInv', AInv, Fewer, UNCHANGED <<req, script>>,
           GivenIsListed', ScriptPeersKeepAddress'
    PROVE  AInv'
  <1>1. Apart'
    BY DEF AInv, Apart, Adding, Collide
  <1>2. PickedFree' /\ Checked'
    BY DEF AInv, PickedFree, Checked, Fewer, TInv, Shape, RequestShape, RunShape
  <1>3. AddedNew'
    BY DEF AInv, AddedNew, Fewer, TInv, TypeOK, Requests
  <1>4. QED
    BY <1>1, <1>2, <1>3 DEF AInv

\* An address that is still given is still listed, or its run still under way.
LEMMA StillListed ==
    ASSUME AInv, Fewer, store \subseteq store', SameRuns
    PROVE  GivenIsListed'
  <1> SUFFICES ASSUME NEW k \in Keys, given'[k] # NoAddress
               PROVE  \/ given'[k] \in store'
                      \/ \E s \in Runs : script'[s].pc = "register" /\ script'[s].ip = given'[k]
    BY DEF GivenIsListed
  <1>1. given'[k] = given[k]
    BY DEF Fewer
  <1>2. QED
    BY <1>1 DEF AInv, GivenIsListed, SameRuns

\* A step of one request: what is left to show is about that request.
LEMMA ApiKeeps ==
    ASSUME TInv, TInv', AInv, Fewer, UNCHANGED store, SameRuns,
           ScriptPeersKeepAddress',
           NEW w \in Workers,
           \A v \in Workers \ {w} : req'[v] = req[v],
           req'[w].pc # "idle" /\ req'[w].op = "add" =>
               \A s \in Runs : script[s].pc # "idle" /\ script'[s].alone =>
                   ~Collide(req'[w], script[s]),
           req'[w].op = "add" /\ req'[w].pc \in {"list", "set"} =>
               \A k \in Keys : given'[k] # req'[w].ip,
           req'[w].op = "add" /\ req'[w].pc = "set" =>
               \A k \in req'[w].match : given'[k] = NoAddress
    PROVE  AInv'
  <1>1. Apart'
    <2> SUFFICES ASSUME NEW s \in Runs, script'[s].pc # "idle", script'[s].alone
                 PROVE  /\ \A v \in Workers : Adding(v)' => ~Collide(req'[v], script'[s])
                        /\ \A t \in Runs \ {s} :
                              script'[t].pc # "idle" => ~Collide(script'[t], script'[s])
      BY DEF Apart
    <2>1. /\ \A x : Collide(x, script'[s]) <=> Collide(x, script[s])
          /\ \A t \in Runs : Collide(script'[t], script'[s]) <=> Collide(script[t], script[s])
      BY DEF Collide, SameRuns
    <2>2. script[s].pc # "idle" /\ script[s].alone
      BY DEF SameRuns
    <2>3. \A t \in Runs \ {s} : script'[t].pc # "idle" => ~Collide(script'[t], script'[s])
      BY <2>1, <2>2 DEF AInv, Apart, SameRuns
    <2>4. ASSUME NEW v \in Workers, Adding(v)'
          PROVE  ~Collide(req'[v], script'[s])
      <3>1. CASE v = w
        BY <2>1, <2>2, <2>4, <3>1 DEF Adding
      <3>2. CASE v # w
        BY <2>1, <2>2, <2>4, <3>2 DEF Adding, AInv, Apart
      <3>3. QED
        BY <3>1, <3>2
    <2>5. QED
      BY <2>3, <2>4
  <1>2. GivenIsListed'
    BY StillListed
  <1>3. PickedFree'
    <2> SUFFICES ASSUME NEW v \in Workers, req'[v].op = "add",
                        req'[v].pc \in {"list", "set"}, NEW k \in Keys
                 PROVE  given'[k] # req'[v].ip
      BY DEF PickedFree
    <2>1. CASE v # w
      BY <2>1 DEF AInv, PickedFree, Fewer, TInv, Shape, RequestShape
    <2>2. QED
      BY <2>1
  <1>4. Checked'
    BY DEF AInv, Checked, Fewer, TInv, Shape, RunShape, SameRuns
  <1>5. AddedNew'
    <2> SUFFICES ASSUME NEW v \in Workers, req'[v].op = "add",
                        req'[v].pc = "set", NEW k \in req'[v].match
                 PROVE  given'[k] = NoAddress
      BY DEF AddedNew
    <2>1. CASE v # w
      BY <2>1 DEF AInv, AddedNew, Fewer, TInv, TypeOK, Requests
    <2>2. QED
      BY <2>1
  <1>6. QED
    BY <1>1, <1>2, <1>3, <1>4, <1>5 DEF AInv

\* A step of one run that gives nothing: what is left to show is about it.
LEMMA ScriptKeeps ==
    ASSUME TInv, TInv', AInv, NEW s \in Runs, UNCHANGED <<wg, req>>, Fewer,
           \A t \in Runs \ {s} : script'[t] = script[t],
           script[s].pc # "idle",
           script'[s].pc # "idle" => /\ script'[s].match = script[s].match
                                     /\ script'[s].ip = script[s].ip
                                     /\ script'[s].alone = script[s].alone,
           script'[s].pc \in {"key", "confirm", "set"} =>
               \A k \in Keys : given'[k] # script'[s].ip,
           GivenIsListed'
    PROVE  AInv'
  <1>1. ScriptPeersKeepAddress'
    BY DEF AInv, ScriptPeersKeepAddress, Fewer, wg
  <1>2. Apart'
    <2> SUFFICES ASSUME NEW t \in Runs, script'[t].pc # "idle", script'[t].alone
                 PROVE  /\ \A v \in Workers : Adding(v) => ~Collide(req[v], script'[t])
                        /\ \A u \in Runs \ {t} :
                              script'[u].pc # "idle" => ~Collide(script'[u], script'[t])
      BY DEF Apart, Adding
    <2>1. \A u \in Runs : script'[u].pc # "idle" =>
              /\ script[u].pc # "idle"
              /\ script'[u].match = script[u].match /\ script'[u].ip = script[u].ip
              /\ script'[u].alone = script[u].alone
      OBVIOUS
    <2>2. /\ \A v \in Workers : Adding(v) => ~Collide(req[v], script[t])
          /\ \A u \in Runs \ {t} : script[u].pc # "idle" => ~Collide(script[u], script[t])
      BY <2>1 DEF AInv, Apart
    <2>3. QED
      BY <2>1, <2>2 DEF Collide
  <1>3. PickedFree'
    BY DEF AInv, PickedFree, Fewer, TInv, Shape, RequestShape
  <1>4. AddedNew'
    BY DEF AInv, AddedNew, Fewer, TInv, TypeOK, Requests
  <1>5. Checked'
    <2> SUFFICES ASSUME NEW t \in Runs, script'[t].pc \in {"key", "confirm", "set"},
                        NEW k \in Keys
                 PROVE  given'[k] # script'[t].ip
      BY DEF Checked
    <2>1. CASE t # s
      BY <2>1 DEF AInv, Checked, Fewer, TInv, Shape, RunShape
    <2>2. QED
      BY <2>1
  <1>6. QED
    BY <1>1, <1>2, <1>3, <1>4, <1>5 DEF AInv

\* Removals, restarts, check-ins and lost records take no address from a peer
\* that stays and is listed.
LEMMA EnvAInv ==
    ASSUME TInv, TInv', AInv,
           \/ \E k \in Keys : Revoke(k)
           \/ Restart
           \/ \E ip \in Addresses : CheckIn(ip)
           \/ StoreLost
    PROVE  AInv'
  <1>0. TypeOK
    BY DEF TInv
  <1>1. ASSUME NEW k \in Keys, Revoke(k)
        PROVE  AInv'
    <2>1. \A j \in Keys : given'[j] = IF j = k THEN NoAddress ELSE given[j]
      BY <1>0, <1>1, ForgetEffect DEF Revoke
    <2>2. Fewer /\ GivenIsListed'
      BY <1>1, <2>1, StillListed, RunsUntouched DEF Fewer, Revoke
    <2>3. ScriptPeersKeepAddress'
      BY <1>1, <2>1 DEF AInv, ScriptPeersKeepAddress, Revoke, WgRemove, TInv, TypeOK
    <2>4. QED
      BY <1>1, <2>2, <2>3, EnvKeeps DEF Revoke
  <1>2. CASE Restart
    <2>1. \A k \in Keys : given'[k] = NoAddress
      BY <1>0, <1>2, ForgetEffect DEF Restart
    <2>2. Fewer /\ ScriptPeersKeepAddress' /\ GivenIsListed'
      BY <2>1 DEF Fewer, ScriptPeersKeepAddress, GivenIsListed
    <2>3. QED
      BY <1>2, <2>2, EnvKeeps DEF Restart
  <1>3. ASSUME NEW ip \in Addresses, CheckIn(ip)
        PROVE  AInv'
    <2>1. Fewer /\ ScriptPeersKeepAddress'
      BY <1>3 DEF CheckIn, history, Fewer, AInv, ScriptPeersKeepAddress
    <2>2. GivenIsListed'
      BY <1>3, <2>1, StillListed, RunsUntouched DEF CheckIn
    <2>3. QED
      BY <1>3, <2>1, <2>2, EnvKeeps DEF CheckIn
  <1>4. CASE StoreLost
    <2>1. \A k \in Keys : given'[k] = IF given[k] \in store \ store' THEN NoAddress
                                      ELSE given[k]
      BY <1>0, <1>4, ForgetEffect DEF StoreLost
    <2>2. Fewer /\ ScriptPeersKeepAddress'
      BY <1>4, <2>1 DEF StoreLost, Fewer, AInv, ScriptPeersKeepAddress
    <2>3. GivenIsListed'
      BY <1>4, <2>1 DEF StoreLost, AInv, GivenIsListed
    <2>4. QED
      BY <1>4, <2>2, <2>3, EnvKeeps DEF StoreLost
  <1>5. QED
    BY <1>1, <1>2, <1>3, <1>4

\* add_peer picks an address no peer of the script has, and finds no peer of
\* the script under its key; remove_peer ends what it removes.
LEMMA ApiAInv ==
    ASSUME TInv, TInv', AInv, NEW w \in Workers, Api(w)
    PROVE  AInv'
  <1>0. /\ TypeOK
        /\ Shape
        /\ req[w] \in Requests
        /\ RequestShape(req[w])
        /\ NoAddress \notin Addresses
    BY NoAddressApart DEF TInv, TypeOK, Shape
  \* A request that keeps its key and its address collides with no new run.
  <1>c. ASSUME SameRuns, req[w].pc # "idle", req'[w].op = req[w].op,
               req'[w].match = req[w].match, req'[w].ip = req[w].ip
        PROVE  req'[w].pc # "idle" /\ req'[w].op = "add" =>
                  \A s \in Runs : script[s].pc # "idle" /\ script'[s].alone =>
                      ~Collide(req'[w], script[s])
    <2> SUFFICES ASSUME req'[w].op = "add", NEW s \in Runs, script[s].pc # "idle",
                        script'[s].alone
                 PROVE  ~Collide(req'[w], script[s])
      OBVIOUS
    <2>1. script[s].alone /\ Adding(w)
      BY <1>c DEF SameRuns, Adding
    <2>2. ~Collide(req[w], script[s])
      BY <2>1 DEF AInv, Apart
    <2>3. QED
      BY <1>c, <2>2 DEF Collide
  <1>1. CASE Arrive(w)
    <2>1. Fewer /\ ScriptPeersKeepAddress' /\ UNCHANGED store
      BY <1>1 DEF Fewer, AInv, ScriptPeersKeepAddress, Arrive, wg, history
    <2>2. req'[w].pc = "auth" /\ \A v \in Workers \ {w} : req'[v] = req[v]
      BY <1>0, <1>1, ArriveEffect
    <2>3. CASE req'[w].op = "add"
      <3>1. script' = Beside(req'[w])
        BY <1>1, <2>3 DEF Arrive
      <3>2. /\ SameRuns
            /\ \A s \in Runs : script'[s].alone => ~Collide(req'[w], script[s])
        BY <1>0, <3>1, BesideEffect DEF SameRuns
      <3>3. QED
        BY <2>1, <2>2, <3>2, ApiKeeps
    <2>4. CASE req'[w].op # "add"
      <3>1. SameRuns
        BY <1>1, <2>4, RunsUntouched DEF Arrive
      <3>2. QED
        BY <2>1, <2>2, <2>4, <3>1, ApiKeeps
    <2>5. QED
      BY <2>3, <2>4
  <1>2. CASE Authorize(w)
    <2>1. Fewer /\ ScriptPeersKeepAddress' /\ SameRuns /\ UNCHANGED store
      BY <1>2, RunsUntouched DEF Authorize, history, wg, Fewer, AInv, ScriptPeersKeepAddress
    <2>2. CASE End(w)
      BY <1>0, <2>1, <2>2, EndEffect, ApiKeeps
    <2>3. ASSUME NEW pc \in {"pick", "list"}, Goto(w, pc), pc = "list" => req[w].op # "add"
          PROVE  AInv'
      <3>1. /\ req'[w].pc = pc /\ req'[w].op = req[w].op /\ req'[w].match = req[w].match
            /\ req'[w].ip = req[w].ip /\ \A v \in Workers \ {w} : req'[v] = req[v]
        BY <1>0, <2>3, GotoEffect
      <3>2. req[w].pc # "idle"
        BY <1>2 DEF Authorize
      <3>3. QED
        BY <1>c, <2>1, <2>3, <3>1, <3>2, ApiKeeps
    <2>4. QED
      BY <1>2, <2>2, <2>3 DEF Authorize
  <1>3. CASE Pick(w)
    <2>0. \A s \in Runs : script[s] \in Scripts
      BY <1>0 DEF TypeOK
    <2> DEFINE ips == IF req[w].ip # NoAddress THEN {req[w].ip}
                      ELSE {script[s].ip : s \in {t \in Runs : script[t].pc = "register"}}
                             \cap {req'[w].ip}
    <2>1. Forget({}, ips) /\ script' = Beside(req'[w]) /\ UNCHANGED <<wg, store>>
      BY <1>3 DEF Pick
    <2>2. \A k \in Keys : given'[k] = IF given[k] \in ips THEN NoAddress ELSE given[k]
      BY <1>0, <2>1, ForgetEffect
    <2>3. Fewer /\ ScriptPeersKeepAddress'
      BY <2>1, <2>2 DEF Fewer, AInv, ScriptPeersKeepAddress, wg
    <2>4. /\ \A v \in Workers \ {w} : req'[v] = req[v]
          /\ req'[w].pc \in {"idle", "list"}
          /\ req'[w].pc = "list" =>
               /\ req'[w].op = req[w].op
               /\ req'[w].ip \in Addresses
               /\ req[w].ip = NoAddress => req'[w].ip \notin store
               /\ req[w].ip # NoAddress => req'[w].ip = req[w].ip
      BY <1>3, PickEffect
    <2>5. /\ SameRuns
          /\ \A s \in Runs : script'[s].alone => ~Collide(req'[w], script[s])
      BY <1>0, <2>1, BesideEffect DEF SameRuns
    <2>6. ASSUME req'[w].pc = "list", NEW k \in Keys
          PROVE  given'[k] # req'[w].ip
      <3>1. CASE given[k] \in ips
        BY <1>0, <2>2, <2>4, <2>6, <3>1
      <3>2. CASE given[k] \notin ips
        <4>1. given'[k] = given[k]
          BY <2>2, <3>2
        <4>2. CASE req[w].ip # NoAddress
          BY <2>4, <2>6, <3>2, <4>1, <4>2
        <4>3. CASE req[w].ip = NoAddress
          <5> SUFFICES ASSUME given[k] = req'[w].ip PROVE FALSE
            BY <4>1
          <5>1. given[k] # NoAddress /\ given[k] \notin store
            BY <1>0, <2>4, <2>6, <4>3
          <5>2. PICK s \in Runs : script[s].pc = "register" /\ script[s].ip = given[k]
            BY <5>1 DEF AInv, GivenIsListed
          <5>3. given[k] \in ips
            BY <4>3, <5>2
          <5>4. QED
            BY <3>2, <5>3
        <4>4. QED
          BY <4>2, <4>3
      <3>3. QED
        BY <3>1, <3>2
    <2>7. QED
      BY <2>1, <2>3, <2>4, <2>5, <2>6, ApiKeeps
  <1>4. ASSUME NEW listed \in Listings, List(w, listed)
        PROVE  AInv'
    <2> DEFINE keys == IF req[w].op = "add" THEN req[w].match \ listed ELSE {}
    <2>1. /\ UNCHANGED <<script, store, present, allowed>>
          /\ Forget(keys, {})
          /\ req[w].pc = "list"
      BY <1>4 DEF List, wg
    <2>2. \A k \in Keys : given'[k] = IF k \in keys THEN NoAddress ELSE given[k]
      BY <1>0, <2>1, ForgetEffect
    <2>3. Fewer /\ ScriptPeersKeepAddress' /\ SameRuns
      BY <2>1, <2>2, RunsUntouched DEF Fewer, AInv, ScriptPeersKeepAddress
    <2>4. listed \in SUBSET Keys
      BY <1>0 DEF TypeOK, Listings
    <2>5. /\ \A v \in Workers \ {w} : req'[v] = req[v]
          /\ req'[w].pc \in {"idle", "set"}
          /\ req'[w].pc = "set" =>
               /\ req'[w].op = req[w].op
               /\ req'[w].ip = req[w].ip
               /\ OneKey(req'[w].match)
               /\ req[w].op = "add" => /\ req'[w].match = req[w].match
                                       /\ req'[w].match \cap listed = {}
      BY <1>4, <2>4, ListEffect
    <2>6. req'[w].op = "add" /\ req'[w].pc = "set" => \A k \in Keys : given'[k] # req'[w].ip
      BY <1>0, <2>1, <2>3, <2>5 DEF AInv, PickedFree, Fewer, RequestShape
    <2>7. req'[w].op = "add" /\ req'[w].pc = "set" =>
              \A k \in req'[w].match : given'[k] = NoAddress
      BY <2>2, <2>5 DEF OneKey
    <2>8. req'[w].pc # "idle" /\ req'[w].op = "add" =>
              \A s \in Runs : script[s].pc # "idle" /\ script'[s].alone =>
                  ~Collide(req'[w], script[s])
      BY <1>c, <2>1, <2>3, <2>5
    <2>9. QED
      BY <2>1, <2>3, <2>5, <2>6, <2>7, <2>8, ApiKeeps
  <1>5. CASE Set(w)
    <2>1. Key(req[w]) \in Keys /\ req[w].match = {Key(req[w])}
      BY <1>0, <1>5, KeyOfOne DEF Set, RequestShape
    <2>2. /\ req'[w].pc = "audit" /\ req'[w].op = req[w].op
          /\ req'[w].match = req[w].match /\ req'[w].ip = req[w].ip
          /\ \A v \in Workers \ {w} : req'[v] = req[v]
      BY <1>0, <1>5, GotoEffect DEF Set
    <2>3. Fewer /\ ScriptPeersKeepAddress'
      <3>1. CASE req[w].op = "add"
        <4>1. UNCHANGED given /\ WgSet(Key(req[w]), req[w].ip)
          BY <1>5, <3>1 DEF Set
        <4>2. given[Key(req[w])] = NoAddress /\ \A k \in Keys : given[k] # req[w].ip
          BY <1>5, <2>1, <3>1 DEF Set, AInv, AddedNew, PickedFree
        <4>3. QED
          BY <2>1, <4>1, <4>2 DEF Fewer, AInv, ScriptPeersKeepAddress, WgSet
      <3>2. CASE req[w].op # "add"
        <4>1. Forget(req[w].match, {}) /\ WgRemove(Key(req[w]))
          BY <1>5, <3>2 DEF Set
        <4>2. \A k \in Keys : given'[k] = IF k = Key(req[w]) THEN NoAddress ELSE given[k]
          BY <1>0, <2>1, <4>1, ForgetEffect
        <4>3. QED
          BY <1>0, <2>1, <4>1, <4>2 DEF Fewer, AInv, ScriptPeersKeepAddress, WgRemove, TypeOK
      <3>3. QED
        BY <3>1, <3>2
    <2>4. SameRuns /\ UNCHANGED store /\ req[w].pc # "idle"
      BY <1>5, RunsUntouched DEF Set
    <2>5. QED
      BY <1>c, <2>2, <2>3, <2>4, ApiKeeps
  <1>6. CASE Fails(w) \/ Audit(w)
    <2>1. Fewer /\ ScriptPeersKeepAddress' /\ SameRuns /\ UNCHANGED store
      BY <1>6, RunsUntouched DEF Fails, Audit, wg, Fewer, AInv, ScriptPeersKeepAddress
    <2>2. req'[w].pc = "idle" /\ \A v \in Workers \ {w} : req'[v] = req[v]
      BY <1>0, <1>6, EndEffect DEF Fails, Audit
    <2>3. QED
      BY <2>1, <2>2, ApiKeeps
  <1>7. QED
    BY <1>1, <1>2, <1>3, <1>4, <1>5, <1>6 DEF Api

\* A run gives an address it found with no peer, and lists it at the end.
LEMMA ScriptAInv ==
    ASSUME TInv, TInv', AInv, NEW s \in Runs, Script(s)
    PROVE  AInv'
  <1>0. TypeOK /\ Shape /\ RunShape(script[s]) /\ script[s] \in Scripts
    BY DEF TInv, Shape, TypeOK
  \* Listed addresses when run s moves on and only forgets.
  <1>l. ASSUME Fewer, store \subseteq store', \A t \in Runs \ {s} : script'[t] = script[t],
               \A k \in Keys : given'[k] # NoAddress =>
                   \/ script[s].pc # "register" \/ script[s].ip # given'[k]
                   \/ given'[k] \in store'
        PROVE  GivenIsListed'
    <2> SUFFICES ASSUME NEW k \in Keys, given'[k] # NoAddress
                 PROVE  \/ given'[k] \in store'
                        \/ \E t \in Runs : script'[t].pc = "register" /\ script'[t].ip = given'[k]
      BY DEF GivenIsListed
    <2>1. given'[k] = given[k]
      BY <1>l DEF Fewer
    <2>2. CASE given[k] \in store
      BY <1>l, <2>1, <2>2
    <2>3. ASSUME NEW t \in Runs, script[t].pc = "register", script[t].ip = given[k]
          PROVE  \/ given'[k] \in store'
                 \/ \E u \in Runs : script'[u].pc = "register" /\ script'[u].ip = given'[k]
      <3>1. CASE t = s
        BY <1>l, <2>1, <2>3, <3>1
      <3>2. CASE t # s
        BY <1>l, <2>1, <2>3, <3>2
      <3>3. QED
        BY <3>1, <3>2
    <2>4. QED
      BY <2>1, <2>2, <2>3 DEF AInv, GivenIsListed
  <1>1. ASSUME NEW k \in Keys, NEW ip \in Asked, ScriptStart(s, k, ip)
        PROVE  AInv'
    <2>1. /\ UNCHANGED <<wg, req, given, store>>
          /\ script[s].pc = "idle"
      BY <1>1 DEF ScriptStart, history
    <2>2. /\ script'[s].pc = "ip"
          /\ script'[s].alone =>
                /\ \A t \in Runs : ~Collide(script[t], script'[s])
                /\ \A w \in Workers : Adding(w) => ~Collide(req[w], script'[s])
          /\ \A t \in Runs \ {s} : /\ script'[t].pc = script[t].pc
                                   /\ script'[t].match = script[t].match
                                   /\ script'[t].ip = script[t].ip
                                   /\ script'[t].alone =>
                                        script[t].alone /\ ~Collide(script'[s], script[t])
      BY <1>1, StartEffect
    <2>3. GivenIsListed'
      <3>1. \A t \in Runs : script[t].pc = "register" =>
                script'[t].pc = "register" /\ script'[t].ip = script[t].ip
        BY <2>1, <2>2
      <3>2. QED
        BY <2>1, <3>1 DEF AInv, GivenIsListed
    <2>4. ScriptPeersKeepAddress' /\ PickedFree' /\ AddedNew'
      BY <2>1 DEF AInv, ScriptPeersKeepAddress, PickedFree, AddedNew, wg
    <2>5. Checked'
      BY <2>1, <2>2 DEF AInv, Checked
    <2>6. Apart'
      <3> SUFFICES ASSUME NEW t \in Runs, script'[t].pc # "idle", script'[t].alone
                   PROVE  /\ \A v \in Workers : Adding(v) => ~Collide(req[v], script'[t])
                          /\ \A u \in Runs \ {t} :
                                script'[u].pc # "idle" => ~Collide(script'[u], script'[t])
        BY <2>1 DEF Apart, Adding
      <3>1. CASE t = s
        <4>1. \A u \in Runs \ {s} : Collide(script'[u], script'[s]) <=>
                                    Collide(script[u], script'[s])
          BY <2>2 DEF Collide
        <4>2. QED
          BY <2>2, <3>1, <4>1
      <3>2. CASE t # s
        <4>1. script[t].pc # "idle" /\ script[t].alone /\ ~Collide(script'[s], script[t])
          BY <2>2, <3>2
        <4>2. \A x : Collide(x, script'[t]) <=> Collide(x, script[t])
          BY <2>2, <3>2 DEF Collide
        <4>3. \A u \in Runs \ {s} : Collide(script'[u], script[t]) <=>
                                    Collide(script[u], script[t])
          BY <2>2 DEF Collide
        <4>4. ASSUME NEW u \in Runs \ {t}, script'[u].pc # "idle"
              PROVE  ~Collide(script'[u], script'[t])
          <5>1. CASE u = s
            BY <4>1, <4>2, <5>1
          <5>2. CASE u # s
            BY <2>2, <4>1, <4>2, <4>3, <4>4, <5>2 DEF AInv, Apart
          <5>3. QED
            BY <5>1, <5>2
        <4>5. \A v \in Workers : Adding(v) => ~Collide(req[v], script'[t])
          BY <4>1, <4>2 DEF AInv, Apart
        <4>6. QED
          BY <4>4, <4>5
      <3>3. QED
        BY <3>1, <3>2
    <2>7. QED
      BY <2>3, <2>4, <2>5, <2>6 DEF AInv
  <1>2. ASSUME NEW pc \in {"ip", "key"}, NEW next \in {"key", "confirm"},
               NEW duplicate \in BOOLEAN, ScriptCheck(s, pc, duplicate, next),
               ~duplicate => \A k \in Keys : given[k] # script[s].ip
        PROVE  AInv'
    <2>1. UNCHANGED <<wg, req, store>> /\ script[s].pc = pc
      BY <1>2 DEF ScriptCheck
    <2>2. PICK x \in {[script[s] EXCEPT !.pc = next], NoScript} :
              /\ script' = [script EXCEPT ![s] = x]
              /\ \/ UNCHANGED given /\ (x = NoScript \/ ~duplicate)
                 \/ Forget({}, {script[s].ip})
      BY <1>2 DEF ScriptCheck
    <2>3. /\ \A t \in Runs \ {s} : script'[t] = script[t]
          /\ x = NoScript => script'[s].pc = "idle"
          /\ script'[s].pc # "idle" => /\ script'[s].match = script[s].match
                                       /\ script'[s].ip = script[s].ip
                                       /\ script'[s].alone = script[s].alone
      BY <1>2, <2>1, <2>2, ScriptMoves
    <2>4. Fewer /\ (script'[s].pc # "idle" => \A k \in Keys : given'[k] # script[s].ip)
      <3>1. CASE UNCHANGED given /\ (x = NoScript \/ ~duplicate)
        BY <1>2, <2>3, <3>1 DEF Fewer
      <3>2. CASE Forget({}, {script[s].ip})
        <4>1. \A k \in Keys : given'[k] = IF given[k] = script[s].ip THEN NoAddress
                                          ELSE given[k]
          BY <1>0, <3>2, ForgetEffect
        <4>2. script[s].ip # NoAddress
          BY <1>0, <1>2, <2>1 DEF RunShape
        <4>3. QED
          BY <4>1, <4>2 DEF Fewer
      <3>3. QED
        BY <2>2, <3>1, <3>2
    <2>5. script[s].pc # "register" /\ script[s].pc # "idle"
      BY <1>2, <2>1
    <2>6. GivenIsListed'
      BY <1>l, <2>1, <2>3, <2>4, <2>5
    <2>7. QED
      BY <2>1, <2>3, <2>4, <2>5, <2>6, ScriptKeeps
  <1>3. CASE CheckIp(s)
    <2>1. ~check_duplicate_ip(script[s].ip) => \A k \in Keys : given[k] # script[s].ip
      <3> SUFFICES ASSUME NEW k \in Keys, given[k] = script[s].ip
                   PROVE  check_duplicate_ip(script[s].ip)
        OBVIOUS
      <3>1. given[k] # NoAddress
        BY <1>0, <1>3 DEF RunShape, CheckIp, ScriptCheck
      <3>2. k \in present /\ allowed[k] = {script[s].ip}
        BY <3>1 DEF AInv, ScriptPeersKeepAddress
      <3>3. grep(script[s].ip, script[s].ip)
        BY DEF grep
      <3>4. QED
        BY <3>2, <3>3 DEF check_duplicate_ip
    <2>2. check_duplicate_ip(script[s].ip) \in BOOLEAN
      BY DEF check_duplicate_ip
    <2>3. QED
      BY <1>2, <1>3, <2>1, <2>2 DEF CheckIp
  <1>4. CASE CheckKey(s)
    <2>1. \A k \in Keys : given[k] # script[s].ip
      BY <1>4 DEF CheckKey, ScriptCheck, AInv, Checked
    <2>2. QED
      BY <1>2, <1>4, <2>1 DEF CheckKey
  <1>5. CASE Confirm(s)
    <2>1. /\ UNCHANGED <<wg, req, given, store>>
          /\ script[s].pc = "confirm"
          /\ \A k \in Keys : given[k] # script[s].ip
      BY <1>5 DEF Confirm, history, AInv, Checked
    <2>2. PICK x \in {[script[s] EXCEPT !.pc = "set"], NoScript} :
              script' = [script EXCEPT ![s] = x]
      BY <1>5 DEF Confirm
    <2>3. /\ \A t \in Runs \ {s} : script'[t] = script[t]
          /\ script'[s].pc # "idle" => /\ script'[s].match = script[s].match
                                       /\ script'[s].ip = script[s].ip
                                       /\ script'[s].alone = script[s].alone
      BY <2>1, <2>2, ScriptMoves
    <2>4. Fewer
      BY <2>1 DEF Fewer
    <2>5. GivenIsListed'
      BY <1>l, <2>1, <2>3, <2>4
    <2>6. QED
      BY <2>1, <2>3, <2>4, <2>5, ScriptKeeps
  <1>6. CASE assign_peer(s)
    <2>0. PICK j \in Keys : j = Key(script[s]) /\ script[s].match = {j}
      BY <1>0, <1>6, KeyOfOne DEF assign_peer, RunShape
    <2> DEFINE ip == script[s].ip
    <2>1. /\ \A k \in Keys : given'[k] = IF k # j THEN given[k]
                                         ELSE IF script[s].alone THEN ip ELSE NoAddress
          /\ WgSet(j, ip)
          /\ UNCHANGED <<store, req>>
          /\ script[s].pc = "set"
      BY <1>0, <1>6, <2>0 DEF assign_peer, TypeOK
    <2>2. /\ script'[s].pc = "register" /\ script'[s].ip = ip
          /\ script'[s].match = script[s].match /\ script'[s].alone = script[s].alone
          /\ \A t \in Runs \ {s} : script'[t] = script[t]
      BY <1>6, ScriptMoves DEF assign_peer
    <2>3. \A k \in Keys : given[k] # ip
      BY <2>1 DEF AInv, Checked
    <2>4. ScriptPeersKeepAddress'
      BY <2>1, <2>3 DEF AInv, ScriptPeersKeepAddress, WgSet
    <2>5. GivenIsListed'
      <3> SUFFICES ASSUME NEW k \in Keys, given'[k] # NoAddress
                   PROVE  \/ given'[k] \in store
                          \/ \E t \in Runs : script'[t].pc = "register" /\ script'[t].ip = given'[k]
        BY <2>1 DEF GivenIsListed
      <3>1. CASE k = j
        BY <2>1, <2>2, <3>1
      <3>2. CASE k # j
        <4>1. given'[k] = given[k]
          BY <2>1, <3>2
        <4>2. \A t \in Runs : script[t].pc = "register" => script'[t] = script[t]
          BY <2>1, <2>2
        <4>3. QED
          BY <4>1, <4>2 DEF AInv, GivenIsListed
      <3>3. QED
        BY <3>1, <3>2
    <2>6. script[s].alone =>
              /\ \A w \in Workers : Adding(w) => req[w].ip # ip /\ j \notin req[w].match
              /\ \A t \in Runs \ {s} : script[t].pc # "idle" => script[t].ip # ip
      <3>1. ip # NoAddress
        BY <1>0, <2>1 DEF RunShape
      <3>2. QED
        BY <2>0, <2>1, <3>1 DEF AInv, Apart, Collide
    <2>7. PickedFree'
      <3> SUFFICES ASSUME NEW w \in Workers, req[w].op = "add", req[w].pc \in {"list", "set"},
                          NEW k \in Keys
                   PROVE  given'[k] # req[w].ip
        BY <2>1 DEF PickedFree
      <3>1. req[w].ip # NoAddress /\ given[k] # req[w].ip
        BY <1>0 DEF AInv, PickedFree, Shape, RequestShape
      <3>2. QED
        BY <2>1, <2>6, <3>1 DEF Adding
    <2>8. AddedNew'
      <3> SUFFICES ASSUME NEW w \in Workers, req[w].op = "add", req[w].pc = "set",
                          NEW k \in req[w].match
                   PROVE  given'[k] = NoAddress
        BY <2>1 DEF AddedNew
      <3>1. given[k] = NoAddress /\ k \in Keys
        BY <1>0 DEF AInv, AddedNew, TypeOK, Requests
      <3>2. QED
        BY <2>1, <2>6, <3>1 DEF Adding
    <2>9. Checked'
      <3> SUFFICES ASSUME NEW t \in Runs, script'[t].pc \in {"key", "confirm", "set"},
                          NEW k \in Keys
                   PROVE  given'[k] # script'[t].ip
        BY DEF Checked
      <3>1. t # s /\ script'[t] = script[t] /\ script[t].ip # NoAddress
        BY <1>0, <2>2 DEF Shape, RunShape
      <3>2. given[k] # script[t].ip
        BY <3>1 DEF AInv, Checked
      <3>3. QED
        BY <2>1, <2>6, <3>1, <3>2
    <2>10. Apart'
      <3> SUFFICES ASSUME NEW t \in Runs, script'[t].pc # "idle", script'[t].alone
                   PROVE  /\ \A v \in Workers : Adding(v) => ~Collide(req[v], script'[t])
                          /\ \A u \in Runs \ {t} :
                                script'[u].pc # "idle" => ~Collide(script'[u], script'[t])
        BY <2>1 DEF Apart, Adding
      <3>1. \A u \in Runs : /\ script'[u].match = script[u].match
                            /\ script'[u].ip = script[u].ip
                            /\ script'[u].alone = script[u].alone
                            /\ script'[u].pc # "idle" => script[u].pc # "idle"
        BY <2>1, <2>2
      <3>2. /\ \A v \in Workers : Adding(v) => ~Collide(req[v], script[t])
            /\ \A u \in Runs \ {t} : script[u].pc # "idle" => ~Collide(script[u], script[t])
        BY <3>1 DEF AInv, Apart
      <3>3. QED
        BY <3>1, <3>2 DEF Collide
    <2>11. QED
      BY <2>4, <2>5, <2>7, <2>8, <2>9, <2>10 DEF AInv
  <1>7. CASE register_posture(s)
    <2>1. /\ UNCHANGED <<wg, req, given>>
          /\ store' = store \cup {script[s].ip}
          /\ script[s].pc = "register"
      BY <1>7 DEF register_posture, history
    <2>2. script'[s].pc = "idle" /\ \A t \in Runs \ {s} : script'[t] = script[t]
      BY <1>7, <2>1, ScriptMoves DEF register_posture
    <2>3. Fewer
      BY <2>1 DEF Fewer
    <2>4. GivenIsListed'
      BY <1>l, <2>1, <2>2, <2>3
    <2>5. QED
      BY <2>1, <2>2, <2>3, <2>4, ScriptKeeps
  <1>8. CASE ScriptDies(s)
    <2>1. /\ UNCHANGED <<wg, req, store>>
          /\ script[s].pc \in {"set", "register"}
          /\ Forget({}, IF script[s].pc = "register" THEN {script[s].ip} ELSE {})
      BY <1>8 DEF ScriptDies
    <2>2. script'[s].pc = "idle" /\ \A t \in Runs \ {s} : script'[t] = script[t]
      BY <1>8, <2>1, ScriptMoves DEF ScriptDies
    <2>3. \A k \in Keys : given'[k] = IF script[s].pc = "register" /\ given[k] = script[s].ip
                                      THEN NoAddress ELSE given[k]
      BY <1>0, <2>1, ForgetEffect
    <2>4. Fewer
      BY <2>3 DEF Fewer
    <2>5. \A k \in Keys : given'[k] # NoAddress =>
              script[s].pc # "register" \/ script[s].ip # given'[k]
      BY <2>3
    <2>6. GivenIsListed'
      BY <1>l, <2>1, <2>2, <2>4, <2>5
    <2>7. QED
      BY <2>1, <2>2, <2>4, <2>6, ScriptKeeps
  <1>9. QED
    BY <1>1, <1>3, <1>4, <1>5, <1>6, <1>7, <1>8 DEF Script

\* Nothing is given at first.
LEMMA InitAInv == Init => AInv /\ EveryPeerReported
  <1> SUFFICES ASSUME Init PROVE AInv /\ EveryPeerReported
    OBVIOUS
  <1>1. \A k \in Keys : given[k] = NoAddress
    BY DEF Init, NothingGiven
  <1>2. \A w \in Workers : req[w].pc = "idle"
    BY DEF Init, NoRequest
  <1>3. (\A s \in Runs : script[s].pc = "idle") /\ present = {}
    BY DEF Init, NoScript
  <1>4. QED
    BY <1>1, <1>2, <1>3 DEF AInv, ScriptPeersKeepAddress, Apart, Adding,
        GivenIsListed, PickedFree, AddedNew, Checked, EveryPeerReported

\* Every step keeps it.
LEMMA NextAInv ==
    ASSUME TInv, TInv', AInv, [Next]_vars
    PROVE  AInv'
  <1>1. CASE UNCHANGED vars
    <2>1. Fewer /\ GivenIsListed' /\ ScriptPeersKeepAddress'
      BY <1>1 DEF vars, Fewer, AInv, GivenIsListed, ScriptPeersKeepAddress
    <2>2. QED
      BY <1>1, <2>1, EnvKeeps DEF vars
  <1>2. QED
    BY <1>1, EnvAInv, ApiAInv, ScriptAInv DEF Next

-----------------------------------------------------------------------------

\* The inductive invariant of peer provisioning.
IInv == TInv /\ EveryPeerReported /\ AInv

\* It holds of every behaviour.
THEOREM Inductive == Spec => []IInv
  <1>1. Init => IInv
    BY InitTInv, InitAInv DEF IInv
  <1>2. IInv /\ [Next]_vars => IInv'
    BY NextTInv, NextReported, NextAInv DEF IInv
  <1>3. QED
    BY <1>1, <1>2, PTL DEF Spec

\* The interface, the requests, the script and the store keep their types.
THEOREM TypeCorrect == Spec => []TypeOK
  <1>1. IInv => TypeOK
    BY DEF IInv, TInv
  <1>2. QED
    BY <1>1, Inductive, PTL

\* No peer of the interface goes unreported, whatever dies on the way.
THEOREM PeersAreReported == Spec => []EveryPeerReported
  <1>1. IInv => EveryPeerReported
    BY DEF IInv
  <1>2. QED
    BY <1>1, Inductive, PTL

\* A peer that a run of the script added, alone on its key and address, keeps
\* its address, for any number of overlapping runs and API requests.
THEOREM ScriptPeersKeepTheirs == Spec => []ScriptPeersKeepAddress
  <1>1. IInv => ScriptPeersKeepAddress
    BY DEF IInv, AInv
  <1>2. QED
    BY <1>1, Inductive, PTL

=============================================================================
