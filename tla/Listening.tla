------------------------------ MODULE Listening ------------------------------
(***************************************************************************)
(* What a node listens on, as `xmip-service --listening` says it and as a  *)
(* start binds it (.src/service/listening.rs, authority.rs; run.rs         *)
(* operated, authorized), and the gates an arrival meets there with the    *)
(* technologies the build linked (built.rs).  The environment opens its    *)
(* firewall for what --listening says and for nothing else, so the two     *)
(* must agree though each reads the configuration for itself - a start     *)
(* reads it twice - and another slice may be placed in between.            *)
(*                                                                         *)
(* The node's own binding (Running::start, Running::operate, the cluster's *)
(* authority) and its gates are the runtime's and external.                *)
(***************************************************************************)
EXTENDS Built, FiniteSets

CONSTANTS
    Documents,  \* the configurations an operator may write
    Builds,     \* the builds: each its features and its platform
    This,       \* the node's own name
    None,       \* not said
    Presented,  \* what an arrival may present to the first gate
    MaxEdits    \* edits of the configuration

(* An address: a path, or a socket's, its port 0 where the system is to    *)
(* pick one.  A Location's `waits` is what its transport answers of it:    *)
(* it waits for what is sent, or goes to look.                             *)
Port == 0..65535
Address == [host : STRING, port : Port, socket : BOOLEAN]
Location == [name : STRING, technology : STRING, start : BOOLEAN,
             address : Address, accept : STRING, waits : BOOLEAN]
Document == [operate : Address \cup {None}, storage : Address \cup {None},
             stores : BOOLEAN, key_store : STRING, source : STRING,
             serve : Address \cup {None}, publish : Address \cup {None},
             own : Seq(Location),
             placed : Seq([node : STRING, location : Location])]

ASSUME ListeningAssumption ==
    Documents \subseteq Document /\ None \notin Documents

VARIABLES
    build,
    document,   \* the node's configuration, as start::read finds it now
    edits,
    pc,         \* "down", "operate", "authorize", "publish" or "up"
    first,      \* the document Running::start read
    second,     \* the document `authorized` read
    bound,      \* the sockets the node holds: [protocol, address]
    taken,      \* the sockets another process holds
    said,       \* what --listening said last: [port, protocol, listener]
    saidOf,     \* of which document
    arrival     \* the last arrival: what it presented and what became of it

nodeVars == <<pc, first, second, bound>>
vars == <<build, document, edits, nodeVars, taken, said, saidOf, arrival>>

(* port_of: the port an address names; none, 0, for a path and for port 0. *)
port_of(address) == IF address.socket THEN address.port ELSE 0

(* What a transport listens over.                                          *)
Protocol(technology) == IF technology = "transport-udp" THEN "udp" ELSE "tcp"

(* Two sockets cannot be held at once: "any" is every host's.  A port the  *)
(* system picks is nobody's.                                               *)
Clash(a, b) ==
    /\ a.protocol = b.protocol
    /\ port_of(a.address) = port_of(b.address) /\ port_of(a.address) > 0
    /\ \/ a.address.host = b.address.host
       \/ "any" \in {a.address.host, b.address.host}

(* What may be named in the configuration, where it is.                    *)
Part(there, p) == IF there THEN <<p>> ELSE <<>>

(* authority::listens: what [provision.node] names for the authority.      *)
listens(d) ==
    IF d.source # "internal-ca" THEN <<>>
    ELSE Part(d.serve # None, [at |-> d.serve, what |-> "ACME"])
         \o Part(d.publish # None, [at |-> d.publish, what |-> "list"])

(* The Locations of s that are to start.                                   *)
ToStart(s) == Those(s, {i \in DOMAIN s : s[i].start})

(* Mutant of Receives: a Location is listed whoever it is bound to.        *)
Receives_Everyones(d) ==
    ToStart(d.own \o [i \in DOMAIN d.placed |-> d.placed[i].location])

(* The Receive Locations a node starts: its own, and of the applications'  *)
(* the ones bound to it.                                                   *)
Receives(d) ==
    LET here == Those(d.placed,
                      {i \in DOMAIN d.placed : d.placed[i].node = This})
    IN  ToStart(d.own \o [i \in DOMAIN here |-> here[i].location])

(* A Location that goes to look listens on nothing; one whose technology   *)
(* the build left out is said, and refused as the node starts.             *)
waits(l) == l.technology \in transports(build) => l.waits

(* The Locations that wait, as listeners.                                  *)
Locations(d) ==
    LET all == Receives(d)
        waiting == Those(all, {i \in DOMAIN all : waits(all[i])})
    IN  [i \in DOMAIN waiting |->
            [at |-> waiting[i].address, what |-> waiting[i].name]]

(* What listens, in the configuration's order: d's own listeners, and the  *)
(* authority's that e names.                                               *)
Listeners(d, e) ==
    Part(d.operate # None, [at |-> d.operate, what |-> "operate"])
        \o Part(d.stores /\ d.storage # None,
                [at |-> d.storage, what |-> "storage"])
        \o listens(e) \o Locations(d)

(* What --listening says of the listeners s: each port that is named,      *)
(* where it is named first, and every one over TCP.                        *)
Lines(s) ==
    LET line == [i \in DOMAIN s |-> [port |-> port_of(s[i].at), protocol |-> "tcp",
                                     listener |-> s[i].what]]
    IN  Those(line, {i \in DOMAIN s :
                        /\ line[i].port > 0
                        /\ \A j \in 1..(i - 1) : line[j].port # line[i].port})

listening(d) == Lines(Listeners(d, d))

Ports(s) == {l.port : l \in Elements(s)}

------------------------------------------------------------------------------
(* Nothing has arrived yet.                                                *)
NoArrival == [presented |-> {}, claim |-> None, admitted |-> FALSE]

Init ==
    /\ build \in Builds /\ document \in Documents /\ edits = 0
    /\ pc = "down" /\ first = None /\ second = None /\ bound = {}
    /\ taken = {} /\ said = <<>> /\ saidOf = None /\ arrival = NoArrival

(* The Locations the runtime starts, by its own reading of the document.   *)
Started(d) ==
    {l \in Elements(d.own) \cup {p.location : p \in {q \in Elements(d.placed) :
                                                   q.node = This}} : l.start}

(* What Running::start refuses: a Location whose technology the build left *)
(* out, a Storage node without its engines or the key store it names.      *)
Linked(d) == linked(build, {l.name : l \in Started(d)})

Startable(d) ==
    /\ \A l \in Started(d) : l.technology \in Linked(d).transports
    /\ d.stores => /\ Linked(d).engine /\ Linked(d).administration
                   /\ d.key_store \in Linked(d).key_stores

(* Listeners can be held if nobody holds a socket that clashes with one of *)
(* theirs, nor they each other's.                                          *)
Free(s) ==
    /\ \A l \in s, x \in bound \cup taken : ~Clash(l, x)
    /\ \A l, k \in s : l # k => ~Clash(l, k)

(* The sockets they hold: one at port 0 too, at a port the system picks.   *)
Held(s) ==
    {[protocol |-> l.protocol, address |-> l.address] :
        l \in {k \in s : k.address.socket}}

(* The node's own listeners are TCP's.                                     *)
Listener(what, where) ==
    IF where = None THEN {}
    ELSE {[name |-> what, protocol |-> "tcp", address |-> where]}

(* The Locations d starts that wait, each over its transport's protocol.   *)
Waiting(d) ==
    {[name |-> l.name, protocol |-> Protocol(l.technology), address |-> l.address] :
        l \in {k \in Started(d) : k.waits}}

(* A refusal, for one of these causes or another: the node is stopped and  *)
(* whatever it holds is dropped.                                           *)
Refuse ==
    /\ pc' = "down" /\ bound' = {} /\ first' = None /\ second' = None
    /\ UNCHANGED <<build, document, edits, taken, said, saidOf, arrival>>

(* Running::start reads the configuration and binds the node's Storage     *)
(* listener and the Receive Locations that wait.                           *)
Start ==
    /\ pc = "down"
    /\ LET held == Listener("storage", IF document.stores
                                       THEN document.storage ELSE None)
                       \cup Waiting(document)
       IN  /\ Startable(document) /\ Free(held)
           /\ bound' = Held(held)
    /\ pc' = "operate" /\ first' = document /\ second' = None
    /\ UNCHANGED <<build, document, edits, taken, said, saidOf, arrival>>

(* operated: the operate listener, where the configuration names one.      *)
Operate ==
    /\ pc = "operate"
    /\ LET held == Listener("operate", first.operate)
       IN  Free(held) /\ bound' = bound \cup Held(held)
    /\ pc' = "authorize"
    /\ UNCHANGED <<build, document, edits, first, second, taken, said, saidOf,
                   arrival>>

(* served: the authority d names, with a build that links it; one that     *)
(* publishes without serving is refused.                                   *)
served(d) ==
    LET held == Listener("ACME", d.serve)
    IN  /\ "provision-internal-ca" \in build /\ held # {}
        /\ Free(held) /\ bound' = bound \cup Held(held)
        /\ pc' = "publish"

serve(d) ==
    IF listens(d) = <<>> THEN pc' = "up" /\ bound' = bound ELSE served(d)

(* authorized reads the configuration again and serves the authority it    *)
(* names, if any.                                                          *)
Authorize ==
    /\ pc = "authorize" /\ serve(document) /\ second' = document
    /\ UNCHANGED <<build, document, edits, first, taken, said, saidOf, arrival>>

(* ... and publishes its list, from the same reading; one that cannot be   *)
(* published is not served either.                                         *)
Publish ==
    /\ pc = "publish"
    /\ LET held == Listener("list", second.publish)
       IN  Free(held) /\ bound' = bound \cup Held(held)
    /\ pc' = "up"
    /\ UNCHANGED <<build, document, edits, first, second, taken, said, saidOf,
                   arrival>>

Refused == pc \in {"operate", "authorize", "publish"} /\ Refuse

(* The drain: what the node held until now is dropped.                     *)
Drain == pc = "up" /\ Refuse

------------------------------------------------------------------------------
(* xmip-service --listening: another process, at any time.                 *)
Ask ==
    /\ said' = listening(document) /\ saidOf' = document
    /\ UNCHANGED <<build, document, edits, nodeVars, taken, arrival>>

(* Another slice is placed.  One edited by hand, which does not verify,    *)
(* changes nothing a reading finds: every reading is start::read's, which  *)
(* keeps to the slice accepted last.                                       *)
Edit ==
    /\ edits < MaxEdits /\ edits' = edits + 1
    /\ document' \in Documents \ {document}
    /\ UNCHANGED <<build, nodeVars, taken, said, saidOf, arrival>>

(* Another process takes a socket the node does not hold, or leaves it.    *)
Others(a) ==
    /\ \A h \in bound : ~Clash(a, h)
    /\ taken' = IF a \in taken THEN taken \ {a} ELSE taken \cup {a}
    /\ UNCHANGED <<build, document, edits, nodeVars, said, saidOf, arrival>>

(* The claim an arrival is known by: the first the gate's technologies     *)
(* read of what it presented, a circumstance where they read nothing.      *)
Claim(presented) ==
    LET asked == Linked(first).transport_identifiers
        read == Those(asked, {i \in DOMAIN asked : asked[i] \in presented})
    IN  IF read = <<>> THEN "circumstance" ELSE read[1]

(* The mechanism that answers for a claim.                                 *)
Proof(claim) == IF claim = "identify-certificate" THEN "mutual-tls" ELSE claim

(* A Stream arrives at a Location the node started and meets its gates: it *)
(* is authenticated by a mechanism the build carries and the Location      *)
(* accepts, and admitted by the policy.                                    *)
Arrive(presented) ==
    /\ pc = "up"
    /\ \E l \in Started(first) :
         LET claim == Claim(presented)
         IN  arrival' = [presented |-> presented, claim |-> claim,
                         admitted |->
                            /\ Proof(claim) \in Linked(first).authenticators
                            /\ Proof(claim) = l.accept
                            /\ l.name \in Linked(first).admits]
    /\ UNCHANGED <<build, document, edits, nodeVars, taken, said, saidOf>>

Sockets == UNION {Held(Listener("operate", d.operate)) : d \in Documents}

Next ==
    \/ Start \/ Operate \/ Authorize \/ Publish \/ Refused \/ Drain \/ Ask \/ Edit
    \/ \E a \in Sockets : Others(a)
    \/ \E presented \in Presented : Arrive(presented)

Spec == Init /\ [][Next]_vars

------------------------------------------------------------------------------
(* The firewall fits: of what a node that serves holds, the lines of       *)
(* --listening open exactly the TCP sockets at a named port - not a        *)
(* Location's over UDP, whose port is said over TCP, nor one at a port the *)
(* system picked, which is not said - and they name no port that nobody    *)
(* holds.  They are those of the reading the node started from and, for    *)
(* the authority, of the second one; where both were the one --listening   *)
(* was asked of, what it said has each port once (listening.rs listening,  *)
(* authority.rs listens, run.rs authorized).                               *)
FirewallFits ==
    pc = "up" =>
        LET opened == Elements(Lines(Listeners(first, second)))
        IN  /\ \A h \in bound :
                  (\E o \in opened : /\ o.port = port_of(h.address)
                                     /\ o.protocol = h.protocol)
                      <=> h.protocol = "tcp" /\ port_of(h.address) > 0
            /\ \A o \in opened : \E h \in bound : port_of(h.address) = o.port
            /\ (saidOf = first /\ first = second) =>
                  Len(said) = Cardinality({port_of(h.address) : h \in bound} \ {0})

(* How much a claim is worth, as built.rs says it: the certificate a       *)
(* handshake verified, a credential sent inside the connection, the sender *)
(* a broker names, the peer's address.                                     *)
Worth(m) ==
    CASE m = "identify-certificate" -> 4
      [] m \in {"identify-jwt", "identify-api-key", "identify-username"} -> 3
      [] m = "identify-broker" -> 2
      [] m = "identify-ip" -> 1
      [] OTHER -> 0

(* What the build can read of an arrival.                                  *)
Readable ==
    IF "identify" \in build THEN build \cup {"identify-broker"} ELSE {}

(* A credential first: in every build an arrival is known by the most it   *)
(* presented that the build can read, so no peer address or circumstance   *)
(* stands in for a credential that was presented; and nobody is let in as  *)
(* the address they came from (built.rs transport_identifiers,             *)
(* authenticators).                                                        *)
CredentialFirst ==
    arrival.claim # None =>
        /\ \A m \in arrival.presented \cap Readable :
              Worth(arrival.claim) >= Worth(m)
        /\ arrival.admitted => arrival.claim # "identify-ip"
==============================================================================
