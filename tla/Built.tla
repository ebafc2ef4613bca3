-------------------------------- MODULE Built --------------------------------
(***************************************************************************)
(* What a build of xmip-service carries (.src/service/built.rs): b is the  *)
(* set of cargo features the site was built with and the platform it was   *)
(* built for.  Each list is the code's, in the code's order, with the      *)
(* parts left out that the build left out.                                 *)
(***************************************************************************)
EXTENDS Naturals, Sequences

Elements(s) == {s[i] : i \in DOMAIN s}

(* What s has at the positions I, in its order.                            *)
Those(s, I) ==
    LET those[n \in Nat] ==
            IF n = 0 THEN <<>>
            ELSE IF n \in I THEN Append(those[n - 1], s[n]) ELSE those[n - 1]
    IN  those[Len(s)]

Transport == {"transport-file", "transport-ftp", "transport-http",
              "transport-sftp", "transport-tcp", "transport-udp"}

transports(b) == Transport \cap b

(* Every build answers for a circumstance and for a broker's sender.       *)
authenticators(b) ==
    {"circumstance", "identify-broker"}
        \cup {a \in {"mutual-tls"} : "authenticate-mutual-tls" \in b}

(* The `location` policy admits each Location the node starts.             *)
location_policies(b, started) ==
    IF "authorize-location" \in b THEN started ELSE {}

(* RocksDB, and SQLite, which an embedded Storage node opens.              *)
engine(b) == "persist-rocksdb" \in b
administration(b) == "persist-sqlite" \in b

(* The platform's own key stores; macOS is a unix as well.                 *)
key_stores(b) ==
    {k \in {"dpapi", "file", "keychain"} :
        /\ "secret" \in b
        /\ \/ k = "dpapi" /\ "windows" \in b
           \/ k = "file" /\ b \cap {"linux", "macos"} # {}
           \/ k = "keychain" /\ "macos" \in b}

(* The technologies of the first gate, in the order the gate asks them.    *)
Identifiers == <<"identify-certificate", "identify-jwt", "identify-api-key",
                 "identify-username", "identify-broker", "identify-ip">>

(* Mutant of transport_identifiers: the peer is asked for before a broker's *)
(* sender.                                                                  *)
transport_identifiers_PeerEarly(b) ==
    LET early == [Identifiers EXCEPT ![5] = Identifiers[6], ![6] = Identifiers[5]]
    IN  IF "identify" \notin b THEN <<>>
        ELSE Those(early, {i \in DOMAIN early :
                              early[i] \in b \cup {"identify-broker"}})

(* Of the first gate's technologies the build's own; a broker's sender is  *)
(* read in every build that identifies.                                    *)
transport_identifiers(b) ==
    IF "identify" \notin b THEN <<>>
    ELSE Those(Identifiers, {i \in DOMAIN Identifiers :
                                Identifiers[i] \in b \cup {"identify-broker"}})

(* linked: what the node is handed.                                        *)
linked(b, started) ==
    [transports |-> transports(b), engine |-> engine(b),
     administration |-> administration(b), key_stores |-> key_stores(b),
     transport_identifiers |-> transport_identifiers(b),
     authenticators |-> authenticators(b),
     admits |-> location_policies(b, started)]
==============================================================================
