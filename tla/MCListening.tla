----------------------------- MODULE MCListening -----------------------------
(* Configurations and builds for TLC.                                       *)
EXTENDS Listening

At(h, p) == [host |-> h, port |-> p, socket |-> TRUE]

a == At("any", 1)
b == At("local", 1)
c == At("any", 2)
d == At("local", 3)
path == [At("local", 0) EXCEPT !.socket = FALSE]

Entry(n, t, s, at, m, w) ==
    [name |-> n, technology |-> t, start |-> s, address |-> at, accept |-> m,
     waits |-> w]

Tcp == Entry("tcp", "transport-tcp", TRUE, c, "mutual-tls", TRUE)
Udp == Entry("udp", "transport-udp", TRUE, c, "identify-ip", TRUE)
Picked == Entry("picked", "transport-tcp", TRUE, At("any", 0), "mutual-tls", TRUE)
Broker == Entry("http", "transport-http", TRUE, b, "identify-broker", TRUE)
Folder == Entry("file", "transport-file", TRUE, path, "circumstance", FALSE)
Fetch == Entry("sftp", "transport-sftp", TRUE, d, "identify-ip", FALSE)
Served == Entry("sftp", "transport-sftp", TRUE, d, "circumstance", TRUE)
Stopped == Entry("udp", "transport-udp", FALSE, d, "circumstance", TRUE)

Documented ==
    [operate : {None, a}, storage : {d}, stores : BOOLEAN,
     key_store : {"file"},
     authority : {<<"other", c, d>>, <<"internal-ca", c, None>>,
                  <<"internal-ca", None, d>>, <<"internal-ca", b, d>>},
     own : {<<>>, <<Tcp, Folder, Udp>>, <<Fetch, Stopped>>,
            <<Udp, Picked, Served>>},
     placed : {<<>>, <<"elsewhere">>, <<"here">>}]

Placed(w) == [node |-> IF w = "here" THEN This ELSE "another",
              location |-> Broker]

MCDocuments ==
    {[operate |-> e.operate, storage |-> e.storage, stores |-> e.stores,
      key_store |-> e.key_store, source |-> e.authority[1],
      serve |-> e.authority[2], publish |-> e.authority[3], own |-> e.own,
      placed |-> [i \in DOMAIN e.placed |-> Placed(e.placed[i])]]
        : e \in {x \in Documented :
                    /\ x.own = <<>> \/ x.placed = <<>>
                    /\ x.stores => x.authority[1] = "other"}}

Whole == {"transport-file", "transport-http", "transport-sftp", "transport-tcp",
          "transport-udp", "persist-rocksdb", "persist-sqlite", "secret",
          "linux", "identify", "identify-certificate", "identify-jwt",
          "identify-username", "identify-ip", "authenticate-mutual-tls",
          "authorize-location", "provision-internal-ca"}

MCBuilds ==
    {Whole, Whole \ {"transport-http", "provision-internal-ca"},
     Whole \ {"identify-certificate", "persist-sqlite"}, Whole \ {"identify"}}

MCPresented ==
    {{}, {"identify-ip"}, {"identify-broker", "identify-ip"},
     {"identify-certificate", "identify-jwt", "identify-ip"},
     {"identify-api-key", "identify-username", "identify-broker"}}
==============================================================================
