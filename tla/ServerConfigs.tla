--------------------------- MODULE ServerConfigs ----------------------------
(***************************************************************************)
(* What an operator starts the server with, for TLC: a sound configuration *)
(* or one with a single mistake.  The port unions are a range, a range and *)
(* a port, and a union of one port.                                        *)
(***************************************************************************)
MCUnions ==
    [range |-> <<[start |-> 1, end |-> 3]>>,
     mixed |-> <<[start |-> 2, end |-> 2], [start |-> 4, end |-> 5]>>,
     one   |-> <<[start |-> 1, end |-> 1]>>]

Sound ==
    [listen |-> "ports", ports |-> "range", backend |-> "nft", wildcard |-> TRUE,
     obfs |-> "plain", portMapping |-> FALSE,
     tls |-> "pair", sniGuard |-> "", clientCA |-> "none", acme |-> "none", ca |-> "",
     dns |-> "", domains |-> 1, ech |-> "none", sniff |-> "off",
     outbounds |-> <<[name |-> "a", type |-> "direct", mode |-> "", bind |-> "none", addr |-> ""]>>,
     acl |-> "none", resolver |-> "", congestion |-> "", bandwidth |-> "", auth |-> "password",
     stats |-> FALSE, masq |-> "", masqHTTP |-> FALSE, masqHTTPS |-> FALSE,
     mimic |-> FALSE, limits |-> "kept"]

iptables == [Sound EXCEPT !.backend = "iptables", !.wildcard = FALSE, !.ports = "mixed"]
realm == [Sound EXCEPT !.listen = "realm", !.obfs = "salamander-v2", !.portMapping = TRUE]

MCConfigs ==
    {Sound, iptables, realm,
     [Sound EXCEPT !.wildcard = FALSE, !.stats = TRUE],
     [iptables EXCEPT !.wildcard = TRUE, !.mimic = TRUE],
     [Sound EXCEPT !.listen = "port", !.tls = "none", !.acme = "dns", !.dns = "supported"],
     [Sound EXCEPT !.listen = "invalid"],
     [Sound EXCEPT !.obfs = "unknown"],
     [iptables EXCEPT !.obfs = "unknown"],
     [realm EXCEPT !.obfs = "gecko"],
     [Sound EXCEPT !.acme = "http"],
     [realm EXCEPT !.sniGuard = "other"],
     [Sound EXCEPT !.outbounds[1].bind = "both"],
     [iptables EXCEPT !.auth = ""],
     [Sound EXCEPT !.masqHTTP = TRUE],
     [iptables EXCEPT !.limits = "exceeded"],
     [Sound EXCEPT !.ports = "one"],
     [Sound EXCEPT !.ports = "one", !.obfs = "unknown"]}
=============================================================================
