--------------------------- MODULE ClientConfigs ----------------------------
(***************************************************************************)
(* What a user starts the client with, for TLC: an ordinary and a realm    *)
(* server, two modes, and configurations with one mistake.                 *)
(***************************************************************************)
ClientSound ==
    [server |-> "hostPort", hop |-> "none", sockopts |-> "supported", transport |-> "",
     obfs |-> "plain", tls |-> "sound", congestion |-> "", bandwidth |-> "", ipMode |-> "",
     portMapping |-> FALSE, limits |-> "kept", clock |-> "sound", lazy |-> FALSE,
     mimic |-> FALSE, modes |-> {"socks5", "http"}, listen |-> "set"]

RealmSound ==
    [ClientSound EXCEPT !.server = "realm", !.obfs = "salamander-v2", !.portMapping = TRUE]

MCClientConfigs ==
    {ClientSound, RealmSound,
     [RealmSound EXCEPT !.lazy = TRUE],
     [ClientSound EXCEPT !.mimic = TRUE, !.lazy = TRUE],
     [ClientSound EXCEPT !.mimic = TRUE, !.server = "uri"],
     [ClientSound EXCEPT !.mimic = TRUE, !.server = "hop"],
     [RealmSound EXCEPT !.clock = "unsynced"],
     [RealmSound EXCEPT !.hop = "halfRange"],
     [ClientSound EXCEPT !.server = "hop", !.hop = "conflicting"],
     [ClientSound EXCEPT !.obfs = "unknown", !.lazy = TRUE],
     [RealmSound EXCEPT !.limits = "exceeded", !.lazy = TRUE],
     [ClientSound EXCEPT !.modes = {}],
     [ClientSound EXCEPT !.listen = "empty", !.modes = {"tun"}]}
=============================================================================
