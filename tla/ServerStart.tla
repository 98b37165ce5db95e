---------------------------- MODULE ServerStart ----------------------------
(***************************************************************************)
(* The life of one server process after another on one host               *)
(* (app/cmd/server.go runServer, Config and its fillers, the port          *)
(* redirection of app/internal/firewall, NewServer and Close of            *)
(* core/server/server.go): what each start takes from the host, what a     *)
(* refused configuration, a fatal error, a signal or a kill gives back.    *)
(*                                                                         *)
(* Sockets and the mimic child die with the process (the child through its *)
(* parent-death signal).  The firewall's objects and the gateway's port    *)
(* mapping do not: they are the state a later start inherits.              *)
(***************************************************************************)
EXTENDS Naturals, Sequences, FiniteSets

CONSTANTS
    Configs,       \* the configurations an operator may start the server with
    Unions,        \* the port unions a listen address may name, by its key
    MaxStarts,     \* bound: processes started
    MaxFailures    \* bound: commands and system calls that fail

VARIABLES
    pc,        \* where the running process is, "off" when there is none
    config,    \* its configuration
    at,        \* the filler it runs
    todo,      \* the firewall commands still to run
    cleanup,   \* Config.Cleanup: "none", "nil" (a nil *closerFuncs) or "set"
    fns,       \* the closers of closerFuncs, oldest first
    runtime,   \* the realm runtime is up
    child,     \* a mimic child of this process runs
    helpers,   \* goroutines serving traffic statistics or the masquerade
    mapping,   \* the gateway's mapping: "none", "renewed", "cancelled" or "left"
    fw,        \* the firewall's objects (they outlive the process)
    fwBefore,  \* history: fw when this process started
    broken,    \* history: the set-ups in which a clean-up command of it failed
    ended,     \* how the last process ended
    starts, failures

vars == <<pc, config, at, todo, cleanup, fns, runtime, child, helpers, mapping,
          fw, fwBefore, broken, ended, starts, failures>>

process == <<config, at, cleanup, runtime, child, helpers, mapping>>
history == <<fwBefore, broken, starts>>

--------------------------------------------------------------------------------
(* The port redirection.                                                   *)

(* The ranges to redirect: the union without its first port, which is the  *)
(* one the server listens on.                                              *)
redirectPortUnion(ports) ==
    IF Head(ports).start = Head(ports).end
    THEN Tail(ports)
    ELSE [ports EXCEPT ![1].start = @ + 1]

(* A wildcard address needs both families, another one its own.            *)
families(c) == IF c.wildcard THEN <<"ip", "ip6">> ELSE <<"ip">>

obj(kind, family, chain, range, key) ==
    [kind |-> kind, family |-> family, chain |-> chain, range |-> range, key |-> key]

NoRange == [start |-> 0, end |-> 0]

nftFamily(f, redirects, key) ==
    LET rules(chain) == [i \in DOMAIN redirects |-> obj("rule", f, chain, redirects[i], key)]
    IN  <<obj("table", f, "", NoRange, key),
          obj("hook", f, "prerouting", NoRange, key),
          obj("hook", f, "output", NoRange, key)>>
        \o rules("prerouting") \o rules("output")

iptablesFamily(f, redirects, key) ==
    LET jumps(chain) == [i \in DOMAIN redirects |-> obj("jump", f, chain, redirects[i], key)]
    IN  <<obj("chain", f, "", NoRange, key), obj("target", f, "", NoRange, key)>>
        \o jumps("PREROUTING") \o jumps("OUTPUT")

(* What the hash in every table's and chain's name is made of: the same    *)
(* address and ports always use the same names.                            *)
hashInput(c) == <<c.wildcard, c.ports>>

(* The commands of one set-up, in their order.                             *)
setupUDPPortRedirect(c) ==
    LET redirects == redirectPortUnion(Unions[c.ports])
        of(f) == IF c.backend = "nft" THEN nftFamily(f, redirects, hashInput(c))
                                      ELSE iptablesFamily(f, redirects, hashInput(c))
        fs == families(c)
    IN  of(fs[1]) \o (IF Len(fs) = 2 THEN of(fs[2]) ELSE <<>>)

HasCloser(o) == o.kind \in {"table", "chain", "jump"}

(* `nft add` accepts what is already there; `iptables -N` does not.        *)
Accepted(o) == ~(o.kind = "chain" /\ o \in fw)

Same(o, p) == o.family = p.family /\ o.key = p.key

(* The table or the chain, and what hangs on it, an object is part of.     *)
Where(o) == <<o.family, o.key>>

(* What a closer's command removes.  Deleting a table takes its chains and *)
(* rules along; -F empties a chain and -X removes it unless a jump still   *)
(* refers to it.                                                           *)
Removed(o) ==
    CASE o.kind = "table" -> {p \in fw : Same(o, p) /\ p.kind \in {"table", "hook", "rule"}}
      [] o.kind = "chain" -> {p \in fw : /\ Same(o, p)
                                         /\ \/ p.kind = "target"
                                            \/ p = o /\ \A q \in fw : ~(q.kind = "jump" /\ Same(o, q))}
      [] o.kind = "jump" -> {o}

--------------------------------------------------------------------------------
(* What is kept of a configuration: of every option, the values the checks *)
(* tell apart ("other" and its like stand for what they refuse).           *)
serverConfigOutboundEntry ==
    [name : {"", "a"}, type : {"direct", "socks5", "http", "other"},
     mode : {"", "auto", "64", "46", "6", "4", "other"},
     bind : {"none", "ip", "device", "both", "malformed"}, addr : {"", "a"}]

serverConfig ==
    [listen : {"port", "ports", "realm", "invalid"}, ports : DOMAIN Unions,
     backend : {"nft", "iptables"}, wildcard : BOOLEAN,
     obfs : {"plain", "salamander", "salamander-v2", "gecko", "unknown"}, portMapping : BOOLEAN,
     tls : {"none", "pair", "empty", "unloadable"}, sniGuard : {"", "dns-san", "strict", "disable", "other"},
     clientCA : {"none", "pem", "bad"}, acme : {"none", "", "http", "tls", "dns", "other"},
     ca : {"", "letsencrypt", "zerossl", "other"}, dns : {"", "supported"}, domains : {0, 1},
     ech : {"none", "loadable", "bad"}, sniff : {"off", "ports", "malformed"},
     outbounds : Seq(serverConfigOutboundEntry), acl : {"none", "file", "inline", "both", "bad"},
     resolver : {"", "system", "tcp", "udp", "tls", "https", "empty", "other"},
     congestion : {"", "reno", "bbr", "other"}, bandwidth : {"", "sound", "belowMinimum", "unparsable"},
     auth : {"", "password", "userpass", "http", "command", "empty", "other"}, stats : BOOLEAN,
     masq : {"", "404", "file", "proxy", "string", "empty", "other"},
     masqHTTP : BOOLEAN, masqHTTPS : BOOLEAN, mimic : BOOLEAN, limits : {"kept", "exceeded"}]

ConfigsAssumption == Configs \subseteq serverConfig

(* ParsePortUnion's unions are normalized: not empty, and their ranges in  *)
(* order, each with a gap to the next.                                     *)
UnionsAssumption ==
    \A k \in DOMAIN Unions :
        /\ Unions[k] \in Seq([start : Nat, end : Nat]) /\ Unions[k] # <<>>
        /\ \A i \in DOMAIN Unions[k] : Unions[k][i].start <= Unions[k][i].end
        /\ \A i, j \in DOMAIN Unions[k] : i < j => Unions[k][i].end + 1 < Unions[k][j].start

(* The fillers.  Each holds when the filler accepts the configuration.     *)

(* ACME: a known CA (ZeroSSL's also needs its credentials fetched), a known*)
(* challenge, a supported DNS provider for the DNS one, some domains.      *)
acmeAccepted(c) ==
    /\ c.ca \in {"", "letsencrypt", "zerossl"}
    /\ c.acme \in {"", "http", "tls", "dns"}
    /\ c.acme = "dns" => c.dns = "supported"
    /\ c.domains # 0

fillTLSConfig(c) ==
    /\ (c.tls = "none") # (c.acme = "none")                  \* one of the two
    /\ c.tls # "none" => /\ c.sniGuard \in {"", "dns-san", "strict", "disable"}
                         /\ c.tls = "pair"                   \* paths set and loadable
                         /\ c.clientCA \in {"none", "pem"}
    /\ c.acme # "none" => acmeAccepted(c)
    /\ c.ech \in {"none", "loadable"}

fillRequestHook(c) == c.sniff \in {"off", "ports"}

(* A direct outbound binds an address or a device, never both; a proxy     *)
(* outbound needs its address.                                             *)
outboundAccepted(o) ==
    /\ o.name # ""
    /\ o.type \in {"direct", "socks5", "http"}
    /\ o.type = "direct" => /\ o.mode \in {"", "auto", "64", "46", "6", "4"}
                            /\ o.bind \in {"none", "ip", "device"}
    /\ o.type \in {"socks5", "http"} => o.addr # ""

fillOutboundConfig(c) ==
    /\ \A i \in DOMAIN c.outbounds : outboundAccepted(c.outbounds[i])
    /\ c.acl \in {"none", "file", "inline"}                  \* not both, and it compiles
    /\ c.resolver \in {"", "system", "tcp", "udp", "tls", "https"}

fillCongestionConfig(c) == c.congestion \in {"", "reno", "bbr"}

fillBandwidthConfig(c) == c.bandwidth # "unparsable"

fillPaddingSeed(c) == TRUE

fillAuthenticator(c) == c.auth \in {"password", "userpass", "http", "command"}

(* An HTTP listener without an HTTPS one is refused; so is an empty or a   *)
(* malformed target.                                                       *)
fillMasqHandler(c) ==
    /\ c.masq \in {"", "404", "file", "proxy", "string"}
    /\ ~(c.masqHTTP /\ ~c.masqHTTPS)

Fillers == <<"fillConn", "fillTLSConfig", "fillQUICConfig", "fillRequestHook",
             "fillOutboundConfig", "fillCongestionConfig", "fillBandwidthConfig",
             "fillIgnoreClientBandwidth", "fillDisableUDP", "fillPaddingSeed",
             "fillUDPIdleTimeout", "fillAuthenticator", "fillEventLogger",
             "fillTrafficLogger", "fillMasqHandler">>

Accepts(f, c) ==
    CASE f = "fillTLSConfig" -> fillTLSConfig(c)
      [] f = "fillRequestHook" -> fillRequestHook(c)
      [] f = "fillOutboundConfig" -> fillOutboundConfig(c)
      [] f = "fillCongestionConfig" -> fillCongestionConfig(c)
      [] f = "fillBandwidthConfig" -> fillBandwidthConfig(c)
      [] f = "fillPaddingSeed" -> fillPaddingSeed(c)
      [] f = "fillAuthenticator" -> fillAuthenticator(c)
      [] f = "fillMasqHandler" -> fillMasqHandler(c)
      [] OTHER -> TRUE                                       \* copies its options

(* The goroutines a filler starts on the way.                              *)
Spawned(f, c) ==
    \/ f = "fillTrafficLogger" /\ c.stats
    \/ f = "fillMasqHandler" /\ (c.masqHTTP \/ c.masqHTTPS)

(* Config.fill of core/server: the limits on windows, timeouts, streams    *)
(* and bandwidth, checked only here, after every filler.                   *)
configFill(c) == c.limits = "kept" /\ c.bandwidth # "belowMinimum"

--------------------------------------------------------------------------------
Init ==
    /\ pc = "off"
    /\ config \in Configs
    /\ at = 0
    /\ todo = <<>>
    /\ cleanup = "none"
    /\ fns = <<>>
    /\ runtime = FALSE
    /\ child = FALSE
    /\ helpers = FALSE
    /\ mapping = "none"
    /\ fw = {}
    /\ fwBefore = {}
    /\ broken = {}
    /\ ended = "never"
    /\ starts = 0
    /\ failures = 0

(* The process is gone.  What the host keeps: the firewall's objects, and  *)
(* a mapping its renewal loop had not removed.                             *)
Exit(how) ==
    /\ pc' = "off"
    /\ ended' = how
    /\ todo' = <<>>
    /\ fns' = <<>>
    /\ at' = 0
    /\ cleanup' = "none"
    /\ runtime' = FALSE
    /\ child' = FALSE
    /\ helpers' = FALSE
    /\ mapping' = IF mapping = "none" THEN "none" ELSE "left"
    /\ UNCHANGED config

Fail == failures < MaxFailures /\ failures' = failures + 1

(* runServer: the configuration is read, the clock repaired, Config() runs.*)
runServer(c) ==
    /\ pc = "off"
    /\ starts < MaxStarts
    /\ starts' = starts + 1
    /\ config' = c
    /\ pc' = "listen"
    /\ at' = 1
    /\ fwBefore' = fw
    /\ broken' = {}
    /\ ended' = "running"
    /\ mapping' = "none"                    \* an old mapping is only a lease
    /\ UNCHANGED <<todo, cleanup, fns, runtime, child, helpers, fw, failures>>

(* fillConn: the address, the socket, and the redirection's commands.  No  *)
(* range is left to redirect for a union of one port, and the nil pointer  *)
(* that says so is stored in Cleanup as a non-nil interface.               *)
fillConn ==
    /\ pc = "listen"
    /\ config.listen \in {"port", "ports"}
    /\ LET set == IF config.listen = "ports" THEN setupUDPPortRedirect(config) ELSE <<>>
           none == config.listen = "ports" /\ redirectPortUnion(Unions[config.ports]) = <<>>
       IN  /\ todo' = IF none THEN <<>> ELSE set
           /\ cleanup' = IF none THEN "nil" ELSE IF config.listen = "ports" THEN "set" ELSE "none"
           /\ pc' = IF config.listen = "ports" /\ ~none THEN "redirect" ELSE "wrap"
    /\ UNCHANGED <<config, at, fns, runtime, child, helpers, mapping, fw, ended, failures, history>>

(* An address that does not parse, a port union that is none, or a socket  *)
(* that cannot be opened.                                                  *)
fillConnRefused ==
    /\ pc = "listen"
    /\ \/ config.listen = "invalid" /\ UNCHANGED failures
       \/ config.listen # "invalid" /\ Fail
    /\ Exit("refused")
    /\ UNCHANGED <<fw, history>>

(* fillRealmConn: the mask and the mode are checked before the socket, the *)
(* socket is wrapped and the runtime started; each failure closes what is  *)
(* open (RealmServer models the runtime).                                  *)
fillRealmConn ==
    /\ pc = "listen"
    /\ config.listen = "realm"
    /\ \/ /\ config.obfs # "salamander-v2"        \* realmPunchMask has no key
          /\ Exit("refused")
          /\ UNCHANGED failures
       \/ /\ config.obfs = "salamander-v2"
          /\ pc' = "fill"
          /\ at' = 2
          /\ runtime' = TRUE
          /\ cleanup' = "set"
          /\ mapping' = IF config.portMapping THEN "renewed" ELSE "none"
          /\ UNCHANGED <<config, todo, fns, child, helpers, ended, failures>>
    /\ UNCHANGED <<fw, history>>

(* One command of the set-up, and its closer when it has one.              *)
RunCommand ==
    /\ pc = "redirect"
    /\ todo # <<>>
    /\ Accepted(Head(todo))
    /\ fw' = fw \cup {Head(todo)}
    /\ fns' = IF HasCloser(Head(todo)) THEN Append(fns, Head(todo)) ELSE fns
    /\ todo' = Tail(todo)
    /\ pc' = IF Tail(todo) = <<>> THEN "wrap" ELSE pc
    /\ UNCHANGED <<process, ended, failures, history>>

(* A command fails: the closers run, then fillConn reports the error.      *)
CommandFails ==
    /\ pc = "redirect"
    /\ todo # <<>>
    /\ \/ ~Accepted(Head(todo)) /\ UNCHANGED failures
       \/ Accepted(Head(todo)) /\ Fail
    /\ todo' = <<>>
    /\ pc' = "undo"
    /\ UNCHANGED <<process, fns, fw, ended, history>>

OldestFirst(s) == <<Head(s), Tail(s)>>

(* closerFuncs.Close runs the closers, the newest first: the one to run    *)
(* and those left.                                                         *)
LastFirst(s) == <<s[Len(s)], SubSeq(s, 1, Len(s) - 1)>>

closerFuncsClose ==
    /\ pc \in {"undo", "close", "abandon"}
    /\ fns # <<>>
    /\ fw' = fw \ Removed(LastFirst(fns)[1])
    /\ fns' = LastFirst(fns)[2]
    /\ UNCHANGED <<pc, process, todo, ended, failures, history>>

(* A closer ignores its commands' errors: what it should have removed      *)
(* stays, or of a chain's two commands -F empties it and -X does nothing.  *)
Emptied(o) == {p \in fw : o.kind = "chain" /\ Same(o, p) /\ p.kind = "target"}

closerFuncsFails ==
    /\ pc \in {"undo", "close", "abandon"}
    /\ fns # <<>>
    /\ Fail
    /\ \/ fw' = fw
       \/ fw' = fw \ Emptied(LastFirst(fns)[1])
    /\ fns' = LastFirst(fns)[2]
    /\ broken' = broken \cup {Where(LastFirst(fns)[1])}
    /\ UNCHANGED <<pc, process, todo, ended, fwBefore, starts>>

Undone ==
    /\ pc = "undo"
    /\ fns = <<>>
    /\ Exit("refused")
    /\ UNCHANGED <<fw, failures, history>>

(* wrapObfs over the socket; on its error fillConn closes the socket and,  *)
(* where Cleanup is not nil, the cleanup - which panics on the nil pointer.*)
wrapObfs ==
    /\ pc = "wrap"
    /\ \/ /\ config.obfs # "unknown"
          /\ pc' = "fill"
          /\ at' = 2
          /\ UNCHANGED <<config, todo, cleanup, fns, runtime, child, helpers, mapping, ended>>
       \/ /\ config.obfs = "unknown"
          /\ cleanup = "set"
          /\ pc' = "undo"
          /\ UNCHANGED <<process, todo, fns, ended>>
       \/ /\ config.obfs = "unknown"
          /\ cleanup # "set"
          /\ Exit(IF cleanup = "nil" THEN "crashed" ELSE "refused")
    /\ UNCHANGED <<fw, failures, history>>

(* The remaining fillers, in Config()'s order.                             *)
Filler ==
    /\ pc = "fill"
    /\ Accepts(Fillers[at], config)
    /\ helpers' = (helpers \/ Spawned(Fillers[at], config))
    /\ at' = IF at = Len(Fillers) THEN 0 ELSE at + 1
    /\ pc' = IF at = Len(Fillers) THEN "mimic" ELSE pc
    /\ UNCHANGED <<config, todo, cleanup, fns, runtime, child, mapping, fw, ended, failures, history>>

(* logger.Fatal ends the process without running a deferred call: nothing  *)
(* that fillConn took is given back.  A filler refuses, a name cannot be   *)
(* loaded or fetched, mimic does not start, Config.fill refuses, Serve     *)
(* returns an error, or one of the helper goroutines cannot listen - at    *)
(* any time, whatever the main goroutine is doing.                         *)
Fatal ==
    /\ \/ /\ pc = "fill" /\ ~Accepts(Fillers[at], config)
          /\ UNCHANGED failures
       \/ /\ pc = "fill" /\ Fillers[at] \in {"fillTLSConfig", "fillOutboundConfig"}
          /\ Accepts(Fillers[at], config)
          /\ Fail
       \/ pc = "mimic" /\ config.mimic /\ Fail
       \/ pc = "new" /\ ~configFill(config) /\ UNCHANGED failures
       \/ pc = "serve" /\ Fail
       \/ pc # "off" /\ helpers /\ Fail
    /\ Exit("fatal")
    /\ UNCHANGED <<fw, history>>

(* mimic.Start: a child of its own, or the one another process runs.       *)
mimicStart ==
    /\ pc = "mimic"
    /\ child' \in IF config.mimic THEN BOOLEAN ELSE {FALSE}
    /\ pc' = "new"
    /\ UNCHANGED <<config, at, todo, cleanup, fns, runtime, helpers, mapping, fw, ended, failures, history>>

NewServer ==
    /\ pc = "new"
    /\ configFill(config)
    /\ pc' = "serve"
    /\ UNCHANGED <<process, todo, fns, fw, ended, failures, history>>

(* The listener fails: NewServer closes the connection and the cleanup     *)
(* before it reports the error, and only then the process dies.            *)
ListenFails ==
    /\ pc = "new"
    /\ configFill(config)
    /\ Fail
    /\ IF cleanup = "nil" THEN Exit("crashed")
       ELSE /\ pc' = "abandon"
            /\ runtime' = FALSE
            /\ mapping' = IF mapping = "renewed" THEN "cancelled" ELSE mapping
            /\ UNCHANGED <<config, at, todo, cleanup, fns, child, helpers, ended>>
    /\ UNCHANGED <<fw, history>>

Abandoned ==
    /\ pc = "abandon"
    /\ fns = <<>>
    /\ Exit("fatal")
    /\ UNCHANGED <<fw, failures, history>>

(* A signal: serverImpl.Close closes the listener, the transport and the   *)
(* connection, then the cleanup: the closers, or the runtime's Close,      *)
(* which cancels the loops and deregisters.                                *)
Signal ==
    /\ pc = "serve"
    /\ IF cleanup = "nil" THEN Exit("panic")
       ELSE /\ pc' = "close"
            /\ runtime' = FALSE
            /\ mapping' = IF mapping = "renewed" THEN "cancelled" ELSE mapping
            /\ UNCHANGED <<config, at, todo, cleanup, fns, child, helpers, ended>>
    /\ UNCHANGED <<fw, failures, history>>

(* The renewal loop, a goroutine nobody waits for, removes the mapping     *)
(* once its context is cancelled - if the process still runs.              *)
realmPortMapLoop ==
    /\ pc # "off"
    /\ mapping = "cancelled"
    /\ mapping' = "none"
    /\ UNCHANGED <<pc, config, at, todo, cleanup, fns, runtime, child, helpers, fw, ended, failures, history>>

(* Serve has returned, runServer returns and the deferred Close of mimic   *)
(* runs.                                                                   *)
Closed ==
    /\ pc = "close"
    /\ fns = <<>>
    /\ Exit("graceful")
    /\ UNCHANGED <<fw, failures, history>>

(* The host kills the process, or loses power and comes back with its      *)
(* firewall saved.                                                         *)
Kill ==
    /\ pc # "off"
    /\ Fail
    /\ Exit("killed")
    /\ UNCHANGED <<fw, history>>

Next ==
    \/ \E c \in Configs : runServer(c)
    \/ fillConn \/ fillConnRefused \/ fillRealmConn
    \/ RunCommand \/ CommandFails \/ closerFuncsClose \/ closerFuncsFails \/ Undone
    \/ wrapObfs \/ Filler \/ Fatal \/ mimicStart
    \/ NewServer \/ ListenFails \/ Abandoned
    \/ Signal \/ realmPortMapLoop \/ Closed \/ Kill

Spec == Init /\ [][Next]_vars

--------------------------------------------------------------------------------
(* Correctness.                                                            *)

(* While the server serves a port union, each port of it but the one it    *)
(* listens on is redirected there, in both hooks of every family, and that *)
(* one is left alone - whatever earlier processes left in the firewall     *)
(* under the same names (setupNFTablesRedirect, setupIPTablesRedirect,     *)
(* redirectPortUnion).                                                     *)
PortsReachListener ==
    pc = "serve" /\ config.listen = "ports" =>
        LET union == Unions[config.ports]
            ports == UNION {union[i].start .. union[i].end : i \in DOMAIN union}
            hooks == IF config.backend = "nft" THEN {"prerouting", "output"} ELSE {"PREROUTING", "OUTPUT"}
            redirected(f, h) ==
                UNION {o.range.start .. o.range.end : o \in {o \in fw :
                    o.kind \in {"rule", "jump"} /\ o.family = f /\ o.chain = h /\ o.key = hashInput(config)}}
        IN  \A i \in DOMAIN families(config), h \in hooks :
                redirected(families(config)[i], h) = ports \ {Head(union).start}

Kinds(backend) == IF backend = "nft" THEN {"table", "hook", "rule"} ELSE {"chain", "target", "jump"}

(* A process that was stopped by a signal, or that refused to open its     *)
(* listener, leaves nothing of its own in the firewall: not when a command *)
(* failed half way, nor when it found what a killed process had left       *)
(* (closerFuncs.Close, fillConn's error paths).  The errors of the         *)
(* clean-up's own commands are ignored, but each costs only the table or   *)
(* the chain it is about: the closers after it still run.                  *)
LeavesNothing ==
    /\ ended = "graceful" /\ config.listen = "ports" =>
           \A o \in fw : o.key = hashInput(config) /\ o.kind \in Kinds(config.backend) =>
                           Where(o) \in broken
    /\ ended = "refused" => \A o \in fw : o \in fwBefore \/ Where(o) \in broken

(* server.go logs "received signal, shutting down gracefully": a signal    *)
(* does not end in a panic.                                                *)
SignalIsGraceful == ended # "panic"
=============================================================================
