---------------------------- MODULE KalixService ----------------------------
(***************************************************************************)
(* The life of a Kalix service: the class Kalix of sdk/src/kalix.ts, from  *)
(* its creation to the end of its process, with the proxies that discover  *)
(* it and the SIGTERM that stops it.  Each action is one turn of the       *)
(* service's event loop, or something a proxy does on its own.             *)
(*                                                                         *)
(* One proxy runs at a time; the next may start when it is gone.  What a   *)
(* proxy called that was not read when it went is never read.              *)
(***************************************************************************)
EXTENDS Naturals

CONSTANTS
  Proxies,      (* the proxies that may run beside the service             *)
  DevProxies,   (* those of them in development mode                       *)
  MaxSignals    (* bound: SIGTERMs                                         *)

ASSUME ServiceAssumption ==
  /\ DevProxies \subseteq Proxies
  /\ MaxSignals \in Nat

VARIABLES
  (* the proxies and the operating system *)
  proxies,     (* each proxy: "new", "running", "serving" once it was told *)
               (* the components, "stopping" once it said so, or "gone"    *)
  lost,        (* a serving proxy has gone without a word                  *)
  signals,     (* number of SIGTERMs                                       *)
  (* the service *)
  process,     (* "up" or "exited"                                         *)
  server,      (* the gRPC server: "new", "binding", "serving", "failed",  *)
               (* "draining" after tryShutdown, or "closed"                *)
  delayDiscoveryUntilProxyPortSet,
  proxyPort,   (* setProxyPort was called                                  *)
  discoveryCompleted,
  proxySeen,
  proxyHasTerminated,
  waitingForProxyTermination,
  devMode,
  preStarted   (* where the port came from that the components were last   *)
               (* given: "none", "set" by setProxyPort, or "told" by a     *)
               (* proxy                                                    *)

environment == <<proxies, lost, signals>>
flags == <<proxySeen, proxyHasTerminated, waitingForProxyTermination, devMode>>
discovered == <<discoveryCompleted, preStarted>>
options == <<delayDiscoveryUntilProxyPortSet, proxyPort>>
serviceVars == <<environment, process, server, options, discovered, flags>>

ServiceTypeOK ==
  /\ proxies \in [Proxies -> {"new", "running", "serving", "stopping", "gone"}]
  /\ lost \in BOOLEAN /\ signals \in 0 .. MaxSignals
  /\ process \in {"up", "exited"}
  /\ server \in {"new", "binding", "serving", "failed", "draining", "closed"}
  /\ delayDiscoveryUntilProxyPortSet \in BOOLEAN /\ proxyPort \in BOOLEAN
  /\ discoveryCompleted \in BOOLEAN
  /\ proxySeen \in BOOLEAN /\ proxyHasTerminated \in BOOLEAN
  /\ waitingForProxyTermination \in BOOLEAN /\ devMode \in BOOLEAN
  /\ preStarted \in {"none", "set", "told"}

ServiceInit ==
  /\ proxies = [p \in Proxies |-> "new"] /\ lost = FALSE /\ signals = 0
  /\ process = "up" /\ server = "new"
  /\ delayDiscoveryUntilProxyPortSet \in BOOLEAN /\ proxyPort = FALSE
  /\ discoveryCompleted = FALSE /\ preStarted = "none"
  /\ proxySeen = FALSE /\ proxyHasTerminated = FALSE
  /\ waitingForProxyTermination = FALSE /\ devMode = FALSE

Live(p) == proxies[p] \in {"running", "serving", "stopping"}
Serves == process = "up" /\ server = "serving"

----------------------------------------------------------------------------
(* Start and shutdown. *)

(* start: the components are registered and the port is asked for. *)
Start ==
  /\ process = "up" /\ server = "new"
  /\ server' = "binding"
  /\ UNCHANGED <<environment, process, options, discovered, flags>>

(* The callback of bindAsync: the server is started and, in the same turn, *)
(* afterStart sets the handler of SIGTERM; or the promise is rejected.     *)
Bind(result) ==
  /\ process = "up" /\ server = "binding"
  /\ result \in {"serving", "failed"} /\ server' = result
  /\ UNCHANGED <<environment, process, options, discovered, flags>>

SetProxyPort ==
  /\ process = "up"
  /\ proxyPort' = TRUE
  /\ UNCHANGED <<environment, process, server, delayDiscoveryUntilProxyPortSet, discovered,
                 flags>>

(* tryShutdown takes no new calls and waits for those under way. *)
TryShutdown ==
  /\ process = "up"
  /\ server' = IF server = "serving" THEN "draining" ELSE "closed"
  /\ UNCHANGED <<environment, process, options, discovered, flags>>

Drained ==
  /\ process = "up" /\ server = "draining"
  /\ server' = "closed"
  /\ UNCHANGED <<environment, process, options, discovered, flags>>

(* terminate: the server is shut down by force and the process exits. *)
Terminate == process' = "exited" /\ server' = "closed"

(* Before afterStart, and after a failed start, nobody handles SIGTERM and *)
(* it ends the process.                                                    *)
Handled == server \in {"serving", "draining", "closed"}
StopsNow == ~ Handled \/ ~ proxySeen \/ proxyHasTerminated \/ devMode
SigTerm ==
  /\ process = "up" /\ signals < MaxSignals
  /\ signals' = signals + 1
  /\ IF StopsNow THEN Terminate /\ UNCHANGED flags
     ELSE /\ waitingForProxyTermination' = TRUE
          /\ UNCHANGED <<process, server, proxySeen, proxyHasTerminated, devMode>>
  /\ UNCHANGED <<proxies, lost, options, discovered>>

----------------------------------------------------------------------------
(* The calls of the proxies. *)

Calls(p) == Serves /\ proxies[p] \in {"running", "serving"}

DelayedNever == FALSE
Delayed == delayDiscoveryUntilProxyPortSet /\ ~ proxyPort

(* discoveryLogic for a version probe: the service tells its own version.  *)
Probe(p) ==
  /\ Calls(p) /\ ~ Delayed
  /\ discoveryCompleted' = TRUE
  /\ UNCHANGED <<environment, process, server, options, preStarted, flags>>

(* proxyInfo.devMode *)
ModeWithInfo(p) == p
Mode(p) == p \in DevProxies

(* discoveryLogic: the proxy's mode replaces that of an earlier one, whose *)
(* termination is forgotten; the components are given the address of the   *)
(* proxy and told to it, unless the answer is lost.                        *)
DiscoverKeepsTermination(p, answer) ==
  /\ Calls(p) /\ ~ Delayed
  /\ proxySeen' = TRUE /\ devMode' = Mode(p)
  /\ preStarted' = IF proxyPort THEN "set" ELSE "told"
  /\ discoveryCompleted' = TRUE
  /\ proxies[p] = "serving" => answer = "serving"
  /\ answer \in {"running", "serving"} /\ proxies' = [proxies EXCEPT ![p] = answer]
  /\ UNCHANGED <<lost, signals, process, server, options, proxyHasTerminated,
                 waitingForProxyTermination>>
Discover(p, answer) ==
  /\ Calls(p) /\ ~ Delayed
  /\ proxySeen' = TRUE /\ devMode' = Mode(p) /\ proxyHasTerminated' = FALSE
  /\ preStarted' = IF proxyPort THEN "set" ELSE "told"
  /\ discoveryCompleted' = TRUE
  /\ proxies[p] = "serving" => answer = "serving"
  /\ answer \in {"running", "serving"} /\ proxies' = [proxies EXCEPT ![p] = answer]
  /\ UNCHANGED <<lost, signals, process, server, options, waitingForProxyTermination>>

(* proxyTerminatedLogic *)
ProxyTerminatedOnly(p) ==
  /\ Calls(p)
  /\ proxies' = [proxies EXCEPT ![p] = "stopping"]
  /\ proxyHasTerminated' = TRUE
  /\ UNCHANGED <<lost, signals, process, server, options, discovered, proxySeen,
                 waitingForProxyTermination, devMode>>
ProxyTerminated(p) ==
  /\ Calls(p)
  /\ proxies' = [proxies EXCEPT ![p] = "stopping"]
  /\ proxyHasTerminated' = TRUE
  /\ IF waitingForProxyTermination THEN Terminate ELSE UNCHANGED <<process, server>>
  /\ UNCHANGED <<lost, signals, options, discovered, proxySeen, waitingForProxyTermination,
                 devMode>>

(* A proxy starts when no other is left. *)
ProxyStarts(p) ==
  /\ proxies[p] = "new" /\ \A q \in Proxies : ~ Live(q)
  /\ proxies' = [proxies EXCEPT ![p] = "running"]
  /\ UNCHANGED <<lost, signals, process, server, options, discovered, flags>>

(* A proxy goes, after it said so or without a word. *)
ProxyGoes(p) ==
  /\ Live(p)
  /\ proxies' = [proxies EXCEPT ![p] = "gone"]
  /\ lost' = (lost \/ proxies[p] # "stopping")
  /\ UNCHANGED <<signals, process, server, options, discovered, flags>>

----------------------------------------------------------------------------
(* Properties. *)

(* The process never stops under a proxy that serves: whatever the order   *)
(* of SIGTERM, discoveries by one proxy after another, version probes and  *)
(* terminations, a proxy that was told the components and is not in        *)
(* development mode has said that it stops before the service does.        *)
NeverLeavesProxy ==
  [][process' # process => \A p \in Proxies \ DevProxies : proxies'[p] # "serving"]_serviceVars

(* "no timeout because process will be SIGKILLed anyway": a service that   *)
(* was told to stop does, unless its proxy was lost without a word or the  *)
(* service has shut its own server down and cannot hear the proxy.         *)
StopsWhenTold ==
  signals > 0 ~> process = "exited" \/ lost \/ server \in {"draining", "closed"}
=============================================================================
