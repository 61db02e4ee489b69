------------------------- MODULE IntegrationTestkit -------------------------
(***************************************************************************)
(* A Kalix service under its two owners: a deployment, where the proxy     *)
(* runs beside it on its own, or the integration test kit of               *)
(* testkit/src/integration-testkit.ts, which starts the service, then the  *)
(* container of a proxy, and stops them in the opposite order.  The tests  *)
(* shut the kit down after the callback of its start.                      *)
(***************************************************************************)
EXTENDS KalixService

VARIABLES
  testkit,          (* "absent" in a deployment; "idle"; in asyncStart     *)
                    (* "starting" the service, the "container", "polling"  *)
                    (* for discovery; "ready", "failed"; "closing" while   *)
                    (* the container stops, "draining" and "stopped"       *)
  proxyContainer,   (* this.proxyContainer is set                          *)
  stopFailed        (* the container could not be stopped                  *)

kitVars == <<testkit, proxyContainer, stopFailed>>
vars == <<serviceVars, kitVars>>

TypeOK ==
  /\ ServiceTypeOK
  /\ testkit \in {"absent", "idle", "starting", "container", "polling", "ready", "failed",
                  "closing", "draining", "stopped"}
  /\ proxyContainer \in BOOLEAN /\ stopFailed \in BOOLEAN

Init ==
  /\ ServiceInit
  /\ testkit \in {"absent", "idle"} /\ proxyContainer = FALSE /\ stopFailed = FALSE
  /\ delayDiscoveryUntilProxyPortSet = (testkit = "idle")

Advances(from, to) ==
  /\ process = "up" /\ testkit = from /\ testkit' = to

----------------------------------------------------------------------------
(* The deployment. *)

Deploy == testkit = "absent" /\ Start /\ UNCHANGED kitVars
Shutdown == testkit = "absent" /\ server = "serving" /\ TryShutdown /\ UNCHANGED kitVars
SidecarStarts(p) == testkit = "absent" /\ ProxyStarts(p) /\ UNCHANGED kitVars

----------------------------------------------------------------------------
(* The test kit. *)

(* asyncStart *)
StartKit == Advances("idle", "starting") /\ Start /\ UNCHANGED <<proxyContainer, stopFailed>>

(* The service is bound and the container is asked for; it runs, and may   *)
(* call the service, before its start is known to have succeeded.          *)
StartContainer(p) ==
  /\ Advances("starting", "container") /\ server = "serving"
  /\ ProxyStarts(p)
  /\ UNCHANGED <<proxyContainer, stopFailed>>

StartFails ==
  /\ Advances("starting", "failed") /\ server = "failed"
  /\ UNCHANGED <<serviceVars, proxyContainer, stopFailed>>

(* The container has started: its port and then the container are kept. *)
ContainerStarted ==
  /\ Advances("container", "polling") /\ \E p \in Proxies : Live(p)
  /\ SetProxyPort
  /\ proxyContainer' = TRUE /\ UNCHANGED stopFailed

(* The container does not start, or is gone before it has. *)
ContainerFails ==
  /\ Advances("container", "failed") /\ \A p \in Proxies : ~ Live(p)
  /\ UNCHANGED <<serviceVars, proxyContainer, stopFailed>>

(* The loop sees discoveryCompleted; creating the clients may throw. *)
PollEnds(result) ==
  /\ result \in {"ready", "failed"}
  /\ Advances("polling", result) /\ discoveryCompleted
  /\ UNCHANGED <<serviceVars, proxyContainer, stopFailed>>

(* shutdown: the container is stopped, when there is one. *)
ShutdownKit ==
  /\ testkit \in {"ready", "failed"}
  /\ Advances(testkit, "closing")
  /\ UNCHANGED <<serviceVars, proxyContainer, stopFailed>>

(* The stop of the container has settled, and tryShutdown is called. *)
ContainerStoppedAtOnce(failed) ==
  /\ Advances("closing", "draining")
  /\ failed => proxyContainer
  /\ stopFailed' = failed /\ UNCHANGED proxyContainer
  /\ TryShutdown
ContainerStopped(failed) ==
  /\ Advances("closing", "draining")
  /\ IF failed THEN proxyContainer ELSE proxyContainer => \A p \in Proxies : ~ Live(p)
  /\ stopFailed' = failed /\ UNCHANGED proxyContainer
  /\ TryShutdown

(* The callback of tryShutdown. *)
KitStopped ==
  /\ Advances("draining", "stopped") /\ server = "closed"
  /\ UNCHANGED <<serviceVars, proxyContainer, stopFailed>>

----------------------------------------------------------------------------
Next ==
  \/ Deploy \/ Shutdown \/ StartKit \/ StartFails \/ ContainerStarted \/ ContainerFails
  \/ (\E result \in {"ready", "failed"} : PollEnds(result))
  \/ ShutdownKit \/ (\E failed \in BOOLEAN : ContainerStopped(failed)) \/ KitStopped
  \/ (\E p \in Proxies : SidecarStarts(p) \/ StartContainer(p))
  \/ /\ \/ \E result \in {"serving", "failed"} : Bind(result)
        \/ Drained \/ SigTerm
        \/ \E p \in Proxies :
             \/ Probe(p) \/ ProxyTerminated(p) \/ ProxyGoes(p)
             \/ \E answer \in {"running", "serving"} : Discover(p, answer)
     /\ UNCHANGED kitVars

Spec == Init /\ [][Next]_vars

(* SIGTERM goes to the proxy as well, which then says that it stops, in    *)
(* the end: discovering the service is over, and no new proxy starts.      *)
ProxyObeys(p) == signals > 0 /\ ProxyTerminated(p) /\ UNCHANGED kitVars

FairSpec == Spec /\ \A p \in Proxies : WF_vars(ProxyObeys(p))

----------------------------------------------------------------------------
(* Properties. *)

(* In a test the components are only ever given the port the test kit was  *)
(* told for the container, although the proxy calls discovery before that  *)
(* port is known.                                                          *)
ComponentsKnowPort == testkit # "absent" => preStarted # "told"

(* "ensure that the proxy container is stopped before we shut down         *)
(* ourselves, otherwise it will try to reconnect" (shutdown): from the     *)
(* call of tryShutdown on no proxy is left, unless Docker could not stop   *)
(* it: whether the tests' start succeeded, or failed at any point.         *)
ShutdownAfterProxy ==
  testkit \in {"draining", "stopped"} /\ ~ stopFailed => \A p \in Proxies : ~ Live(p)
=============================================================================
