-------------------------- MODULE ServiceRegistry --------------------------
(***************************************************************************)
(* The life of the service processes and what the others know of it: main  *)
(* of resume-, interview- and search-service, the Consul agent they        *)
(* register with (internal/shared/consul), and the gateway that finds them *)
(* there.                                                                  *)
(*                                                                         *)
(* A process removes the entries an earlier process left at its address,   *)
(* registers, and only then starts to listen; on a signal it closes its    *)
(* ports and only then deregisters.  Each call to Consul is a step of its  *)
(* own, and so is each step of the goroutines main starts.                 *)
(***************************************************************************)
EXTENDS Naturals, Sequences

CONSTANTS
    Processes,     \* runs of a service binary, one instance uuid each
    Addresses,     \* where one service listens: an IP with an HTTP and a gRPC port
    Deployments,   \* the configurations: a service per address, an address per process
    Nobody,        \* no process
    MaxFaults      \* bound: processes killed and Consul calls that fail

Services == {"resume-service", "interview-service", "search-service"}
Protocols == {"http", "grpc"}

ASSUME RegistryAssumption ==
    /\ Deployments \subseteq [service : [Addresses -> Services],
                             address : [Processes -> Addresses]]
    /\ Nobody \notin Processes
    /\ MaxFaults \in Nat

VARIABLES
    deployed,   \* the configuration, fixed for a behaviour
    proc,       \* the state of each process
    port,       \* who has the port of an address and a protocol open
    catalog,    \* Consul: the registered entries
    passing,    \* Consul: the HTTP entries whose last check succeeded
    gw,         \* the request the gateway is serving
    overlapped, \* history: processes of one address that started at the same time
    faults      \* faults so far

vars == <<deployed, proc, port, catalog, passing, gw, overlapped, faults>>

-----------------------------------------------------------------------------
(* Processes.  todo: the endpoints main still has to treat in this phase;  *)
(* stale: what DeregisterEndpointInstances has listed and not yet removed; *)
(* http, grpc: the two servers.                                            *)

Pcs == {"off", "list", "remove", "register", "up", "http.close", "grpc.close",
        "deregister", "exited", "dead"}

ServerStates == {"none", "starting", "serving", "failed", "closed"}

(* The endpoints of a service, in the order main treats them. *)
Endpoints(service) ==
    IF service = "search-service" THEN <<"http">> ELSE <<"http", "grpc">>

AddressOf(p) == deployed.address[p]

ServiceOf(p) == deployed.service[AddressOf(p)]

Neighbours(p) == {q \in Processes \ {p} : AddressOf(q) = AddressOf(p)}

Starting(p)  == proc[p].pc \in {"list", "remove", "register"}
Gone(p)      == proc[p].pc \in {"exited", "dead"}

(* The registration an instance id stands for (EndpointServiceID). *)
Entry == [id : Processes, protocol : Protocols]

PortOf(e) == <<AddressOf(e.id), e.protocol>>

Spend == faults < MaxFaults /\ faults' = faults + 1

(* The ports with what p has open for the protocols closed. *)
ClosePorts(p, protocols) ==
    [q \in DOMAIN port |-> IF port[q] = p /\ q[2] \in protocols THEN Nobody ELSE port[q]]

(* The process ends: the kernel closes what it had open. *)
Exit(p, how) ==
    /\ proc' = [proc EXCEPT ![p] = [pc |-> how, todo |-> << >>, stale |-> {}, grpc |-> "closed",
                                    http |-> IF @.http \in {"serving", "closed"}
                                             THEN "closed" ELSE "none"]]
    /\ port' = ClosePorts(p, Protocols)

(* A mistake TypeOK notices: the state of the check outlives the entry. *)
UnregisterOnly(e) == catalog' = catalog \ {e} /\ UNCHANGED passing

Unregister(e) == catalog' = catalog \ {e} /\ passing' = passing \ {e}

ConsulAlone == UNCHANGED <<catalog, passing>>
Environment == UNCHANGED <<deployed, gw>>
History == UNCHANGED overlapped

-----------------------------------------------------------------------------
(* Start *)

Launch(p) ==
    /\ proc[p].pc = "off"
    /\ proc' = [proc EXCEPT ![p].pc = "list", ![p].todo = Endpoints(ServiceOf(p))]
    /\ overlapped' = overlapped \cup {{p, q} : q \in {q \in Neighbours(p) : Starting(q)}}
    /\ UNCHANGED <<port, faults>>
    /\ ConsulAlone /\ Environment

(* A mistake OnlySuccessorsRemove notices: the address not compared. *)
SameService(p, protocol) ==
    {e \in catalog : e.protocol = protocol /\ ServiceOf(e.id) = ServiceOf(p)}

(* A mistake OneEntryPerEndpoint notices: only what fails its check counts *)
(* as stale.                                                               *)
FailingInstances(p, protocol) ==
    {e \in catalog \ passing : PortOf(e) = <<AddressOf(p), protocol>>}

(* What DeregisterEndpointInstances finds: the instances of this service   *)
(* that are registered with this address and port, failing or not.         *)
StaleInstances(p, protocol) ==
    {e \in catalog : PortOf(e) = <<AddressOf(p), protocol>>}

(* proc[p] once nothing listed is left to remove. *)
NextEndpoint(p) ==
    IF Len(proc[p].todo) > 1
    THEN [proc[p] EXCEPT !.pc = "list", !.stale = {}, !.todo = Tail(proc[p].todo)]
    ELSE [proc[p] EXCEPT !.pc = "register", !.stale = {}, !.todo = Endpoints(ServiceOf(p))]

ListInstances(p) ==
    /\ proc[p].pc = "list"
    /\ LET stale == StaleInstances(p, Head(proc[p].todo))
       IN  proc' = [proc EXCEPT ![p] = IF stale = {} THEN NextEndpoint(p)
                                       ELSE [proc[p] EXCEPT !.pc = "remove", !.stale = stale]]
    /\ UNCHANGED <<port, faults>>
    /\ ConsulAlone /\ Environment /\ History

RemoveInstance(p) ==
    /\ proc[p].pc = "remove"
    /\ \E e \in proc[p].stale :
         LET rest == proc[p].stale \ {e}
         IN  /\ Unregister(e)
             /\ proc' = [proc EXCEPT ![p] = IF rest = {} THEN NextEndpoint(p)
                                            ELSE [proc[p] EXCEPT !.stale = rest]]
    /\ UNCHANGED <<port, faults>>
    /\ Environment /\ History

(* Consul may call it an error to deregister what another process has      *)
(* deregistered meanwhile: log.Fatalf.                                     *)
RemoveFails(p) ==
    /\ proc[p].pc = "remove"
    /\ ~ proc[p].stale \subseteq catalog
    /\ Exit(p, "dead")
    /\ UNCHANGED faults
    /\ ConsulAlone /\ Environment /\ History

(* A call to Consul fails during the start: log.Fatalf, and what is done   *)
(* stays done.  A crash at this point looks the same.                      *)
StartFails(p) ==
    /\ Starting(p)
    /\ Spend
    /\ Exit(p, "dead")
    /\ ConsulAlone /\ Environment /\ History

(* The check of a new entry has not run yet, which counts as failing.      *)
(* After the last endpoint main starts the two servers as goroutines.      *)
RegisterService(p) ==
    /\ proc[p].pc = "register"
    /\ catalog' = catalog \cup {[id |-> p, protocol |-> Head(proc[p].todo)]}
    /\ proc' = [proc EXCEPT ![p] =
                  IF Len(proc[p].todo) > 1 THEN [proc[p] EXCEPT !.todo = Tail(proc[p].todo)]
                  ELSE [proc[p] EXCEPT !.pc = "up", !.todo = << >>, !.http = "starting",
                                       !.grpc = IF ServiceOf(p) = "search-service"
                                                THEN "none" ELSE "starting"]]
    /\ UNCHANGED <<port, passing, faults>>
    /\ Environment /\ History

-----------------------------------------------------------------------------
(* The two servers *)

Free(p, protocol) == port[<<AddressOf(p), protocol>>] = Nobody

Open(p, protocol) == port' = [port EXCEPT ![<<AddressOf(p), protocol>>] = p]

(* ListenAndServe; a port already in use ends the process. *)
ListenHTTP(p) ==
    /\ proc[p].http = "starting" /\ ~Gone(p)
    /\ \/ /\ Free(p, "http")
          /\ Open(p, "http")
          /\ proc' = [proc EXCEPT ![p].http = "serving"]
       \/ /\ ~Free(p, "http")
          /\ Exit(p, "dead")
    /\ UNCHANGED faults
    /\ ConsulAlone /\ Environment /\ History

(* net.Listen of the gRPC goroutine.  A port in use ends resume-service;   *)
(* interview-service goes on without gRPC.                                 *)
ListenGRPC(p) ==
    /\ proc[p].grpc = "starting" /\ ~Gone(p)
    /\ \/ /\ Free(p, "grpc")
          /\ Open(p, "grpc")
          /\ proc' = [proc EXCEPT ![p].grpc = "serving"]
       \/ /\ ~Free(p, "grpc")
          /\ IF ServiceOf(p) = "interview-service"
             THEN proc' = [proc EXCEPT ![p].grpc = "failed"] /\ UNCHANGED port
             ELSE Exit(p, "dead")
    /\ UNCHANGED faults
    /\ ConsulAlone /\ Environment /\ History

-----------------------------------------------------------------------------
(* Shutdown *)

(* Before main waits for it a signal kills the process: see Kill. *)
Signal(p) ==
    /\ proc[p].pc = "up"
    /\ proc' = [proc EXCEPT ![p].pc = "http.close"]
    /\ UNCHANGED <<port, faults>>
    /\ ConsulAlone /\ Environment /\ History

(* httpSrv.Shutdown: five seconds for the running handlers, no new ones.   *)
(* ListenAndServe returns at once if it comes later.  search-service has   *)
(* no gRPC server to close.                                                *)
CloseHTTP(p) ==
    /\ proc[p].pc = "http.close"
    /\ proc' = [proc EXCEPT ![p].pc = "grpc.close",
                            ![p].http = IF @ = "serving" THEN "closed" ELSE "failed"]
    /\ port' = ClosePorts(p, {"http"})
    /\ UNCHANGED faults
    /\ ConsulAlone /\ Environment /\ History

(* A mistake LeavesNothing notices: the HTTP entry only. *)
ToDeregisterHTTP(service) == <<"http">>

ToDeregister(service) == Endpoints(service)

(* GracefulStop: no new calls, and a wait for the running ones, which end. *)
(* grpcSrv is assigned by the goroutine of the server, and nothing orders  *)
(* that and this read: main may find nil and go on, with the server up or  *)
(* about to come up.                                                       *)
CloseGRPC(p) ==
    /\ proc[p].pc = "grpc.close"
    /\ \/ /\ proc[p].grpc = "serving"
          /\ proc' = [proc EXCEPT ![p].pc = "deregister", ![p].grpc = "closed",
                                  ![p].todo = ToDeregister(ServiceOf(p))]
          /\ port' = ClosePorts(p, {"grpc"})
       \/ /\ proc' = [proc EXCEPT ![p].pc = "deregister", ![p].todo = ToDeregister(ServiceOf(p))]
          /\ UNCHANGED port
    /\ UNCHANGED faults
    /\ ConsulAlone /\ Environment /\ History

(* The error of a failed call is logged and main goes on; after the last   *)
(* endpoint it returns, and with it the process.                           *)
Deregister(p) ==
    /\ proc[p].pc = "deregister"
    /\ \/ Unregister([id |-> p, protocol |-> Head(proc[p].todo)]) /\ UNCHANGED faults
       \/ Spend /\ ConsulAlone
    /\ IF Len(proc[p].todo) > 1
       THEN proc' = [proc EXCEPT ![p].todo = Tail(@)] /\ UNCHANGED port
       ELSE Exit(p, "exited")
    /\ Environment /\ History

Kill(p) ==
    /\ proc[p].pc \notin {"off", "exited", "dead"} /\ ~Starting(p)
    /\ Spend
    /\ Exit(p, "dead")
    /\ ConsulAlone /\ Environment /\ History

-----------------------------------------------------------------------------
(* The Consul agent *)

(* A mistake Served notices: a registration without a check always passes. *)
CheckedNever(e) == TRUE

(* The TCP check of an entry connects to its address and port. *)
Checked(e) == port[PortOf(e)] # Nobody

(* The check of an entry, every five seconds, when it changes its state.   *)
(* Nobody asks for the state of a gRPC entry.                              *)
Check(e) ==
    /\ e \in catalog /\ e.protocol = "http"
    /\ \/ Checked(e) /\ e \notin passing /\ passing' = passing \cup {e}
       \/ ~Checked(e) /\ e \in passing /\ passing' = passing \ {e}
    /\ UNCHANGED <<proc, port, catalog, faults>>
    /\ Environment /\ History

(* The servers of an instance are not up yet. *)
ComingUp(p) ==
    Starting(p) \/ (~Gone(p) /\ "starting" \in {proc[p].http, proc[p].grpc})

(* A mistake StaleEntriesGo notices: no DeregisterCriticalServiceAfter. *)
ReapableNever(e) == FALSE

(* Thirty seconds of failing checks.  While the port is open, or is about  *)
(* to be, they are not reached: the servers come up within seconds.        *)
Reapable(e) == e \in catalog \ passing /\ port[PortOf(e)] = Nobody /\ ~ComingUp(e.id)

Reap(e) ==
    /\ Reapable(e)
    /\ Unregister(e)
    /\ UNCHANGED <<proc, port, faults>>
    /\ Environment /\ History

-----------------------------------------------------------------------------
(* The gateway.  A path is the sequence of its segments after /api/v1, ids *)
(* written "id"; a longer word with the same beginning as a prefix routes  *)
(* alike and belongs to no service.                                        *)

Route(prefix, nested, service) == [prefix |-> prefix, nested |-> nested, service |-> service]

(* A mistake AnsweredByOwner notices: the general prefix first. *)
routeTargetsUnordered ==
    << Route("resumes", FALSE, "resume-service"),
       Route("resumes", TRUE, "interview-service"),
       Route("interviews", FALSE, "interview-service"),
       Route("portfolios", FALSE, "interview-service"),
       Route("search", FALSE, "search-service") >>

(* nested: the target of "/resumes/" is meant for what lies below a resume *)
(* and is taken only when the path names interviews or portfolios.         *)
routeTargets ==
    << Route("resumes", TRUE, "interview-service"),
       Route("resumes", FALSE, "resume-service"),
       Route("interviews", FALSE, "interview-service"),
       Route("portfolios", FALSE, "interview-service"),
       Route("search", FALSE, "search-service") >>

Applies(route, path) ==
    /\ Head(path) = route.prefix
    /\ route.nested => \E i \in 2..Len(path) : path[i] \in {"interviews", "portfolios"}

(* The service of the first target that applies. *)
resolveRouteTarget(path) ==
    LET applies == {i \in DOMAIN routeTargets : Applies(routeTargets[i], path)}
    IN  routeTargets[CHOOSE i \in applies : \A j \in applies : i <= j].service

(* The paths in the router of each service. *)
ResumeRoutes ==
    {<<"resumes">>, <<"resumes", "upload">>, <<"resumes", "id">>,
     <<"resumes", "id", "status">>, <<"resumes", "id", "file">>, <<"resumes", "id", "parse">>}

InterviewRoutes ==
    {<<"interviews">>, <<"interviews", "id">>, <<"interviews", "id", "status">>,
     <<"interviews", "id", "feedback">>, <<"resumes", "id", "interviews">>,
     <<"resumes", "id", "portfolios">>, <<"portfolios", "id">>}

SearchRoutes == {<<"search">>, <<"search", "advanced">>}

RoutesOf(service) ==
    CASE service = "resume-service"    -> ResumeRoutes
      [] service = "interview-service" -> InterviewRoutes
      [] service = "search-service"    -> SearchRoutes

(* owner: the service whose router has the path; to: the service the       *)
(* gateway has chosen; address: the instance it has found.                 *)
Request == [pc : {"idle", "resolved", "failed"}, owner : Services, to : Services,
            address : Addresses \cup {Nobody}]

NoRequest == [pc |-> "idle", owner |-> "search-service", to |-> "search-service",
              address |-> Nobody]

GatewayAlone == UNCHANGED <<deployed, proc, port, catalog, passing, overlapped, faults>>

(* A mistake ForwardsToProven notices: Health().Service without passingOnly. *)
CandidatesUnchecked(service) ==
    {e \in catalog : e.protocol = "http" /\ ServiceOf(e.id) = service}

(* The instances resolve may take; it takes the first Consul lists. *)
Candidates(service) ==
    {e \in passing : e.protocol = "http" /\ ServiceOf(e.id) = service}

(* The choice of the target and of an instance of it, or a 502. *)
Resolve(owner, to) ==
    \/ \E e \in Candidates(to) :
         gw' = [pc |-> "resolved", owner |-> owner, to |-> to, address |-> AddressOf(e.id)]
    \/ /\ Candidates(to) = {}
       /\ gw' = [pc |-> "failed", owner |-> owner, to |-> to, address |-> Nobody]

(* A request arrives for a path of a deployed service. *)
Ask ==
    /\ gw.pc = "idle"
    /\ \E a \in Addresses : \E path \in RoutesOf(deployed.service[a]) :
         Resolve(deployed.service[a], resolveRouteTarget(path))
    /\ GatewayAlone

(* The one attempt to reach the instance found.  A closed port is a 502,   *)
(* and so is an open one when the handler takes more than thirty seconds   *)
(* or the connection is reset.                                             *)
Forward ==
    /\ gw.pc = "resolved"
    /\ \/ port[<<gw.address, "http">>] # Nobody /\ gw' = NoRequest
       \/ gw' = [gw EXCEPT !.pc = "failed", !.address = Nobody]
    /\ GatewayAlone

(* The client asks again. *)
Retry ==
    /\ gw.pc = "failed"
    /\ Resolve(gw.owner, gw.to)
    /\ GatewayAlone

-----------------------------------------------------------------------------
Init ==
    /\ deployed \in Deployments
    /\ proc = [p \in Processes |-> [pc |-> "off", todo |-> << >>, stale |-> {},
                                    http |-> "none", grpc |-> "none"]]
    /\ port = [q \in Addresses \X Protocols |-> Nobody]
    /\ catalog = {}
    /\ passing = {}
    /\ gw = NoRequest
    /\ overlapped = {}
    /\ faults = 0

(* What main and its goroutines do by themselves once launched. *)
MainStep(p) ==
    \/ ListInstances(p) \/ RemoveInstance(p) \/ RemoveFails(p) \/ RegisterService(p)
    \/ ListenHTTP(p) \/ ListenGRPC(p)
    \/ CloseHTTP(p) \/ CloseGRPC(p) \/ Deregister(p)

ConsulStep(e) == Check(e) \/ Reap(e)

GatewayStep == Forward \/ Retry

Next ==
    \/ \E p \in Processes :
         \/ Launch(p) \/ MainStep(p)
         \/ Signal(p) \/ StartFails(p) \/ Kill(p)
    \/ \E e \in Entry : ConsulStep(e)
    \/ Ask \/ GatewayStep

Spec == Init /\ [][Next]_vars

(* Calls return, goroutines are scheduled and handlers end, Consul checks  *)
(* and reaps: some such step is taken while one can be.  They are fair to  *)
(* each other without being asked to, because each process runs once and   *)
(* only so many of them are possible.  A client that got an error asks     *)
(* again.                                                                  *)
RegistryFairness ==
    /\ WF_vars((\E p \in Processes : MainStep(p)) \/ (\E e \in Entry : ConsulStep(e)))
    /\ WF_vars(GatewayStep)

FairSpec == Spec /\ RegistryFairness

-----------------------------------------------------------------------------
(* Properties *)

(* Every variable has its type, and only registered entries pass checks. *)
TypeOK ==
    /\ deployed \in Deployments
    /\ proc \in [Processes -> [pc : Pcs, todo : Seq(Protocols), stale : SUBSET Entry,
                               http : ServerStates, grpc : ServerStates]]
    /\ port \in [Addresses \X Protocols -> Processes \cup {Nobody}]
    /\ catalog \subseteq Entry
    /\ passing \subseteq {e \in catalog : e.protocol = "http"}
    /\ gw \in Request
    /\ overlapped \subseteq SUBSET Processes
    /\ faults \in 0..MaxFaults

(* While a process has its port open its entry is taken from Consul by the *)
(* process itself, or by the start of another one at its address, and by   *)
(* nobody else.                                                            *)
OnlySuccessorsRemove ==
    [][\A e \in catalog \ catalog' :
         \/ port[PortOf(e)] = Nobody
         \/ proc[e.id].pc = "deregister"
         \/ \E q \in Neighbours(e.id) : proc[q].pc = "remove"]_vars

(* "The old instances with the same name, address and port are removed     *)
(* before the new one is registered": an endpoint has two entries only if  *)
(* the two processes started at the same time.                             *)
OneEntryPerEndpoint ==
    \A e1, e2 \in catalog :
        PortOf(e1) = PortOf(e2) /\ e1.id # e2.id => {e1.id, e2.id} \in overlapped

(* Processes register before they listen, and yet no request is forwarded  *)
(* to a port that has never been open.                                     *)
ForwardsToProven ==
    gw.pc = "resolved" =>
        \E p \in Processes : AddressOf(p) = gw.address /\ proc[p].http \in {"serving", "closed"}

(* A request that is answered reached the service whose router has its     *)
(* path.                                                                   *)
AnsweredByOwner ==
    [][gw.pc = "resolved" /\ gw'.pc = "idle" => deployed.service[gw.address] = gw.owner]_vars

(* What dead processes leave behind goes away, unless another process      *)
(* listens in their place: there is always a later state without any.      *)
StaleEntriesGo ==
    []<>(\A e \in catalog : Gone(e.id) => port[PortOf(e)] # Nobody)

(* An orderly shutdown leaves nothing in Consul. *)
LeavesNothing ==
    faults = 0 => \A e \in catalog : proc[e.id].pc # "exited"

(* An open HTTP port with an entry that leads to it. *)
Reachable(service) ==
    \E e \in catalog :
        e.protocol = "http" /\ ServiceOf(e.id) = service /\ port[PortOf(e)] # Nobody

(* The request is about to be sent to an open port of its service. *)
Led ==
    /\ gw.pc = "resolved" /\ deployed.service[gw.address] = gw.owner
    /\ port[<<gw.address, "http">>] # Nobody

(* A client that asks again is led, again and again until it is answered,  *)
(* to a process that listens, whatever entries of dead processes there     *)
(* are, as long as the service stays reachable.  Whether the handler       *)
(* answers within the thirty seconds of the gateway is not said.           *)
Served == []<>(gw.pc = "idle" \/ Led \/ ~Reachable(gw.owner))

=============================================================================
