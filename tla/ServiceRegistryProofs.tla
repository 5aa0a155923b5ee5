----------------------- MODULE ServiceRegistryProofs -----------------------
(***************************************************************************)
(* What holds of the registry and the gateway for every number of          *)
(* processes, addresses and faults.                                        *)
(***************************************************************************)
EXTENDS ServiceRegistry, SequenceTheorems, TLAPS

(* The state of a process, and what typing leaves open: there is an        *)
(* endpoint to treat in the phases that treat one.                         *)
Process == [pc : Pcs, todo : Seq(Protocols), stale : SUBSET Entry,
            http : ServerStates, grpc : ServerStates]

Treats(p) == proc[p].pc \in {"list", "remove", "register", "deregister"}

Proceeds ==
    /\ proc \in [Processes -> Process]
    /\ \A p \in Processes : Treats(p) => proc[p].todo # << >>

TInv == TypeOK /\ Proceeds

-----------------------------------------------------------------------------
(* The helpers *)

LEMMA EndpointsOf ==
    ASSUME NEW service \in Services
    PROVE  /\ Endpoints(service) \in Seq(Protocols)
           /\ Endpoints(service) # << >>
<1>1. <<"http">> \in Seq(Protocols) /\ <<"http", "grpc">> \in Seq(Protocols)
  BY DEF Protocols
<1> QED BY <1>1 DEF Endpoints

LEMMA Tailed ==
    ASSUME NEW s \in Seq(Protocols), Len(s) > 1
    PROVE  s # << >> /\ Tail(s) # << >> /\ Tail(s) \in Seq(Protocols)
<1>1. \A t \in Seq(Protocols) : Len(t) > 0 => t # << >>
  BY EmptySeq
<1>2. s # << >>
  BY <1>1
<1>3. Tail(s) \in Seq(Protocols) /\ Len(Tail(s)) = Len(s) - 1
  BY <1>2, HeadTailProperties
<1>4. \A t \in Seq(Protocols) : Len(t) = Len(s) - 1 => t # << >>
  BY <1>1
<1> QED BY <1>2, <1>3, <1>4

LEMMA Deployed ==
    ASSUME RegistryAssumption, TypeOK, NEW p \in Processes
    PROVE  AddressOf(p) \in Addresses /\ ServiceOf(p) \in Services
BY DEF RegistryAssumption, TypeOK, AddressOf, ServiceOf

LEMMA Ports ==
    ASSUME RegistryAssumption, TypeOK, NEW e \in Entry
    PROVE  PortOf(e) \in Addresses \X Protocols
BY Deployed DEF PortOf, Entry

LEMMA Closing ==
    ASSUME RegistryAssumption, TypeOK, NEW p \in Processes, NEW protocols
    PROVE  ClosePorts(p, protocols) \in [Addresses \X Protocols -> Processes \cup {Nobody}]
BY DEF TypeOK, ClosePorts

LEMMA NextEndpointType ==
    ASSUME RegistryAssumption, TypeOK, NEW p \in Processes
    PROVE  /\ NextEndpoint(p) \in Process
           /\ NextEndpoint(p).todo # << >>
<1>1. proc[p] \in Process /\ ServiceOf(p) \in Services
  BY Deployed DEF TypeOK, Process
<1> QED BY <1>1, Tailed, EndpointsOf DEF NextEndpoint, Process, Pcs

LEMMA Ended ==
    ASSUME RegistryAssumption, TInv, NEW p \in Processes, NEW how \in {"exited", "dead"}, Exit(p, how)
    PROVE  /\ Proceeds'
           /\ port' \in [Addresses \X Protocols -> Processes \cup {Nobody}]
           /\ proc'[p].pc = how /\ proc'[p].stale = {} /\ proc'[p].todo = << >>
           /\ \A q \in Processes \ {p} : proc'[q] = proc[q]
<1>1. proc \in [Processes -> Process]
  BY DEF TInv, Proceeds
<1>2. proc'[p] = [pc |-> how, todo |-> << >>, stale |-> {}, grpc |-> "closed",
                  http |-> IF proc[p].http \in {"serving", "closed"} THEN "closed" ELSE "none"]
  BY <1>1 DEF Exit
<1>3. << >> \in Seq(Protocols)
  OBVIOUS
<1>4. proc'[p] \in Process /\ proc' = [proc EXCEPT ![p] = proc'[p]]
  BY <1>1, <1>2, <1>3 DEF Exit, Process, Pcs, ServerStates
<1>5. Proceeds'
  <2>1. \A q \in Processes : Treats(q) => proc[q].todo # << >>
    BY DEF TInv, Proceeds
  <2>2. proc' \in [Processes -> Process]
    BY <1>1, <1>4
  <2>3. \A q \in Processes : proc'[q] = IF q = p THEN proc'[p] ELSE proc[q]
    BY <1>1, <1>4
  <2>4. proc'[p].pc = how
    BY <1>2
  <2> QED BY <2>1, <2>2, <2>3, <2>4 DEF Proceeds, Treats
<1>6. port' \in [Addresses \X Protocols -> Processes \cup {Nobody}]
  BY Closing DEF Exit, TInv
<1> QED BY <1>1, <1>2, <1>4, <1>5, <1>6

-----------------------------------------------------------------------------
(* The routes *)

(* Every path in the router of a service is sent to this service. *)
THEOREM RoutedToOwner ==
    ASSUME NEW service \in Services, NEW path \in RoutesOf(service)
    PROVE  resolveRouteTarget(path) = service
<1> DEFINE applies == {i \in DOMAIN routeTargets : Applies(routeTargets[i], path)}
           first == CHOOSE i \in applies : \A j \in applies : i <= j
<1>1. /\ DOMAIN routeTargets = 1..5
      /\ routeTargets[1] = Route("resumes", TRUE, "interview-service")
      /\ routeTargets[2] = Route("resumes", FALSE, "resume-service")
      /\ routeTargets[3] = Route("interviews", FALSE, "interview-service")
      /\ routeTargets[4] = Route("portfolios", FALSE, "interview-service")
      /\ routeTargets[5] = Route("search", FALSE, "search-service")
  BY DEF routeTargets
<1>2. ASSUME NEW n \in applies, \A j \in applies : n <= j
      PROVE  resolveRouteTarget(path) = routeTargets[n].service
  <2>1. first \in applies /\ \A j \in applies : first <= j
    BY <1>2
  <2>2. first = n
    BY <1>1, <1>2, <2>1
  <2> QED BY <2>2 DEF resolveRouteTarget
<1>3. CASE service = "resume-service"
  <2>1. /\ Head(path) = "resumes"
        /\ \A i \in 2..Len(path) : path[i] \notin {"interviews", "portfolios"}
    BY <1>3 DEF RoutesOf, ResumeRoutes
  <2>2. 2 \in applies /\ \A j \in applies : 2 <= j
    BY <1>1, <2>1 DEF Applies, Route
  <2> QED BY <1>1, <1>2, <1>3, <2>2 DEF Route
<1>4. CASE service = "interview-service"
  <2>1. \/ /\ Head(path) = "resumes"
           /\ \E i \in 2..Len(path) : path[i] \in {"interviews", "portfolios"}
        \/ Head(path) \in {"interviews", "portfolios"}
    <3>1. CASE path = <<"resumes", "id", "interviews">>
      BY <3>1
    <3>2. CASE path = <<"resumes", "id", "portfolios">>
      BY <3>2
    <3> QED BY <1>4, <3>1, <3>2 DEF RoutesOf, InterviewRoutes
  <2>2. \E n \in {1, 3, 4} : n \in applies /\ \A j \in applies : n <= j
    BY <1>1, <2>1 DEF Applies, Route
  <2> QED BY <1>1, <1>2, <1>4, <2>2 DEF Route
<1>5. CASE service = "search-service"
  <2>1. Head(path) = "search"
    BY <1>5 DEF RoutesOf, SearchRoutes
  <2>2. 5 \in applies /\ \A j \in applies : 5 <= j
    BY <1>1, <2>1 DEF Applies, Route
  <2> QED BY <1>1, <1>2, <1>5, <2>2 DEF Route
<1> QED BY <1>3, <1>4, <1>5 DEF Services

-----------------------------------------------------------------------------
(* Types *)

LEMMA InitType == RegistryAssumption /\ Init => TInv
<1> SUFFICES ASSUME RegistryAssumption, Init PROVE TInv
  OBVIOUS
<1>1. NoRequest \in Request
  BY DEF NoRequest, Request, Services
<1>2. << >> \in Seq(Protocols)
  OBVIOUS
<1> QED BY <1>1, <1>2 DEF Init, TInv, TypeOK, Proceeds, Process, Treats, Pcs, ServerStates, RegistryAssumption

LEMMA ResolveType ==
    ASSUME RegistryAssumption, TypeOK, NEW owner \in Services, NEW to \in Services,
           Resolve(owner, to)
    PROVE  gw' \in Request
<1>1. ASSUME NEW e \in Candidates(to),
             gw' = [pc |-> "resolved", owner |-> owner, to |-> to, address |-> AddressOf(e.id)]
      PROVE  gw' \in Request
  <2>1. e.id \in Processes
    BY <1>1 DEF Candidates, TypeOK, Entry
  <2> QED BY <1>1, <2>1, Deployed DEF Request
<1>2. ASSUME gw' = [pc |-> "failed", owner |-> owner, to |-> to, address |-> Nobody]
      PROVE  gw' \in Request
  BY <1>2 DEF Request
<1> QED BY <1>1, <1>2 DEF Resolve

(* A step of one process that leaves it in a state of its type. *)
LEMMA Moved ==
    ASSUME Proceeds, NEW p \in Processes, NEW s \in Process,
           s.pc \in {"list", "remove", "register", "deregister"} => s.todo # << >>,
           proc' = [proc EXCEPT ![p] = s]
    PROVE  Proceeds'
BY DEF Proceeds, Treats

LEMMA NextType ==
    ASSUME RegistryAssumption, TInv, [Next]_vars
    PROVE  TInv'
<1>a. TypeOK /\ Proceeds
  BY DEF TInv
<1>b. \A p \in Processes : /\ proc[p] \in Process
                           /\ Treats(p) => proc[p].todo # << >>
  BY <1>a DEF Proceeds
<1>c. /\ deployed \in Deployments
      /\ port \in [Addresses \X Protocols -> Processes \cup {Nobody}]
      /\ catalog \subseteq Entry
      /\ passing \subseteq {e \in catalog : e.protocol = "http"}
      /\ gw \in Request
      /\ overlapped \subseteq SUBSET Processes
      /\ faults \in 0..MaxFaults
  BY <1>a DEF TypeOK
<1>d. ASSUME Proceeds',
             /\ deployed' \in Deployments
             /\ port' \in [Addresses \X Protocols -> Processes \cup {Nobody}]
             /\ catalog' \subseteq Entry
             /\ passing' \subseteq {e \in catalog' : e.protocol = "http"}
             /\ gw' \in Request
             /\ overlapped' \subseteq SUBSET Processes
             /\ faults' \in 0..MaxFaults
      PROVE  TInv'
  BY <1>d DEF TInv, TypeOK, Proceeds, Process
<1>e. ASSUME UNCHANGED proc PROVE Proceeds'
  BY <1>a, <1>e DEF Proceeds, Treats
<1>1. ASSUME NEW p \in Processes, Launch(p) PROVE TInv'
  <2> DEFINE s == [proc[p] EXCEPT !.pc = "list", !.todo = Endpoints(ServiceOf(p))]
  <2>1. s \in Process /\ s.todo # << >>
    BY <1>a, <1>b, Deployed, EndpointsOf DEF Process, Pcs
  <2>2. proc' = [proc EXCEPT ![p] = s]
    BY <1>1 DEF Launch
  <2>3. Proceeds'
    BY <1>a, <2>1, <2>2, Moved
  <2>4. overlapped' \subseteq SUBSET Processes
    BY <1>1, <1>c DEF Launch, Neighbours
  <2> QED BY <1>1, <1>c, <1>d, <2>3, <2>4 DEF Launch, ConsulAlone, Environment
<1>2. ASSUME NEW p \in Processes, ListInstances(p) PROVE TInv'
  <2> DEFINE stale == StaleInstances(p, Head(proc[p].todo))
  <2> DEFINE s == IF stale = {} THEN NextEndpoint(p)
                  ELSE [proc[p] EXCEPT !.pc = "remove", !.stale = stale]
  <2>1. stale \subseteq Entry
    BY <1>c DEF StaleInstances
  <2>2. [proc[p] EXCEPT !.pc = "remove", !.stale = stale] \in Process
    BY <1>b, <2>1 DEF Process, Pcs
  <2>3. proc[p].todo # << >>
    BY <1>2, <1>b DEF ListInstances, Treats
  <2>4. [proc[p] EXCEPT !.pc = "remove", !.stale = stale].todo # << >>
    BY <1>b, <2>3 DEF Process
  <2>5. s \in Process /\ s.todo # << >>
    BY <1>a, <2>2, <2>4, NextEndpointType
  <2>6. proc' = [proc EXCEPT ![p] = s]
    BY <1>2 DEF ListInstances
  <2>7. Proceeds'
    BY <1>a, <2>5, <2>6, Moved
  <2> QED BY <1>2, <1>c, <1>d, <2>7 DEF ListInstances, ConsulAlone, Environment, History
<1>3. ASSUME NEW p \in Processes, RemoveInstance(p) PROVE TInv'
  <2>1. PICK e \in proc[p].stale :
          LET rest == proc[p].stale \ {e}
          IN  /\ Unregister(e)
              /\ proc' = [proc EXCEPT ![p] = IF rest = {} THEN NextEndpoint(p)
                                             ELSE [proc[p] EXCEPT !.stale = rest]]
    BY <1>3 DEF RemoveInstance
  <2> DEFINE t == [proc[p] EXCEPT !.stale = @ \ {e}]
  <2> DEFINE s == IF proc[p].stale \ {e} = {} THEN NextEndpoint(p) ELSE t
  <2>2. t \in Process /\ t.todo # << >>
    BY <1>3, <1>b DEF RemoveInstance, Treats, Process
  <2>3. s \in Process /\ s.todo # << >>
    BY <1>a, <2>2, NextEndpointType
  <2>4. proc' = [proc EXCEPT ![p] = s]
    BY <1>b, <2>1 DEF Process
  <2>5. Proceeds'
    BY <1>a, <2>3, <2>4, Moved
  <2> QED BY <1>3, <1>c, <1>d, <2>1, <2>5 DEF RemoveInstance, Unregister, Environment, History
<1>4. ASSUME NEW p \in Processes, RemoveFails(p) \/ StartFails(p) \/ Kill(p) PROVE TInv'
  <2>1. Exit(p, "dead")
    BY <1>4 DEF RemoveFails, StartFails, Kill
  <2>2. faults' \in 0..MaxFaults
    BY <1>4, <1>c DEF RemoveFails, StartFails, Kill, Spend, RegistryAssumption
  <2>3. port' \in [Addresses \X Protocols -> Processes \cup {Nobody}] /\ Proceeds'
    BY <2>1, Ended
  <2> QED BY <1>4, <1>c, <1>d, <2>2, <2>3
        DEF RemoveFails, StartFails, Kill, ConsulAlone, Environment, History
<1>5. ASSUME NEW p \in Processes, RegisterService(p) PROVE TInv'
  <2> DEFINE s == IF Len(proc[p].todo) > 1 THEN [proc[p] EXCEPT !.todo = Tail(@)]
                  ELSE [proc[p] EXCEPT !.pc = "up", !.todo = << >>, !.http = "starting",
                                       !.grpc = IF ServiceOf(p) = "search-service"
                                                THEN "none" ELSE "starting"]
  <2>1. proc[p].todo # << >> /\ proc[p].todo \in Seq(Protocols)
    BY <1>5, <1>b DEF RegisterService, Treats, Process
  <2>2. [id |-> p, protocol |-> Head(proc[p].todo)] \in Entry
    BY <2>1, HeadTailProperties DEF Entry
  <2>3. << >> \in Seq(Protocols)
    OBVIOUS
  <2>4. s \in Process
    BY <1>b, <2>1, <2>3, Tailed DEF Process, Pcs, ServerStates
  <2>5. s.pc \in {"list", "remove", "register", "deregister"} => s.todo # << >>
    BY <1>b, <2>1, Tailed DEF Process
  <2>6. proc' = [proc EXCEPT ![p] = s]
    BY <1>5, <1>b DEF RegisterService
  <2>7. Proceeds'
    BY <1>a, <2>4, <2>5, <2>6, Moved
  <2> QED BY <1>5, <1>c, <1>d, <2>2, <2>7 DEF RegisterService, Environment, History
<1>6. ASSUME NEW p \in Processes, ListenHTTP(p) PROVE TInv'
  <2>1. CASE Exit(p, "dead")
    BY <1>6, <1>a, <1>c, <1>d, <2>1, Ended DEF ListenHTTP, ConsulAlone, Environment, History
  <2>2. CASE Open(p, "http") /\ proc' = [proc EXCEPT ![p].http = "serving"]
    <3> DEFINE s == [proc[p] EXCEPT !.http = "serving"]
    <3>1. port' \in [Addresses \X Protocols -> Processes \cup {Nobody}]
      BY <1>a, <1>c, <2>2, Deployed DEF Open, Protocols
    <3>2. s \in Process /\ s.pc = proc[p].pc /\ s.todo = proc[p].todo
      BY <1>b DEF Process, ServerStates
    <3>3. proc' = [proc EXCEPT ![p] = s]
      BY <2>2
    <3>4. Proceeds'
      BY <1>a, <1>b, <3>2, <3>3, Moved DEF Treats
    <3> QED BY <1>6, <1>c, <1>d, <3>1, <3>4 DEF ListenHTTP, ConsulAlone, Environment, History
  <2> QED BY <1>6, <2>1, <2>2 DEF ListenHTTP
<1>7. ASSUME NEW p \in Processes, ListenGRPC(p) PROVE TInv'
  <2>1. CASE Exit(p, "dead")
    BY <1>7, <1>a, <1>c, <1>d, <2>1, Ended DEF ListenGRPC, ConsulAlone, Environment, History
  <2>2. ASSUME NEW how \in {"serving", "failed"},
               Open(p, "grpc") \/ UNCHANGED port, proc' = [proc EXCEPT ![p].grpc = how]
        PROVE  TInv'
    <3> DEFINE s == [proc[p] EXCEPT !.grpc = how]
    <3>1. port' \in [Addresses \X Protocols -> Processes \cup {Nobody}]
      BY <1>a, <1>c, <2>2, Deployed DEF Open, Protocols
    <3>2. s \in Process /\ s.pc = proc[p].pc /\ s.todo = proc[p].todo
      BY <1>b DEF Process, ServerStates
    <3>3. proc' = [proc EXCEPT ![p] = s]
      BY <2>2
    <3>4. Proceeds'
      BY <1>a, <1>b, <3>2, <3>3, Moved DEF Treats
    <3> QED BY <1>7, <1>c, <1>d, <3>1, <3>4 DEF ListenGRPC, ConsulAlone, Environment, History
  <2> QED BY <1>7, <2>1, <2>2 DEF ListenGRPC
<1>8. ASSUME NEW p \in Processes, Signal(p) PROVE TInv'
  <2> DEFINE s == [proc[p] EXCEPT !.pc = "http.close"]
  <2>1. s \in Process /\ s.pc = "http.close" /\ proc' = [proc EXCEPT ![p] = s]
    BY <1>8, <1>b DEF Signal, Process, Pcs
  <2>2. Proceeds'
    BY <1>a, <2>1, Moved
  <2> QED BY <1>8, <1>c, <1>d, <2>2 DEF Signal, ConsulAlone, Environment, History
<1>9. ASSUME NEW p \in Processes, CloseHTTP(p) PROVE TInv'
  <2> DEFINE s == [proc[p] EXCEPT !.pc = "grpc.close",
                                  !.http = IF @ = "serving" THEN "closed" ELSE "failed"]
  <2>1. s \in Process /\ s.pc = "grpc.close"
    BY <1>b DEF Process, Pcs, ServerStates
  <2>2. proc' = [proc EXCEPT ![p] = s]
    BY <1>9, <1>b DEF CloseHTTP, Process
  <2>3. Proceeds'
    BY <1>a, <2>1, <2>2, Moved
  <2> QED BY <1>9, <1>a, <1>c, <1>d, <2>3, Closing DEF CloseHTTP, ConsulAlone, Environment, History
<1>10. ASSUME NEW p \in Processes, CloseGRPC(p) PROVE TInv'
  <2> DEFINE todo == ToDeregister(ServiceOf(p))
  <2> DEFINE s(grpc) == [proc[p] EXCEPT !.pc = "deregister", !.grpc = grpc, !.todo = todo]
  <2>1. todo \in Seq(Protocols) /\ todo # << >>
    BY <1>a, Deployed, EndpointsOf DEF ToDeregister
  <2>2. PICK grpc \in {"closed", proc[p].grpc} : proc' = [proc EXCEPT ![p] = s(grpc)]
    BY <1>10, <1>b DEF CloseGRPC, Process
  <2>3. s(grpc) \in Process /\ s(grpc).todo # << >>
    BY <1>b, <2>1, <2>2 DEF Process, Pcs, ServerStates
  <2>4. Proceeds'
    BY <1>a, <2>2, <2>3, Moved
  <2>5. port' \in [Addresses \X Protocols -> Processes \cup {Nobody}]
    BY <1>10, <1>a, <1>c, Closing DEF CloseGRPC
  <2> QED BY <1>10, <1>c, <1>d, <2>4, <2>5 DEF CloseGRPC, ConsulAlone, Environment, History
<1>11. ASSUME NEW p \in Processes, Deregister(p) PROVE TInv'
  <2>1. catalog' \subseteq Entry /\ passing' \subseteq {e \in catalog' : e.protocol = "http"}
    BY <1>11, <1>c DEF Deregister, Unregister, ConsulAlone
  <2>2. faults' \in 0..MaxFaults
    BY <1>11, <1>c DEF Deregister, Spend, RegistryAssumption
  <2>3. CASE Len(proc[p].todo) > 1
    <3> DEFINE s == [proc[p] EXCEPT !.todo = Tail(@)]
    <3>1. proc' = [proc EXCEPT ![p] = s] /\ UNCHANGED port
      BY <1>11, <1>b, <2>3 DEF Deregister
    <3>2. s \in Process /\ s.todo # << >>
      BY <1>b, <2>3, Tailed DEF Process
    <3>3. Proceeds'
      BY <1>a, <3>1, <3>2, Moved
    <3> QED BY <1>11, <1>c, <1>d, <2>1, <2>2, <3>1, <3>3 DEF Deregister, Environment, History
  <2>4. CASE Exit(p, "exited")
    BY <1>11, <1>a, <1>c, <1>d, <2>1, <2>2, <2>4, Ended DEF Deregister, Environment, History
  <2> QED BY <1>11, <2>3, <2>4 DEF Deregister
<1>12. ASSUME NEW e \in Entry, Check(e) \/ Reap(e) PROVE TInv'
  BY <1>12, <1>c, <1>d, <1>e DEF Check, Reap, Unregister, Environment, History
<1>13. CASE Ask
  <2>1. PICK a \in Addresses : \E path \in RoutesOf(deployed.service[a]) :
           Resolve(deployed.service[a], resolveRouteTarget(path))
    BY <1>13 DEF Ask
  <2>2. deployed.service[a] \in Services
    BY <1>c DEF RegistryAssumption
  <2>3. gw' \in Request
    BY <1>a, <2>1, <2>2, RoutedToOwner, ResolveType
  <2> QED BY <1>13, <1>c, <1>d, <1>e, <2>3 DEF Ask, GatewayAlone
<1>14. CASE Forward
  <2>1. NoRequest \in Request
    BY DEF NoRequest, Request, Services
  <2>2. [gw EXCEPT !.pc = "failed", !.address = Nobody] \in Request
    BY <1>c DEF Request
  <2>3. gw' \in Request
    BY <1>14, <2>1, <2>2 DEF Forward
  <2> QED BY <1>14, <1>c, <1>d, <1>e, <2>3 DEF Forward, GatewayAlone
<1>15. CASE Retry
  <2>1. gw.owner \in Services /\ gw.to \in Services
    BY <1>c DEF Request
  <2>2. gw' \in Request
    BY <1>15, <1>a, <2>1, ResolveType DEF Retry
  <2> QED BY <1>15, <1>c, <1>d, <1>e, <2>2 DEF Retry, GatewayAlone
<1>16. CASE UNCHANGED vars
  BY <1>16, <1>c, <1>d, <1>e DEF vars
<1> QED BY <1>1, <1>2, <1>3, <1>4, <1>5, <1>6, <1>7, <1>8, <1>9, <1>10, <1>11, <1>12, <1>13,
           <1>14, <1>15, <1>16 DEF Next, MainStep, ConsulStep, GatewayStep

(* Every variable keeps its type; only registered entries pass checks, and *)
(* each phase of main has an endpoint to treat.                            *)
THEOREM RegistryTypes == Spec => [](TypeOK /\ TInv)
<1>1. TInv /\ [Next]_vars => TInv'
  BY NextType, RegistryAssumption
<1> QED BY <1>1, InitType, RegistryAssumption, PTL DEF Spec, TInv

-----------------------------------------------------------------------------
(* What is still to treat *)

In(x, s) == \E i \in DOMAIN s : s[i] = x

LEMMA InHeadTail ==
    ASSUME NEW s \in Seq(Protocols), s # << >>, NEW x
    PROVE  /\ In(x, s) <=> x = Head(s) \/ In(x, Tail(s))
           /\ ~(Len(s) > 1) => ~In(x, Tail(s))
<1>1. /\ Len(s) \in Nat \ {0} /\ DOMAIN s = 1..Len(s)
      /\ Head(s) = s[1]
      /\ Tail(s) \in Seq(Protocols)
      /\ Len(Tail(s)) = Len(s) - 1
      /\ \A i \in 1..Len(Tail(s)) : Tail(s)[i] = s[i + 1]
  BY EmptySeq, HeadTailProperties
<1>2. DOMAIN Tail(s) = 1..Len(s) - 1
  BY <1>1
<1>3. \A i \in 1..Len(s) - 1 : Tail(s)[i] = s[i + 1]
  BY <1>1
<1>4. ASSUME NEW i \in DOMAIN s, s[i] = x PROVE x = Head(s) \/ In(x, Tail(s))
  <2>1. CASE i = 1
    BY <1>1, <1>4, <2>1
  <2>2. CASE i # 1
    <3>1. i - 1 \in 1..Len(s) - 1 /\ (i - 1) + 1 = i
      BY <1>1, <2>2
    <3>2. Tail(s)[i - 1] = x
      BY <1>3, <1>4, <3>1
    <3> QED BY <1>2, <3>1, <3>2 DEF In
  <2> QED BY <2>1, <2>2
<1>5. ASSUME NEW i \in DOMAIN Tail(s), Tail(s)[i] = x PROVE In(x, s)
  <2>1. i + 1 \in DOMAIN s /\ s[i + 1] = x
    BY <1>1, <1>2, <1>3, <1>5
  <2> QED BY <2>1 DEF In
<1>6. In(Head(s), s)
  BY <1>1 DEF In
<1>7. ~(Len(s) > 1) => DOMAIN Tail(s) = {}
  BY <1>1, <1>2
<1> QED BY <1>4, <1>5, <1>6, <1>7 DEF In

(* Entries belong to processes that have come to register, for endpoints   *)
(* of their service; a process removes entries of others at its address.   *)
Registration ==
    /\ \A e \in catalog : /\ proc[e.id].pc \notin {"off", "list", "remove"}
                          /\ In(e.protocol, Endpoints(ServiceOf(e.id)))
    /\ \A p \in Processes : proc[p].pc = "register" =>
          \A x \in Protocols : In(x, proc[p].todo) => In(x, Endpoints(ServiceOf(p)))
    /\ \A p \in Processes : \A e \in proc[p].stale :
          AddressOf(e.id) = AddressOf(p) /\ e.id # p

(* The start of p is still going to find the entry e. *)
ToTreat(p, e) ==
    \/ proc[p].pc = "list" /\ In(e.protocol, proc[p].todo)
    \/ proc[p].pc = "remove" /\ (In(e.protocol, Tail(proc[p].todo)) \/ e \in proc[p].stale)

(* Of two processes at one address that did not start together, the later  *)
(* finds what the earlier has registered, and registers after that.        *)
Succession ==
    \A p, q \in Processes :
        p # q /\ AddressOf(p) = AddressOf(q) /\ {p, q} \notin overlapped =>
            /\ ~(Starting(p) /\ Starting(q))
            /\ \A e \in catalog : e.id = p /\ Starting(q) => ToTreat(q, e)
            /\ \A e1, e2 \in catalog :
                  ~(e1.id = p /\ e2.id = q /\ e1.protocol = e2.protocol)

RInv == Registration /\ Succession

(* A step after which nobody is further in its start, and nothing more is  *)
(* registered.                                                             *)
Quiet ==
    /\ catalog' \subseteq catalog
    /\ deployed' = deployed /\ overlapped' = overlapped
    /\ \A p \in Processes :
          \/ /\ proc'[p].pc = proc[p].pc /\ proc'[p].todo = proc[p].todo
             /\ proc'[p].stale = proc[p].stale
          \/ /\ proc'[p].pc \in {"up", "http.close", "grpc.close", "deregister", "exited", "dead"}
             /\ proc'[p].stale = {} \/ proc'[p].stale = proc[p].stale

Starts(p) == Launch(p) \/ ListInstances(p) \/ RemoveInstance(p) \/ RegisterService(p)

LEMMA QuietSteps ==
    ASSUME RegistryAssumption, TInv, [Next]_vars, \A p \in Processes : ~Starts(p)
    PROVE  Quiet
<1>a. proc \in [Processes -> Process]
  BY DEF TInv, Proceeds
<1>1. ASSUME NEW p \in Processes, RemoveFails(p) \/ StartFails(p) \/ Kill(p) PROVE Quiet
  <2>1. Exit(p, "dead")
    BY <1>1 DEF RemoveFails, StartFails, Kill
  <2> QED BY <1>1, <2>1, Ended
        DEF Quiet, RemoveFails, StartFails, Kill, ConsulAlone, Environment, History
<1>2. ASSUME NEW p \in Processes, ListenHTTP(p) PROVE Quiet
  <2>1. CASE Exit(p, "dead")
    BY <1>2, <2>1, Ended DEF Quiet, ListenHTTP, ConsulAlone, Environment, History
  <2>2. CASE proc' = [proc EXCEPT ![p].http = "serving"]
    BY <1>a, <1>2, <2>2 DEF Quiet, ListenHTTP, ConsulAlone, Environment, History, Process
  <2> QED BY <1>2, <2>1, <2>2 DEF ListenHTTP
<1>3. ASSUME NEW p \in Processes, ListenGRPC(p) PROVE Quiet
  <2>1. CASE Exit(p, "dead")
    BY <1>3, <2>1, Ended DEF Quiet, ListenGRPC, ConsulAlone, Environment, History
  <2>2. ASSUME NEW how, proc' = [proc EXCEPT ![p].grpc = how] PROVE Quiet
    <3>1. /\ proc'[p].pc = proc[p].pc /\ proc'[p].todo = proc[p].todo
          /\ proc'[p].stale = proc[p].stale
          /\ \A q \in Processes \ {p} : proc'[q] = proc[q]
      BY <1>a, <2>2 DEF Process
    <3>2. catalog' = catalog /\ deployed' = deployed /\ overlapped' = overlapped
      BY <1>3 DEF ListenGRPC, ConsulAlone, Environment, History
    <3> QED BY <3>1, <3>2 DEF Quiet
  <2> QED BY <1>3, <2>1, <2>2 DEF ListenGRPC
<1>4. ASSUME NEW p \in Processes, Signal(p) \/ CloseHTTP(p) PROVE Quiet
  <2>1. /\ proc'[p].pc \in {"http.close", "grpc.close"} /\ proc'[p].stale = proc[p].stale
        /\ \A q \in Processes \ {p} : proc'[q] = proc[q]
    BY <1>a, <1>4 DEF Signal, CloseHTTP, Process
  <2>2. catalog' = catalog /\ deployed' = deployed /\ overlapped' = overlapped
    BY <1>4 DEF Signal, CloseHTTP, ConsulAlone, Environment, History
  <2> QED BY <2>1, <2>2 DEF Quiet
<1>5. ASSUME NEW p \in Processes, CloseGRPC(p) PROVE Quiet
  <2>1. /\ proc'[p].pc = "deregister" /\ proc'[p].stale = proc[p].stale
        /\ \A q \in Processes \ {p} : proc'[q] = proc[q]
    BY <1>a, <1>5 DEF CloseGRPC, Process
  <2>2. catalog' = catalog /\ deployed' = deployed /\ overlapped' = overlapped
    BY <1>5 DEF CloseGRPC, ConsulAlone, Environment, History
  <2> QED BY <2>1, <2>2 DEF Quiet
<1>6. ASSUME NEW p \in Processes, Deregister(p) PROVE Quiet
  <2>1. catalog' \subseteq catalog
    BY <1>6 DEF Deregister, Unregister, ConsulAlone
  <2>2. CASE Exit(p, "exited")
    BY <1>6, <2>1, <2>2, Ended DEF Quiet, Deregister, Environment, History
  <2>3. CASE proc' = [proc EXCEPT ![p].todo = Tail(@)]
    <3>1. /\ proc'[p].pc = "deregister" /\ proc'[p].stale = proc[p].stale
          /\ \A q \in Processes \ {p} : proc'[q] = proc[q]
      BY <1>a, <1>6, <2>3 DEF Deregister, Process
    <3>2. deployed' = deployed /\ overlapped' = overlapped
      BY <1>6 DEF Deregister, Environment, History
    <3> QED BY <2>1, <3>1, <3>2 DEF Quiet
  <2> QED BY <1>6, <2>2, <2>3 DEF Deregister
<1>7. ASSUME NEW e \in Entry, Check(e) \/ Reap(e) PROVE Quiet
  BY <1>7 DEF Quiet, Check, Reap, Unregister, Environment, History
<1>8. CASE Ask \/ Forward \/ Retry
  BY <1>8 DEF Quiet, Ask, Forward, Retry, GatewayAlone
<1>9. CASE UNCHANGED vars
  BY <1>9 DEF Quiet, vars
<1> QED BY <1>1, <1>2, <1>3, <1>4, <1>5, <1>6, <1>7, <1>8, <1>9
        DEF Next, MainStep, ConsulStep, GatewayStep, Starts

(* Entries are made of a process and a protocol. *)
LEMMA EntryForm ==
    ASSUME RegistryAssumption, TypeOK, NEW e \in catalog
    PROVE  e \in Entry /\ e.id \in Processes /\ e.protocol \in Protocols
BY DEF TypeOK, Entry

LEMMA StaleForm ==
    ASSUME TypeOK, NEW p \in Processes, NEW e \in proc[p].stale
    PROVE  e \in Entry /\ e.id \in Processes /\ e.protocol \in Protocols
<1>1. proc[p].stale \subseteq Entry
  BY DEF TypeOK
<1> QED BY <1>1 DEF Entry

LEMMA QuietKeeps ==
    ASSUME RegistryAssumption, TInv, RInv, Quiet
    PROVE  RInv'
<1>1. /\ \A p \in Processes : AddressOf(p)' = AddressOf(p) /\ ServiceOf(p)' = ServiceOf(p)
      /\ \A e \in catalog : e.id \in Processes
      /\ catalog' \subseteq catalog /\ overlapped' = overlapped
  BY EntryForm DEF Quiet, TInv, AddressOf, ServiceOf
<1>2. Registration'
  <2>1. \A e \in catalog' : /\ proc'[e.id].pc \notin {"off", "list", "remove"}
                            /\ In(e.protocol, Endpoints(ServiceOf(e.id)'))
    BY <1>1 DEF RInv, Registration, Quiet
  <2>2. \A p \in Processes : proc'[p].pc = "register" =>
          \A x \in Protocols : In(x, proc'[p].todo) => In(x, Endpoints(ServiceOf(p)'))
    BY <1>1 DEF RInv, Registration, Quiet
  <2>3. \A p \in Processes : \A e \in proc'[p].stale :
          e.id \in Processes => AddressOf(e.id)' = AddressOf(p)' /\ e.id # p
    BY <1>1 DEF RInv, Registration, Quiet
  <2>4. \A p \in Processes : \A e \in proc'[p].stale : e.id \in Processes
    <3>1. \A p \in Processes : proc'[p].stale = {} \/ proc'[p].stale = proc[p].stale
      BY DEF Quiet
    <3> QED BY <3>1, StaleForm DEF TInv
  <2> QED BY <2>1, <2>2, <2>3, <2>4 DEF Registration
<1>3. Succession'
  <2>1. \A p \in Processes : Starting(p)' =>
          /\ Starting(p) /\ proc'[p].pc = proc[p].pc /\ proc'[p].todo = proc[p].todo
          /\ proc'[p].stale = proc[p].stale
    BY DEF Quiet, Starting
  <2>2. \A p \in Processes : \A e : Starting(p)' /\ ToTreat(p, e) => ToTreat(p, e)'
    BY <2>1 DEF ToTreat
  <2> QED BY <1>1, <2>1, <2>2 DEF RInv, Succession
<1> QED BY <1>2, <1>3 DEF RInv

LEMMA LaunchKeeps ==
    ASSUME RegistryAssumption, TInv, RInv, NEW p \in Processes, Launch(p)
    PROVE  RInv'
<1>1. /\ \A q \in Processes : AddressOf(q)' = AddressOf(q) /\ ServiceOf(q)' = ServiceOf(q)
      /\ \A e \in catalog : e \in Entry /\ e.id \in Processes /\ e.protocol \in Protocols
      /\ catalog' = catalog
      /\ proc[p].pc = "off"
  BY EntryForm DEF Launch, TInv, AddressOf, ServiceOf, ConsulAlone, Environment
<1>2. /\ proc'[p].pc = "list" /\ proc'[p].todo = Endpoints(ServiceOf(p))
      /\ proc'[p].stale = proc[p].stale
      /\ \A q \in Processes \ {p} : proc'[q] = proc[q]
  BY DEF TInv, Proceeds, Launch, Process
<1>3. \A e \in catalog : e.id # p
  BY <1>1 DEF RInv, Registration
<1>4. Registration'
  <2>1. \A e \in catalog' : /\ proc'[e.id].pc \notin {"off", "list", "remove"}
                            /\ In(e.protocol, Endpoints(ServiceOf(e.id)'))
    BY <1>1, <1>2, <1>3 DEF RInv, Registration
  <2>2. \A q \in Processes : proc'[q].pc = "register" =>
          \A x \in Protocols : In(x, proc'[q].todo) => In(x, Endpoints(ServiceOf(q)'))
    BY <1>1, <1>2 DEF RInv, Registration
  <2>3. \A q \in Processes : \A e \in proc'[q].stale :
          e.id \in Processes => AddressOf(e.id)' = AddressOf(q)' /\ e.id # q
    BY <1>1, <1>2 DEF RInv, Registration
  <2>4. \A q \in Processes : \A e \in proc'[q].stale : e.id \in Processes
    BY <1>2, StaleForm DEF TInv
  <2> QED BY <2>1, <2>2, <2>3, <2>4 DEF Registration
<1>5. \A q \in Processes : q # p /\ AddressOf(q) = AddressOf(p) /\ Starting(q) =>
         {p, q} \in overlapped'
  BY DEF Launch, Neighbours
<1>6. overlapped \subseteq overlapped'
  BY DEF Launch
<1>7. \A e \in catalog : AddressOf(e.id) = AddressOf(p) => ToTreat(p, e)'
  <2> SUFFICES ASSUME NEW e \in catalog, AddressOf(e.id) = AddressOf(p) PROVE ToTreat(p, e)'
    OBVIOUS
  <2>1. ServiceOf(e.id) = ServiceOf(p)
    BY DEF ServiceOf
  <2>2. In(e.protocol, Endpoints(ServiceOf(p)))
    BY <2>1 DEF RInv, Registration
  <2> QED BY <1>2, <2>2 DEF ToTreat
<1>8. ASSUME NEW a \in Processes, NEW b \in Processes, a # b, AddressOf(a) = AddressOf(b),
             {a, b} \notin overlapped'
      PROVE  /\ ~(Starting(a)' /\ Starting(b)')
             /\ \A e \in catalog' : e.id = a /\ Starting(b)' => ToTreat(b, e)'
             /\ \A e1, e2 \in catalog' :
                   ~(e1.id = a /\ e2.id = b /\ e1.protocol = e2.protocol)
  <2>1. {a, b} \notin overlapped /\ {b, a} \notin overlapped'
    BY <1>6, <1>8
  <2>2. \A q \in Processes \ {p} : /\ Starting(q)' <=> Starting(q)
                                   /\ \A e : ToTreat(q, e)' <=> ToTreat(q, e)
    BY <1>2 DEF Starting, ToTreat
  <2>3. ~Starting(p)
    BY <1>1 DEF Starting
  <2>4. /\ ~(Starting(a) /\ Starting(b))
        /\ \A e \in catalog : e.id = a /\ Starting(b) => ToTreat(b, e)
        /\ \A e1, e2 \in catalog : ~(e1.id = a /\ e2.id = b /\ e1.protocol = e2.protocol)
    BY <1>8, <2>1 DEF RInv, Succession
  <2>5. ~(Starting(a)' /\ Starting(b)')
    BY <1>5, <1>8, <2>1, <2>2, <2>4
  <2>6. \A e \in catalog' : e.id = a /\ Starting(b)' => ToTreat(b, e)'
    BY <1>1, <1>7, <1>8, <2>2, <2>4
  <2> QED BY <1>1, <2>4, <2>5, <2>6
<1>9. Succession'
  BY <1>1, <1>8 DEF Succession
<1> QED BY <1>4, <1>9 DEF RInv

(* A step of a process that looks for entries to remove, or removes one,   *)
(* and forgets none that it still has to find.                             *)
LEMMA ScanKeeps ==
    ASSUME RegistryAssumption, TInv, RInv, NEW p \in Processes,
           proc[p].pc \in {"list", "remove"}, Starting(p)',
           catalog' \subseteq catalog, deployed' = deployed, overlapped' = overlapped,
           \A q \in Processes \ {p} : proc'[q] = proc[q],
           proc'[p].pc = "register" => proc'[p].todo = Endpoints(ServiceOf(p)),
           \A e \in proc'[p].stale : e.id \in Processes \ {p} /\ AddressOf(e.id) = AddressOf(p),
           \A e \in catalog' : AddressOf(e.id) = AddressOf(p) /\ ToTreat(p, e) => ToTreat(p, e)'
    PROVE  RInv'
<1>1. /\ \A q \in Processes : AddressOf(q)' = AddressOf(q) /\ ServiceOf(q)' = ServiceOf(q)
      /\ \A e \in catalog : e.id \in Processes
  BY EntryForm DEF TInv, AddressOf, ServiceOf
<1>2. \A e \in catalog : e.id # p
  BY DEF RInv, Registration
<1>3. Registration'
  <2>1. \A e \in catalog' : /\ proc'[e.id].pc \notin {"off", "list", "remove"}
                            /\ In(e.protocol, Endpoints(ServiceOf(e.id)'))
    BY <1>1, <1>2 DEF RInv, Registration
  <2>2. \A q \in Processes : proc'[q].pc = "register" =>
          \A x \in Protocols : In(x, proc'[q].todo) => In(x, Endpoints(ServiceOf(q)'))
    BY <1>1 DEF RInv, Registration
  <2>3. \A q \in Processes : \A e \in proc'[q].stale :
          AddressOf(e.id)' = AddressOf(q)' /\ e.id # q
    BY <1>1, StaleForm DEF RInv, Registration, TInv
  <2> QED BY <2>1, <2>2, <2>3 DEF Registration
<1>4. Succession'
  <2>1. Starting(p)
    BY DEF Starting
  <2>2. \A q \in Processes : Starting(q)' <=> Starting(q)
    BY <2>1 DEF Starting
  <2>3. \A q \in Processes \ {p} : \A e : ToTreat(q, e)' <=> ToTreat(q, e)
    BY DEF ToTreat
  <2> QED BY <1>1, <2>2, <2>3 DEF RInv, Succession
<1> QED BY <1>3, <1>4 DEF RInv

LEMMA ListKeeps ==
    ASSUME RegistryAssumption, TInv, RInv, NEW p \in Processes, ListInstances(p)
    PROVE  RInv'
<1> DEFINE todo == proc[p].todo
<1> DEFINE stale == StaleInstances(p, Head(todo))
<1>1. /\ proc \in [Processes -> Process] /\ proc[p] \in Process
      /\ proc[p].pc = "list" /\ todo \in Seq(Protocols) /\ todo # << >>
  BY DEF TInv, Proceeds, ListInstances, Process, Treats
<1>2. \/ /\ stale = {} /\ Len(todo) > 1
         /\ proc'[p].pc = "list" /\ proc'[p].todo = Tail(todo) /\ proc'[p].stale = {}
      \/ /\ stale = {} /\ ~(Len(todo) > 1)
         /\ proc'[p].pc = "register" /\ proc'[p].todo = Endpoints(ServiceOf(p))
         /\ proc'[p].stale = {}
      \/ /\ stale # {}
         /\ proc'[p].pc = "remove" /\ proc'[p].todo = todo /\ proc'[p].stale = stale
  BY <1>1 DEF ListInstances, NextEndpoint, Process
<1>3. /\ \A q \in Processes \ {p} : proc'[q] = proc[q]
      /\ catalog' = catalog /\ deployed' = deployed /\ overlapped' = overlapped
  BY <1>1 DEF ListInstances, ConsulAlone, Environment, History
<1>4. \A e \in stale : e.id \in Processes \ {p} /\ AddressOf(e.id) = AddressOf(p)
  BY <1>1, EntryForm DEF StaleInstances, PortOf, RInv, Registration, TInv
<1>5. ASSUME NEW e \in catalog, AddressOf(e.id) = AddressOf(p), ToTreat(p, e)
      PROVE  ToTreat(p, e)'
  <2>1. In(e.protocol, todo)
    BY <1>1, <1>5 DEF ToTreat
  <2>2. CASE e.protocol = Head(todo)
    <3>1. e \in stale
      BY <1>5, <2>2 DEF StaleInstances, PortOf
    <3> QED BY <1>2, <3>1 DEF ToTreat
  <2>3. CASE In(e.protocol, Tail(todo))
    <3>1. Len(todo) > 1
      BY <1>1, <2>3, InHeadTail
    <3> QED BY <1>2, <2>3, <3>1 DEF ToTreat
  <2> QED BY <1>1, <2>1, <2>2, <2>3, InHeadTail
<1>6. Starting(p)'
  BY <1>2 DEF Starting
<1> QED BY <1>1, <1>2, <1>3, <1>4, <1>5, <1>6, ScanKeeps

LEMMA RemoveKeeps ==
    ASSUME RegistryAssumption, TInv, RInv, NEW p \in Processes, RemoveInstance(p)
    PROVE  RInv'
<1> DEFINE todo == proc[p].todo
<1>1. /\ proc \in [Processes -> Process] /\ proc[p] \in Process
      /\ proc[p].pc = "remove" /\ todo \in Seq(Protocols) /\ todo # << >>
  BY DEF TInv, Proceeds, RemoveInstance, Process, Treats
<1>2. PICK e \in proc[p].stale :
        LET rest == proc[p].stale \ {e}
        IN  /\ Unregister(e)
            /\ proc' = [proc EXCEPT ![p] = IF rest = {} THEN NextEndpoint(p)
                                           ELSE [proc[p] EXCEPT !.stale = rest]]
  BY DEF RemoveInstance
<1> DEFINE rest == proc[p].stale \ {e}
<1>3. \/ /\ rest = {} /\ Len(todo) > 1
         /\ proc'[p].pc = "list" /\ proc'[p].todo = Tail(todo) /\ proc'[p].stale = {}
      \/ /\ rest = {} /\ ~(Len(todo) > 1)
         /\ proc'[p].pc = "register" /\ proc'[p].todo = Endpoints(ServiceOf(p))
         /\ proc'[p].stale = {}
      \/ /\ rest # {}
         /\ proc'[p].pc = "remove" /\ proc'[p].todo = todo /\ proc'[p].stale = rest
  BY <1>1, <1>2 DEF NextEndpoint, Process
<1>4. /\ \A q \in Processes \ {p} : proc'[q] = proc[q]
      /\ catalog' = catalog \ {e} /\ deployed' = deployed /\ overlapped' = overlapped
  BY <1>1, <1>2 DEF RemoveInstance, Unregister, Environment, History
<1>5. \A d \in proc[p].stale : d.id \in Processes \ {p} /\ AddressOf(d.id) = AddressOf(p)
  BY StaleForm DEF RInv, Registration, TInv
<1>6. ASSUME NEW d \in catalog', ToTreat(p, d)
      PROVE  ToTreat(p, d)'
  <2>1. In(d.protocol, Tail(todo)) \/ d \in rest
    BY <1>1, <1>4, <1>6 DEF ToTreat
  <2>2. In(d.protocol, Tail(todo)) => Len(todo) > 1
    BY <1>1, InHeadTail
  <2>3. In(d.protocol, Tail(todo)) => In(d.protocol, todo)
    BY <1>1, InHeadTail
  <2> QED BY <1>3, <2>1, <2>2, <2>3 DEF ToTreat
<1>7. Starting(p)'
  BY <1>3 DEF Starting
<1> QED BY <1>1, <1>3, <1>4, <1>5, <1>6, <1>7, ScanKeeps

LEMMA RegisterKeeps ==
    ASSUME RegistryAssumption, TInv, RInv, NEW p \in Processes, RegisterService(p)
    PROVE  RInv'
<1> DEFINE todo == proc[p].todo
<1> DEFINE new == [id |-> p, protocol |-> Head(todo)]
<1>1. /\ proc \in [Processes -> Process] /\ proc[p] \in Process
      /\ proc[p].pc = "register" /\ todo \in Seq(Protocols) /\ todo # << >>
  BY DEF TInv, Proceeds, RegisterService, Process, Treats
<1>2. /\ proc'[p].pc \in {"register", "up"} /\ proc'[p].stale = proc[p].stale
      /\ proc'[p].pc = "register" => proc'[p].todo = Tail(todo)
      /\ \A q \in Processes \ {p} : proc'[q] = proc[q]
  BY <1>1 DEF RegisterService, Process
<1>3. catalog' = catalog \cup {new} /\ deployed' = deployed /\ overlapped' = overlapped
  BY DEF RegisterService, Environment, History
<1>4. /\ \A q \in Processes : AddressOf(q)' = AddressOf(q) /\ ServiceOf(q)' = ServiceOf(q)
      /\ \A e \in catalog : e.id \in Processes
  BY <1>3, EntryForm DEF TInv, AddressOf, ServiceOf
<1>5. Head(todo) \in Protocols /\ In(Head(todo), todo)
  BY <1>1, HeadTailProperties, InHeadTail
<1>6. In(Head(todo), Endpoints(ServiceOf(p)))
  BY <1>1, <1>5 DEF RInv, Registration
<1>7. Registration'
  <2>1. \A e \in catalog' : /\ proc'[e.id].pc \notin {"off", "list", "remove"}
                            /\ In(e.protocol, Endpoints(ServiceOf(e.id)'))
    BY <1>2, <1>3, <1>4, <1>6 DEF RInv, Registration
  <2>2. \A x \in Protocols : In(x, Tail(todo)) => In(x, todo)
    BY <1>1, InHeadTail
  <2>3. \A q \in Processes : proc'[q].pc = "register" =>
          \A x \in Protocols : In(x, proc'[q].todo) => In(x, Endpoints(ServiceOf(q)'))
    BY <1>1, <1>2, <1>4, <2>2 DEF RInv, Registration
  <2>4. \A q \in Processes : \A e \in proc'[q].stale :
          AddressOf(e.id)' = AddressOf(q)' /\ e.id # q
    BY <1>2, <1>4, StaleForm DEF RInv, Registration, TInv
  <2> QED BY <2>1, <2>3, <2>4 DEF Registration
<1>8. /\ Starting(p) /\ ~ToTreat(p, new)
      /\ \A q \in Processes : Starting(q)' => Starting(q)
      /\ \A e : ~ToTreat(p, e)
      /\ \A q \in Processes \ {p} : \A e : ToTreat(q, e)' <=> ToTreat(q, e)
  BY <1>1, <1>2 DEF Starting, ToTreat
<1>9. ASSUME NEW a \in Processes, NEW b \in Processes, a # b, AddressOf(a) = AddressOf(b),
             {a, b} \notin overlapped
      PROVE  /\ ~(Starting(a)' /\ Starting(b)')
             /\ \A e \in catalog' : e.id = a /\ Starting(b)' => ToTreat(b, e)'
             /\ \A e1, e2 \in catalog' :
                   ~(e1.id = a /\ e2.id = b /\ e1.protocol = e2.protocol)
  <2>1. /\ {b, a} \notin overlapped
        /\ ~(Starting(a) /\ Starting(b))
        /\ \A e \in catalog : e.id = a /\ Starting(b) => ToTreat(b, e)
        /\ \A e \in catalog : e.id = b /\ Starting(a) => ToTreat(a, e)
        /\ \A e1, e2 \in catalog : ~(e1.id = a /\ e2.id = b /\ e1.protocol = e2.protocol)
    <3>1. {a, b} = {b, a}
      OBVIOUS
    <3> QED BY <1>9, <3>1 DEF RInv, Succession
  <2>2. \A e \in catalog' : e.id = a /\ Starting(b)' => ToTreat(b, e)'
    <3>1. CASE b = p
      BY <1>3, <1>8, <1>9, <2>1, <3>1
    <3>2. CASE b # p
      BY <1>3, <1>8, <1>9, <2>1, <3>2
    <3> QED BY <3>1, <3>2
  <2>3. \A e1, e2 \in catalog' :
           ~(e1.id = a /\ e2.id = b /\ e1.protocol = e2.protocol)
    <3>1. b = p => \A e \in catalog : e.id # a
      BY <1>8, <2>1
    <3>2. a = p => \A e \in catalog : e.id # b
      BY <1>8, <2>1
    <3> QED BY <1>3, <1>9, <2>1, <3>1, <3>2
  <2> QED BY <1>8, <2>1, <2>2, <2>3
<1>10. Succession'
  BY <1>3, <1>4, <1>9 DEF Succession
<1> QED BY <1>7, <1>10 DEF RInv

LEMMA NextKeeps ==
    ASSUME RegistryAssumption, TInv, RInv, [Next]_vars
    PROVE  RInv'
<1>1. CASE \E p \in Processes : Starts(p)
  BY <1>1, LaunchKeeps, ListKeeps, RemoveKeeps, RegisterKeeps DEF Starts
<1>2. CASE \A p \in Processes : ~Starts(p)
  BY <1>2, QuietSteps, QuietKeeps
<1> QED BY <1>1, <1>2

LEMMA InitKeeps == Init => RInv
BY DEF Init, RInv, Registration, Succession, Starting

LEMMA Registered == Spec => [](TInv /\ RInv)
<1>1. TInv /\ RInv /\ [Next]_vars => (TInv /\ RInv)'
  BY NextType, NextKeeps, RegistryAssumption
<1> QED BY <1>1, InitType, InitKeeps, RegistryAssumption, PTL DEF Spec

(* Two entries of one endpoint are left only by two processes that started *)
(* at the same time: whoever starts later finds what is registered, all of *)
(* it, and registers after it has removed it.                              *)
THEOREM OneEntry == Spec => []OneEntryPerEndpoint
<1>1. TInv /\ RInv => OneEntryPerEndpoint
  <2> SUFFICES ASSUME TInv, RInv, NEW e1 \in catalog, NEW e2 \in catalog,
                      PortOf(e1) = PortOf(e2), e1.id # e2.id, {e1.id, e2.id} \notin overlapped
               PROVE  FALSE
    BY DEF OneEntryPerEndpoint
  <2>1. e1.id \in Processes /\ e2.id \in Processes
    BY EntryForm, RegistryAssumption DEF TInv
  <2>2. AddressOf(e1.id) = AddressOf(e2.id) /\ e1.protocol = e2.protocol
    BY DEF PortOf
  <2> QED BY <2>1, <2>2 DEF RInv, Succession
<1> QED BY <1>1, Registered, PTL

(* A process that is listening loses its entry only to itself and to the   *)
(* start of another process at its address.                                *)
THEOREM Removals == Spec => OnlySuccessorsRemove
<1> DEFINE Owed == \A e \in catalog \ catalog' :
                      \/ port[PortOf(e)] = Nobody
                      \/ proc[e.id].pc = "deregister"
                      \/ \E q \in Neighbours(e.id) : proc[q].pc = "remove"
<1>1. ASSUME TInv, RInv, [Next]_vars PROVE Owed
  <2>1. ASSUME NEW p \in Processes, RemoveInstance(p) PROVE Owed
    <3>1. PICK e \in proc[p].stale : catalog' = catalog \ {e}
      BY <2>1 DEF RemoveInstance, Unregister
    <3>2. e.id \in Processes /\ AddressOf(e.id) = AddressOf(p) /\ e.id # p
      BY <1>1, StaleForm DEF TInv, RInv, Registration
    <3>3. p \in Neighbours(e.id) /\ proc[p].pc = "remove"
      BY <2>1, <3>2 DEF RemoveInstance, Neighbours
    <3> QED BY <3>1, <3>3
  <2>2. ASSUME NEW p \in Processes, Deregister(p) PROVE Owed
    <3>1. \A e \in catalog \ catalog' : e.id = p
      BY <2>2 DEF Deregister, Unregister, ConsulAlone
    <3> QED BY <2>2, <3>1 DEF Deregister
  <2>3. ASSUME NEW e \in Entry, Reap(e) PROVE Owed
    BY <2>3 DEF Reap, Reapable, Unregister
  <2>4. ASSUME catalog \subseteq catalog' PROVE Owed
    BY <2>4
  <2>5. ASSUME NEW p \in Processes,
               \/ Launch(p) \/ ListInstances(p) \/ RemoveFails(p) \/ StartFails(p)
               \/ RegisterService(p) \/ ListenHTTP(p) \/ ListenGRPC(p) \/ Signal(p)
               \/ CloseHTTP(p) \/ CloseGRPC(p) \/ Kill(p)
        PROVE  catalog \subseteq catalog'
    BY <2>5 DEF Launch, ListInstances, RemoveFails, StartFails, RegisterService, ListenHTTP,
                ListenGRPC, Signal, CloseHTTP, CloseGRPC, Kill, ConsulAlone
  <2>6. ASSUME NEW e \in Entry, Check(e) PROVE catalog \subseteq catalog'
    BY <2>6 DEF Check
  <2>7. CASE Ask \/ Forward \/ Retry \/ UNCHANGED vars
    BY <2>4, <2>7 DEF Ask, Forward, Retry, GatewayAlone, vars
  <2> QED BY <1>1, <2>1, <2>2, <2>3, <2>4, <2>5, <2>6, <2>7
          DEF Next, MainStep, ConsulStep, GatewayStep
<1>2. TInv /\ RInv /\ [Next]_vars => [Owed]_vars
  BY <1>1
<1> QED BY <1>2, Registered, PTL DEF Spec, OnlySuccessorsRemove

-----------------------------------------------------------------------------
(* Ports *)

(* The HTTP port of an address has been open. *)
Proven(a) ==
    \E p \in Processes : AddressOf(p) = a /\ proc[p].http \in {"serving", "closed"}

(* Who has a port open is there and serves; what passes its check, or was  *)
(* chosen by the gateway, has been open.                                   *)
PortInv ==
    /\ \A a \in Addresses : port[<<a, "http">>] # Nobody =>
          /\ AddressOf(port[<<a, "http">>]) = a
          /\ proc[port[<<a, "http">>]].http = "serving"
    /\ \A p \in Processes :
          /\ proc[p].pc \in {"off", "list", "remove", "register"} => proc[p].http = "none"
          /\ proc[p].pc = "http.close" => proc[p].http # "closed"
          /\ proc[p].pc = "up" => proc[p].http # "closed"
    /\ \A e \in passing : Proven(AddressOf(e.id))
    /\ gw.pc = "resolved" => Proven(gw.address)

LEMMA NextPorts ==
    ASSUME RegistryAssumption, TInv, PortInv, [Next]_vars
    PROVE  PortInv'
<1> DEFINE Before == {"off", "list", "remove", "register"}
           Within == {"http.close", "up"}
           Opened == {"serving", "closed"}
           Addressed == \A a \in Addresses : port'[<<a, "http">>] # Nobody =>
                           /\ AddressOf(port'[<<a, "http">>]) = a
                           /\ proc'[port'[<<a, "http">>]].http = "serving"
           Phases == \A p \in Processes :
                        /\ proc'[p].pc \in Before => proc'[p].http = "none"
                        /\ proc'[p].pc \in Within => proc'[p].http # "closed"
<1>a. /\ proc \in [Processes -> Process] /\ \A p \in Processes : proc[p] \in Process
      /\ port \in [Addresses \X Protocols -> Processes \cup {Nobody}]
      /\ \A a \in Addresses : <<a, "http">> \in Addresses \X Protocols
      /\ \A e \in catalog : e.id \in Processes
      /\ Nobody \notin Processes
  BY EntryForm DEF TInv, TypeOK, Proceeds, Protocols, RegistryAssumption
<1>b. /\ \A a \in Addresses : port[<<a, "http">>] # Nobody =>
            /\ port[<<a, "http">>] \in Processes
            /\ AddressOf(port[<<a, "http">>]) = a
            /\ proc[port[<<a, "http">>]].http = "serving"
      /\ \A p \in Processes :
            /\ proc[p].pc \in Before => proc[p].http = "none"
            /\ proc[p].pc \in Within => proc[p].http # "closed"
      /\ \A e \in passing : Proven(AddressOf(e.id))
      /\ gw.pc = "resolved" => Proven(gw.address)
  BY <1>a DEF PortInv
<1>c. ASSUME deployed' = deployed,
             \A p \in Processes : proc[p].http \in Opened => proc'[p].http \in Opened
      PROVE  /\ \A p : AddressOf(p)' = AddressOf(p)
             /\ \A a : Proven(a) => Proven(a)'
  BY <1>c DEF Proven, AddressOf
<1>d. ASSUME deployed' = deployed, passing' \subseteq passing, gw' = gw,
             \A p \in Processes : proc[p].http \in Opened => proc'[p].http \in Opened,
             Addressed, Phases
      PROVE  PortInv'
  <2>1. \A p : AddressOf(p)' = AddressOf(p)
    BY <1>c, <1>d
  <2>2. \A e \in passing' : Proven(AddressOf(e.id))'
    BY <1>b, <1>c, <1>d, <2>1
  <2>3. gw'.pc = "resolved" => Proven(gw.address)'
    BY <1>b, <1>c, <1>d
  <2> QED BY <1>d, <2>1, <2>2, <2>3 DEF PortInv
<1>e. ASSUME deployed' = deployed, passing' \subseteq passing, gw' = gw,
             \A a \in Addresses : port'[<<a, "http">>] = port[<<a, "http">>],
             \A p \in Processes : /\ proc'[p].http = proc[p].http
                                  /\ proc'[p].pc \in Before => proc[p].pc \in Before
                                  /\ proc'[p].pc \in Within => proc[p].pc \in Within
      PROVE  PortInv'
  <2>1. \A p \in Processes : /\ proc'[p].http = proc[p].http
                             /\ proc'[p].pc \in Before => proc[p].pc \in Before
                             /\ proc'[p].pc \in Within => proc[p].pc \in Within
    BY <1>e
  <2>2. Addressed
    <3>1. \A p : AddressOf(p)' = AddressOf(p)
      BY <1>e DEF AddressOf
    <3>2. \A a \in Addresses : port'[<<a, "http">>] = port[<<a, "http">>]
      BY <1>e
    <3> QED BY <1>b, <2>1, <3>1, <3>2
  <2>3. Phases
    BY <1>b, <2>1
  <2>4. \A p \in Processes : proc[p].http \in Opened => proc'[p].http \in Opened
    BY <2>1
  <2> HIDE DEF Addressed, Phases, Opened
  <2> QED BY <1>d, <1>e, <2>2, <2>3, <2>4
<1>f. ASSUME NEW p \in Processes, NEW how \in {"exited", "dead"}, Exit(p, how),
             deployed' = deployed, passing' \subseteq passing, gw' = gw
      PROVE  PortInv'
  <2>1. /\ proc'[p].pc = how
        /\ proc'[p].http = IF proc[p].http \in Opened THEN "closed" ELSE "none"
        /\ \A q \in Processes \ {p} : proc'[q] = proc[q]
    BY <1>a, <1>f DEF Exit
  <2>2. \A a \in Addresses : port'[<<a, "http">>] =
            IF port[<<a, "http">>] = p THEN Nobody ELSE port[<<a, "http">>]
    BY <1>a, <1>f DEF Exit, ClosePorts, Protocols
  <2>3. Addressed
    BY <1>a, <1>b, <2>1, <2>2
  <2>4. Phases
    BY <1>b, <2>1
  <2> QED BY <1>d, <1>f, <2>1, <2>3, <2>4
<1>1. ASSUME NEW p \in Processes, Launch(p) \/ ListInstances(p) \/ RemoveInstance(p) \/ Signal(p)
      PROVE  PortInv'
  <2>1. /\ proc'[p].http = proc[p].http
        /\ proc'[p].pc \in Before => proc[p].pc \in Before
        /\ proc'[p].pc \in Within => proc[p].pc \in Within
        /\ \A q \in Processes \ {p} : proc'[q] = proc[q]
    <3>1. CASE Launch(p) \/ Signal(p)
      BY <1>a, <3>1 DEF Launch, Signal, Process
    <3>2. CASE ListInstances(p) \/ RemoveInstance(p)
      <4>1. \/ proc' = [proc EXCEPT ![p] = NextEndpoint(p)]
            \/ \E stale : proc' = [proc EXCEPT ![p] = [proc[p] EXCEPT !.pc = "remove", !.stale = stale]]
            \/ \E stale : proc' = [proc EXCEPT ![p] = [proc[p] EXCEPT !.stale = stale]]
        BY <1>a, <3>2 DEF ListInstances, RemoveInstance
      <4>2. proc[p] \in Process /\ proc[p].pc \in Before
        BY <1>a, <3>2 DEF ListInstances, RemoveInstance
      <4>3. NextEndpoint(p).http = proc[p].http /\ NextEndpoint(p).pc \in Before
        BY <4>2 DEF NextEndpoint, Process
      <4>4. \A stale : /\ [proc[p] EXCEPT !.pc = "remove", !.stale = stale].http = proc[p].http
                       /\ [proc[p] EXCEPT !.pc = "remove", !.stale = stale].pc = "remove"
                       /\ [proc[p] EXCEPT !.stale = stale].http = proc[p].http
                       /\ [proc[p] EXCEPT !.stale = stale].pc = proc[p].pc
        BY <4>2 DEF Process
      <4>5. ASSUME NEW s, proc' = [proc EXCEPT ![p] = s], s.http = proc[p].http, s.pc \in Before
            PROVE  /\ proc'[p].http = proc[p].http /\ proc'[p].pc \in Before
                   /\ \A q \in Processes \ {p} : proc'[q] = proc[q]
        BY <1>a, <4>5
      <4>6. /\ proc'[p].http = proc[p].http /\ proc'[p].pc \in Before
            /\ \A q \in Processes \ {p} : proc'[q] = proc[q]
        <5>1. CASE proc' = [proc EXCEPT ![p] = NextEndpoint(p)]
          BY <4>3, <4>5, <5>1
        <5>2. ASSUME NEW stale, proc' = [proc EXCEPT ![p] = [proc[p] EXCEPT !.pc = "remove", !.stale = stale]]
              PROVE  /\ proc'[p].http = proc[p].http /\ proc'[p].pc \in Before
                     /\ \A q \in Processes \ {p} : proc'[q] = proc[q]
          BY <4>4, <4>5, <5>2
        <5>3. ASSUME NEW stale, proc' = [proc EXCEPT ![p] = [proc[p] EXCEPT !.stale = stale]]
              PROVE  /\ proc'[p].http = proc[p].http /\ proc'[p].pc \in Before
                     /\ \A q \in Processes \ {p} : proc'[q] = proc[q]
          BY <4>2, <4>4, <4>5, <5>3
        <5> QED BY <4>1, <5>1, <5>2, <5>3
      <4> QED BY <4>2, <4>6
    <3> QED BY <1>1, <3>1, <3>2
  <2>2. deployed' = deployed /\ passing' \subseteq passing /\ gw' = gw /\ port' = port
    BY <1>1 DEF Launch, ListInstances, RemoveInstance, Signal, Unregister, ConsulAlone, Environment
  <2> QED BY <1>e, <2>1, <2>2
<1>2. ASSUME NEW p \in Processes, RemoveFails(p) \/ StartFails(p) \/ Kill(p) PROVE PortInv'
  BY <1>2, <1>f DEF RemoveFails, StartFails, Kill, ConsulAlone, Environment
<1>3. ASSUME NEW p \in Processes, RegisterService(p) PROVE PortInv'
  <2>1. /\ proc'[p].pc = "register" => proc'[p].http = proc[p].http
        /\ proc'[p].pc # "register" => proc'[p].http = "starting"
        /\ proc'[p].pc \in {"register", "up"} /\ proc[p].http = "none"
        /\ \A q \in Processes \ {p} : proc'[q] = proc[q]
    BY <1>3, <1>a, <1>b DEF RegisterService, Process
  <2>2. deployed' = deployed /\ passing' = passing /\ gw' = gw /\ port' = port
    BY <1>3 DEF RegisterService, Environment
  <2>3. \A q \in Processes : proc[q].http \in Opened => proc'[q].http = proc[q].http
    BY <2>1
  <2>4. Addressed
    BY <1>b, <1>c, <2>2, <2>3
  <2>5. Phases
    BY <1>b, <2>1
  <2> QED BY <1>d, <2>2, <2>3, <2>4, <2>5
<1>4. ASSUME NEW p \in Processes, ListenHTTP(p) PROVE PortInv'
  <2>1. CASE Exit(p, "dead")
    BY <1>4, <1>f, <2>1 DEF ListenHTTP, ConsulAlone, Environment
  <2>2. CASE Open(p, "http") /\ proc' = [proc EXCEPT ![p].http = "serving"]
    <3>1. /\ proc'[p].http = "serving" /\ proc'[p].pc = proc[p].pc
          /\ proc[p].http = "starting"
          /\ \A q \in Processes \ {p} : proc'[q] = proc[q]
      BY <1>4, <1>a, <2>2 DEF ListenHTTP, Process
    <3>2. deployed' = deployed /\ passing' = passing /\ gw' = gw
      BY <1>4 DEF ListenHTTP, ConsulAlone, Environment
    <3>3. \A a \in Addresses : port'[<<a, "http">>] =
              IF a = AddressOf(p) THEN p ELSE port[<<a, "http">>]
      BY <1>a, <2>2 DEF Open
    <3>4. Addressed
      BY <1>b, <1>c, <3>1, <3>2, <3>3
    <3>5. Phases
      BY <1>b, <3>1
    <3> QED BY <1>d, <3>1, <3>2, <3>4, <3>5
  <2> QED BY <1>4, <2>1, <2>2 DEF ListenHTTP
<1>5. ASSUME NEW p \in Processes, ListenGRPC(p) PROVE PortInv'
  <2>1. CASE Exit(p, "dead")
    BY <1>5, <1>f, <2>1 DEF ListenGRPC, ConsulAlone, Environment
  <2>2. ASSUME NEW how, Open(p, "grpc") \/ UNCHANGED port, proc' = [proc EXCEPT ![p].grpc = how]
        PROVE  PortInv'
    <3>1. \A q \in Processes : proc'[q].http = proc[q].http /\ proc'[q].pc = proc[q].pc
      BY <1>a, <2>2 DEF Process
    <3>2. deployed' = deployed /\ passing' = passing /\ gw' = gw
      BY <1>5 DEF ListenGRPC, ConsulAlone, Environment
    <3>3. \A a \in Addresses : port'[<<a, "http">>] = port[<<a, "http">>]
      BY <1>a, <2>2 DEF Open
    <3> QED BY <1>e, <3>1, <3>2, <3>3
  <2> QED BY <1>5, <2>1, <2>2 DEF ListenGRPC
<1>6. ASSUME NEW p \in Processes, CloseHTTP(p) PROVE PortInv'
  <2>1. /\ proc'[p].pc = "grpc.close"
        /\ proc'[p].http = IF proc[p].http = "serving" THEN "closed" ELSE "failed"
        /\ proc[p].http # "closed"
        /\ \A q \in Processes \ {p} : proc'[q] = proc[q]
    BY <1>6, <1>a, <1>b DEF CloseHTTP, Process
  <2>2. \A a \in Addresses : port'[<<a, "http">>] =
            IF port[<<a, "http">>] = p THEN Nobody ELSE port[<<a, "http">>]
    BY <1>6, <1>a DEF CloseHTTP, ClosePorts
  <2>3. deployed' = deployed /\ passing' = passing /\ gw' = gw
    BY <1>6 DEF CloseHTTP, ConsulAlone, Environment
  <2>4. \A q \in Processes : proc[q].http \in Opened => proc'[q].http \in Opened
    BY <2>1
  <2>5. Addressed
    BY <1>a, <1>b, <1>c, <2>1, <2>2, <2>3, <2>4
  <2>6. Phases
    BY <1>b, <2>1
  <2> QED BY <1>d, <2>3, <2>4, <2>5, <2>6
<1>7. ASSUME NEW p \in Processes, CloseGRPC(p) PROVE PortInv'
  <2>1. /\ proc'[p].pc = "deregister" /\ proc'[p].http = proc[p].http
        /\ \A q \in Processes \ {p} : proc'[q] = proc[q]
    BY <1>7, <1>a DEF CloseGRPC, Process
  <2>2. \A a \in Addresses : port'[<<a, "http">>] = port[<<a, "http">>]
    BY <1>7, <1>a DEF CloseGRPC, ClosePorts
  <2>3. deployed' = deployed /\ passing' = passing /\ gw' = gw
    BY <1>7 DEF CloseGRPC, ConsulAlone, Environment
  <2> QED BY <1>e, <2>1, <2>2, <2>3
<1>8. ASSUME NEW p \in Processes, Deregister(p) PROVE PortInv'
  <2>1. deployed' = deployed /\ passing' \subseteq passing /\ gw' = gw
    BY <1>8 DEF Deregister, Unregister, ConsulAlone, Environment
  <2>2. CASE Exit(p, "exited")
    BY <1>f, <2>1, <2>2
  <2>3. CASE proc' = [proc EXCEPT ![p].todo = Tail(@)] /\ UNCHANGED port
    <3>1. \A q \in Processes : proc'[q].http = proc[q].http /\ proc'[q].pc = proc[q].pc
      BY <1>a, <2>3 DEF Process
    <3> QED BY <1>e, <2>1, <2>3, <3>1
  <2> QED BY <1>8, <2>2, <2>3 DEF Deregister
<1>9. ASSUME NEW e \in Entry, Check(e) PROVE PortInv'
  <2>1. deployed' = deployed /\ proc' = proc /\ port' = port /\ gw' = gw
    BY <1>9 DEF Check, Environment
  <2>2. CASE passing' \subseteq passing
    BY <1>e, <2>1, <2>2
  <2>3. CASE Checked(e) /\ passing' = passing \cup {e}
    <3>1. e.id \in Processes /\ AddressOf(e.id) \in Addresses /\ PortOf(e) = <<AddressOf(e.id), "http">>
      BY <1>9, Deployed DEF Check, Entry, PortOf, TInv
    <3>2. Proven(AddressOf(e.id))
      BY <1>b, <2>3, <3>1 DEF Checked, Proven
    <3>3. \A a : Proven(a)' <=> Proven(a)
      BY <2>1 DEF Proven, AddressOf
    <3>4. \A d \in passing' : Proven(AddressOf(d.id))'
      BY <1>b, <2>1, <2>3, <3>2, <3>3 DEF AddressOf
    <3> QED BY <1>b, <2>1, <3>3, <3>4 DEF PortInv, AddressOf
  <2> QED BY <1>9, <2>2, <2>3 DEF Check
<1>10. ASSUME NEW e \in Entry, Reap(e) PROVE PortInv'
  BY <1>10, <1>e DEF Reap, Unregister, Environment
<1>11. CASE Ask \/ Forward \/ Retry
  <2>1. /\ deployed' = deployed /\ proc' = proc /\ port' = port /\ passing' = passing
    BY <1>11 DEF Ask, Forward, Retry, GatewayAlone
  <2>2. \A a : Proven(a)' <=> Proven(a)
    BY <2>1 DEF Proven, AddressOf
  <2>3. ASSUME NEW owner, NEW to, Resolve(owner, to)
        PROVE  gw'.pc = "resolved" => Proven(gw'.address)
    BY <1>b, <2>3 DEF Resolve, Candidates
  <2>4. gw'.pc = "resolved" => Proven(gw'.address)
    <3>1. CASE Ask \/ Retry
      BY <2>3, <3>1 DEF Ask, Retry
    <3>2. CASE Forward
      <4>1. [gw EXCEPT !.pc = "failed", !.address = Nobody].pc = "failed" /\ NoRequest.pc = "idle"
        BY DEF TInv, TypeOK, Request, NoRequest
      <4> QED BY <3>2, <4>1 DEF Forward
    <3> QED BY <1>11, <3>1, <3>2
  <2> QED BY <1>b, <2>1, <2>2, <2>4 DEF PortInv, AddressOf
<1>12. CASE UNCHANGED vars
  BY <1>12, <1>e DEF vars
<1> QED BY <1>1, <1>2, <1>3, <1>4, <1>5, <1>6, <1>7, <1>8, <1>9, <1>10, <1>11, <1>12
        DEF Next, MainStep, ConsulStep, GatewayStep

(* Nothing is forwarded to a port that has never been open, although       *)
(* processes register before they listen.                                  *)
THEOREM ForwardsOnlyToProven == Spec => []ForwardsToProven
<1>1. RegistryAssumption /\ Init => PortInv
  BY DEF Init, PortInv, NoRequest, RegistryAssumption, Protocols
<1>2. TInv /\ PortInv /\ [Next]_vars => PortInv'
  BY NextPorts, RegistryAssumption
<1>3. PortInv => ForwardsToProven
  BY DEF PortInv, ForwardsToProven, Proven
<1>4. TInv /\ [Next]_vars => TInv'
  BY NextType, RegistryAssumption
<1> QED BY <1>1, <1>2, <1>3, <1>4, InitType, RegistryAssumption, PTL DEF Spec

-----------------------------------------------------------------------------
(* Routing *)

(* What the gateway has found belongs to the service that has the path. *)
RouteInv ==
    /\ gw.pc # "idle" => gw.to = gw.owner
    /\ gw.pc = "resolved" => deployed.service[gw.address] = gw.to

LEMMA NextRoute ==
    ASSUME RegistryAssumption, TInv, RouteInv, [Next]_vars
    PROVE  RouteInv'
<1>1. ASSUME NEW owner, Resolve(owner, owner), deployed' = deployed PROVE RouteInv'
  BY <1>1 DEF Resolve, Candidates, ServiceOf, RouteInv
<1>2. CASE Ask
  <2>1. PICK a \in Addresses : \E path \in RoutesOf(deployed.service[a]) :
           Resolve(deployed.service[a], resolveRouteTarget(path))
    BY <1>2 DEF Ask
  <2>2. deployed.service[a] \in Services
    BY DEF RegistryAssumption, TInv, TypeOK
  <2>3. Resolve(deployed.service[a], deployed.service[a])
    BY <2>1, <2>2, RoutedToOwner
  <2> QED BY <1>1, <1>2, <2>3 DEF Ask, GatewayAlone
<1>3. CASE Retry
  BY <1>1, <1>3 DEF Retry, GatewayAlone, RouteInv
<1>4. CASE Forward
  <2>1. /\ NoRequest.pc = "idle"
        /\ [gw EXCEPT !.pc = "failed", !.address = Nobody].pc = "failed"
        /\ [gw EXCEPT !.pc = "failed", !.address = Nobody].to = gw.to
        /\ [gw EXCEPT !.pc = "failed", !.address = Nobody].owner = gw.owner
    BY DEF NoRequest, TInv, TypeOK, Request
  <2> QED BY <1>4, <2>1 DEF Forward, RouteInv
<1>5. ASSUME gw' = gw, deployed' = deployed PROVE RouteInv'
  BY <1>5 DEF RouteInv
<1>6. ASSUME NEW p \in Processes,
             \/ Launch(p) \/ MainStep(p) \/ Signal(p) \/ StartFails(p) \/ Kill(p)
      PROVE  gw' = gw /\ deployed' = deployed
  BY <1>6 DEF MainStep, Launch, ListInstances, RemoveInstance, RemoveFails, StartFails,
              RegisterService, ListenHTTP, ListenGRPC, Signal, CloseHTTP, CloseGRPC,
              Deregister, Kill, Environment
<1>7. ASSUME NEW e \in Entry, ConsulStep(e) PROVE gw' = gw /\ deployed' = deployed
  BY <1>7 DEF ConsulStep, Check, Reap, Environment
<1>8. CASE UNCHANGED vars
  BY <1>5, <1>8 DEF vars
<1> QED BY <1>2, <1>3, <1>4, <1>5, <1>6, <1>7, <1>8 DEF Next, GatewayStep

(* A request that is answered reached the service whose router has its     *)
(* path.                                                                   *)
THEOREM AnswersFromOwner == Spec => AnsweredByOwner
<1>1. Init => RouteInv
  BY DEF Init, RouteInv, NoRequest
<1>2. TInv /\ RouteInv /\ [Next]_vars => RouteInv'
  BY NextRoute, RegistryAssumption
<1>3. RouteInv => [gw.pc = "resolved" /\ gw'.pc = "idle" =>
                      deployed.service[gw.address] = gw.owner]_vars
  BY DEF RouteInv
<1>4. TInv /\ [Next]_vars => TInv'
  BY NextType, RegistryAssumption
<1> QED BY <1>1, <1>2, <1>3, <1>4, InitType, RegistryAssumption, PTL DEF Spec, AnsweredByOwner

-----------------------------------------------------------------------------
(* Shutdown *)

(* Without a fault, what a process still has to deregister is in its list, *)
(* and when it has exited nothing is left.                                 *)
OrderInv ==
    faults = 0 =>
        \A e \in catalog :
            /\ proc[e.id].pc # "exited"
            /\ proc[e.id].pc = "deregister" => In(e.protocol, proc[e.id].todo)

LEMMA NextOrder ==
    ASSUME RegistryAssumption, TInv, RInv, OrderInv, [Next]_vars
    PROVE  OrderInv'
<1> DEFINE Last == {"deregister", "exited"}
<1>a. /\ proc \in [Processes -> Process] /\ \A p \in Processes : proc[p] \in Process
      /\ \A e \in catalog : e \in Entry /\ e.id \in Processes /\ e.protocol \in Protocols
      /\ faults \in Nat
  BY EntryForm DEF TInv, TypeOK, Proceeds, RegistryAssumption
<1>b. ASSUME catalog' \subseteq catalog, faults' = 0 => faults = 0,
             \A p \in Processes : proc'[p].pc \in Last =>
                proc'[p].pc = proc[p].pc /\ proc'[p].todo = proc[p].todo
      PROVE  OrderInv'
  BY <1>a, <1>b DEF OrderInv
<1>1. ASSUME NEW p \in Processes, proc'[p].pc \notin Last,
             \A q \in Processes \ {p} : proc'[q] = proc[q],
             catalog' \subseteq catalog \cup {[id |-> p, protocol |-> Head(proc[p].todo)]},
             faults' = 0 => faults = 0
      PROVE  OrderInv'
  BY <1>a, <1>1 DEF OrderInv
<1>2. ASSUME NEW p \in Processes, Launch(p) \/ RegisterService(p) \/ Signal(p) \/ CloseHTTP(p)
      PROVE  OrderInv'
  <2>1. proc'[p].pc \notin Last /\ \A q \in Processes \ {p} : proc'[q] = proc[q]
    <3>1. CASE Launch(p)
      BY <1>a, <3>1 DEF Launch, Process
    <3>2. CASE RegisterService(p)
      BY <1>a, <3>2 DEF RegisterService, Process
    <3>3. CASE Signal(p) \/ CloseHTTP(p)
      BY <1>a, <3>3 DEF Signal, CloseHTTP, Process
    <3> QED BY <1>2, <3>1, <3>2, <3>3
  <2>2. /\ catalog' \subseteq catalog \cup {[id |-> p, protocol |-> Head(proc[p].todo)]}
        /\ faults' = faults
    BY <1>2 DEF Launch, RegisterService, Signal, CloseHTTP, ConsulAlone
  <2> QED BY <1>1, <2>1, <2>2
<1>3. ASSUME NEW p \in Processes, ListInstances(p) \/ RemoveInstance(p)
      PROVE  OrderInv'
  <2>1. NextEndpoint(p).pc \in {"list", "register"}
    BY <1>a DEF NextEndpoint, Process
  <2>2. proc'[p].pc \notin Last /\ \A q \in Processes \ {p} : proc'[q] = proc[q]
    <3>1. CASE ListInstances(p)
      BY <1>a, <2>1, <3>1 DEF ListInstances, Process
    <3>2. CASE RemoveInstance(p)
      BY <1>a, <2>1, <3>2 DEF RemoveInstance, Process
    <3> QED BY <1>3, <3>1, <3>2
  <2>3. catalog' \subseteq catalog /\ faults' = faults
    BY <1>3 DEF ListInstances, RemoveInstance, Unregister, ConsulAlone
  <2> QED BY <1>1, <2>2, <2>3
<1>4. ASSUME NEW p \in Processes, Exit(p, "dead"), catalog' = catalog, faults' = 0 => faults = 0
      PROVE  OrderInv'
  BY <1>1, <1>4, Ended
<1>5. ASSUME NEW p \in Processes, RemoveFails(p) \/ StartFails(p) \/ Kill(p) PROVE OrderInv'
  BY <1>a, <1>4, <1>5 DEF RemoveFails, StartFails, Kill, Spend, ConsulAlone
<1>6. ASSUME NEW p \in Processes, ListenHTTP(p) \/ ListenGRPC(p) PROVE OrderInv'
  <2>1. catalog' = catalog /\ faults' = faults
    BY <1>6 DEF ListenHTTP, ListenGRPC, ConsulAlone
  <2>2. CASE Exit(p, "dead")
    BY <1>4, <2>1, <2>2
  <2>3. ASSUME NEW how, \/ proc' = [proc EXCEPT ![p].http = how]
                        \/ proc' = [proc EXCEPT ![p].grpc = how]
        PROVE  OrderInv'
    <3>1. CASE proc' = [proc EXCEPT ![p].http = how]
      <4>1. \A q \in Processes : proc'[q].pc = proc[q].pc /\ proc'[q].todo = proc[q].todo
        BY <1>a, <3>1 DEF Process
      <4> QED BY <1>b, <2>1, <4>1
    <3>2. CASE proc' = [proc EXCEPT ![p].grpc = how]
      <4>1. \A q \in Processes : proc'[q].pc = proc[q].pc /\ proc'[q].todo = proc[q].todo
        BY <1>a, <3>2 DEF Process
      <4> QED BY <1>b, <2>1, <4>1
    <3> QED BY <2>3, <3>1, <3>2
  <2> QED BY <1>6, <2>2, <2>3 DEF ListenHTTP, ListenGRPC
<1>7. ASSUME NEW p \in Processes, CloseGRPC(p) PROVE OrderInv'
  <2>1. /\ proc'[p].pc = "deregister" /\ proc'[p].todo = Endpoints(ServiceOf(p))
        /\ \A q \in Processes \ {p} : proc'[q] = proc[q]
    BY <1>7, <1>a DEF CloseGRPC, ToDeregister, Process
  <2>2. catalog' = catalog /\ faults' = faults
    BY <1>7 DEF CloseGRPC, ConsulAlone
  <2>3. \A e \in catalog : In(e.protocol, Endpoints(ServiceOf(e.id)))
    BY DEF RInv, Registration
  <2> QED BY <1>a, <2>1, <2>2, <2>3 DEF OrderInv
<1>8. ASSUME NEW p \in Processes, Deregister(p) PROVE OrderInv'
  <2> SUFFICES ASSUME faults' = 0 PROVE OrderInv'
    BY DEF OrderInv
  <2> DEFINE todo == proc[p].todo
  <2>1. todo \in Seq(Protocols) /\ todo # << >> /\ proc[p].pc = "deregister"
    BY <1>8, <1>a DEF Deregister, TInv, Proceeds, Treats, Process
  <2>2. faults = 0 /\ catalog' = catalog \ {[id |-> p, protocol |-> Head(todo)]}
    BY <1>8, <1>a DEF Deregister, Unregister, Spend
  <2>3. ASSUME NEW e \in catalog', e.id = p PROVE In(e.protocol, Tail(todo))
    <3>1. In(e.protocol, todo)
      BY <2>1, <2>2, <2>3 DEF OrderInv
    <3>2. e \in Entry
      BY <1>a, <2>2
    <3>3. e.protocol # Head(todo)
      BY <2>2, <2>3, <3>2 DEF Entry
    <3> QED BY <2>1, <3>1, <3>3, InHeadTail
  <2>4. CASE Len(todo) > 1
    <3>1. proc' = [proc EXCEPT ![p].todo = Tail(@)]
      BY <1>8, <2>4 DEF Deregister
    <3>2. /\ proc'[p].pc = "deregister" /\ proc'[p].todo = Tail(todo)
          /\ \A q \in Processes \ {p} : proc'[q] = proc[q]
      BY <1>a, <2>1, <3>1 DEF Process
    <3>3. \A e \in catalog' : e.id # p =>
            /\ proc[e.id].pc # "exited"
            /\ (proc[e.id].pc = "deregister" => In(e.protocol, proc[e.id].todo))
      BY <2>2 DEF OrderInv
    <3> QED BY <1>a, <2>2, <2>3, <3>2, <3>3 DEF OrderInv
  <2>5. CASE ~(Len(todo) > 1)
    <3>1. \A e \in catalog' : e.id # p
      BY <2>1, <2>3, <2>5, InHeadTail
    <3>2. Exit(p, "exited")
      BY <1>8, <2>5 DEF Deregister
    <3>3. \A q \in Processes \ {p} : proc'[q] = proc[q]
      BY <3>2, Ended
    <3> QED BY <1>a, <2>2, <3>1, <3>3 DEF OrderInv
  <2> QED BY <2>4, <2>5
<1>9. ASSUME NEW e \in Entry, Check(e) \/ Reap(e) PROVE OrderInv'
  BY <1>9, <1>b DEF Check, Reap, Unregister
<1>10. CASE Ask \/ Forward \/ Retry
  BY <1>10, <1>b DEF Ask, Forward, Retry, GatewayAlone
<1>11. CASE UNCHANGED vars
  BY <1>11, <1>b DEF vars
<1> QED BY <1>2, <1>3, <1>5, <1>6, <1>7, <1>8, <1>9, <1>10, <1>11
        DEF Next, MainStep, ConsulStep, GatewayStep

(* An orderly shutdown leaves nothing in Consul, whichever way the race on *)
(* grpcSrv goes.                                                           *)
THEOREM OrderlyShutdown == Spec => []LeavesNothing
<1>1. Init => OrderInv
  BY DEF Init, OrderInv
<1>2. TInv /\ RInv /\ OrderInv /\ [Next]_vars => OrderInv'
  BY NextOrder, RegistryAssumption
<1>3. OrderInv => LeavesNothing
  BY DEF OrderInv, LeavesNothing
<1> QED BY <1>1, <1>2, <1>3, Registered, PTL DEF Spec

=============================================================================
