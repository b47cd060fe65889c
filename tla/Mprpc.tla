------------------------------- MODULE Mprpc -------------------------------
(***************************************************************************)
(* mprpc: a provider registers the methods of its service in ZooKeeper as  *)
(* ephemeral nodes and serves them; a caller looks the method up, connects, *)
(* sends one request, and reads one answer.                                *)
(*                                                                         *)
(* What goes over the wire are bytes, written and parsed by the generated  *)
(* message classes (RpcHeader, UserMessages, FriendMessages).  TCP may     *)
(* deliver a request or an answer in pieces.  Names and arguments are      *)
(* those of the example programs, cut to one letter.                       *)
(***************************************************************************)
EXTENDS Naturals, Sequences, FiniteSets, Messages

CONSTANTS Services,     \* the example programs: "user", "friend"
          MaxPairs,     \* bound: pairs of a provider and a caller that run
          MaxReads,     \* bound: reads it takes to get a request
          MaxCrashes,   \* bound: providers that end before they should
          MaxPartitions \* bound: sessions that expire beside a live provider

ASSUME RpcAssumption == /\ Services \subseteq {"user", "friend"}
                        /\ MaxPairs \in Nat /\ MaxReads \in Nat \ {0}
                        /\ MaxCrashes \in Nat /\ MaxPartitions \in Nat

-----------------------------------------------------------------------------
(* The services and the calls of the example programs.                     *)

Letter(c) == <<c>>
UserServiceRpc == Letter(85)
FriendServiceRpc == Letter(70)
Login == Letter(76)
Register == Letter(82)
GetFriendsList == Letter(71)

ServiceName(s) == IF s = "user" THEN UserServiceRpc ELSE FriendServiceRpc
Methods(s) == IF s = "user" THEN {Login, Register} ELSE {GetFriendsList}

\* GetRequestPrototype() and GetResponsePrototype() pick the class to parse.
ParseRequest(method, b) ==
  CASE method = Login -> U!LoginRequest_InternalParse(U!LoginRequest_Clear, b)
    [] method = Register ->
         U!RegisterRequest_InternalParse(U!RegisterRequest_Clear, b)
    [] method = GetFriendsList ->
         F!GetFriendsListRequest_InternalParse(F!GetFriendsListRequest_Clear, b)

ParseResponse(method, b) ==
  CASE method = Login -> U!LoginResponse_InternalParse(U!LoginResponse_Clear, b)
    [] method = Register ->
         U!RegisterResponse_InternalParse(U!RegisterResponse_Clear, b)
    [] method = GetFriendsList ->
         F!GetFriendsListResponse_InternalParse(F!GetFriendsListResponse_Clear,
                                                b)

\* The methods of UserService and FriendService, up to done->Run().
UserLogin ==
  LET code == U!LoginResponse_mutable_result(U!LoginResponse_Clear)
      ok == U!ResultCode_set_errmsg(
              U!ResultCode_set_errcode(code.result[1], 0), << >>)
  IN U!LoginResponse_set_sucess([code EXCEPT !.result = <<ok>>], TRUE)

UserRegister ==
  LET code == U!RegisterResponse_mutable_result(U!RegisterResponse_Clear)
      ok == U!ResultCode_set_errmsg(
              U!ResultCode_set_errcode(code.result[1], 0), << >>)
  IN U!RegisterResponse_set_sucess([code EXCEPT !.result = <<ok>>], TRUE)

FriendGetFriendsList ==
  LET code == F!GetFriendsListResponse_mutable_result(
                F!GetFriendsListResponse_Clear)
      ok == F!ResultCode_set_errmsg(
              F!ResultCode_set_errcode(code.result[1], 0), << >>)
      Add(r, name) == F!GetFriendsListResponse_add_friends(r, Letter(name))
  IN Add(Add(Add([code EXCEPT !.result = <<ok>>], 115), 102), 98)

\* CallMethod() of the generated service, and the serialized response.
Answer == [method \in {Login, Register, GetFriendsList} |->
  CASE method = Login -> U!LoginResponse_InternalSerialize(UserLogin)
    [] method = Register -> U!RegisterResponse_InternalSerialize(UserRegister)
    [] method = GetFriendsList ->
         F!GetFriendsListResponse_InternalSerialize(FriendGetFriendsList)]

\* calluserservice.cc and callfriendservice.cc.
LoginArgs == U!LoginRequest_set_pwd(
               U!LoginRequest_set_name(U!LoginRequest_Clear, Letter(120)),
               Letter(57))
RegisterArgs == U!RegisterRequest_set_pwd(
                  U!RegisterRequest_set_name(
                    U!RegisterRequest_set_id(U!RegisterRequest_Clear, 1111),
                    Letter(113)), Letter(48))
FriendsArgs ==
  F!GetFriendsListRequest_set_userid(F!GetFriendsListRequest_Clear, 1001)

Calls == [s \in {"user", "friend"} |->
  IF s = "user"
  THEN << [method |-> Login, request |-> LoginArgs,
           args |-> U!LoginRequest_InternalSerialize(LoginArgs)],
          [method |-> Register, request |-> RegisterArgs,
           args |-> U!RegisterRequest_InternalSerialize(RegisterArgs)] >>
  ELSE << [method |-> GetFriendsList, request |-> FriendsArgs,
           args |-> F!GetFriendsListRequest_InternalSerialize(FriendsArgs)] >>]

\* Variant: the length of the header counts its own four bytes.
HeaderSize_Inclusive(header) == Len(header) + 4
HeaderSize(header) == Len(header)

\* Variant: args_size is not set.
RequestBytes_NoArgsSize(s, call) ==
  LET header == H!InternalSerialize(
                  H!set_method_name(H!set_service_name(
                    H!Clear, ServiceName(s)), call.method))
  IN <<HeaderSize(header), 0, 0, 0>> \o header \o call.args

\* What MprpcChannel::CallMethod() sends: the length of the header in the four
\* bytes of an int, the header, the arguments.
RequestBytes(s, call) ==
  LET header == H!InternalSerialize(
                  H!set_args_size(H!set_method_name(H!set_service_name(
                    H!Clear, ServiceName(s)), call.method), Len(call.args)))
  IN <<HeaderSize(header), 0, 0, 0>> \o header \o call.args

-----------------------------------------------------------------------------
(* RpcProvider::OnMessage(), for the bytes b of one read.                  *)

Upto(b, from, to) == SubSeq(b, from, IF to < Len(b) THEN to ELSE Len(b))
TooLong == 65536        \* longer than any message here
SizeIn(b) == IF b[3] = 0 /\ b[4] = 0 THEN b[1] + 256 * b[2] ELSE TooLong

Throws == [end |-> "throws"]
Returns == [end |-> "returns"]

Execute(method, request) ==
  IF request = << >> THEN Returns
  ELSE [end |-> "answers", method |-> method, request |-> request[1]]

Dispatch(s, header, args) ==
  IF \/ header.service_name # ServiceName(s)
     \/ header.method_name \notin Methods(s)
  THEN Returns
  ELSE Execute(header.method_name, ParseRequest(header.method_name, args))

\* substr() throws if it starts behind the end, and nobody catches; what
\* cannot be parsed or is not known is dropped without an answer.
OnMessage(s, b) ==
  LET size == SizeIn(b)
      parsed == H!InternalParse(H!Clear, Upto(b, 5, 4 + size))
  IN CASE Len(b) < 4 -> Throws
       [] Len(b) >= 4 /\ parsed = << >> -> Returns
       [] OTHER ->
            IF 4 + size > Len(b) THEN Throws
            ELSE Dispatch(s, parsed[1],
                          Upto(b, 5 + size, 4 + size + parsed[1].args_size))

-----------------------------------------------------------------------------
(* State.                                                                  *)

\* Znodes: the persistent one of a service, the ephemeral one of a method.
ServiceNode == << >>
NodesOf(s) == Methods(s) \cup {ServiceNode}
Nobody == 0             \* a znode's owner: it does not exist
Forever == 1            \* it is persistent; other numbers are sessions

VARIABLES
    pc,                 \* of each provider process
    zk, callerZk,       \* of each process: its ZooKeeper handle
    session,            \* of each provider: the session it got
    todo, path,         \* of each provider: znodes to create, and the current
    missed,             \* history: znodes the provider did not create
    nodes,              \* ZooKeeper: the owner of each znode
    lastSession, expired,
    crashes, partitions,
    callerPc, calls,    \* of each caller: where it is, in which call
    toServer, toClient, \* its connection: bytes on their way
    serverOpen,         \* ... the provider has not shut it down
    left,               \* of each call: bytes on their way to the provider
                        \* when the caller closed its connection
    reads, cut,         \* history, of the call: reads of the request; whether
                        \* the answer came short
    executed, outcome   \* ... what was executed; how the call ended

providerVars == <<pc, zk, session, todo, path, missed>>
registryVars == <<nodes, lastSession, expired>>
boundVars == <<crashes, partitions>>
callerVars == <<callerPc, callerZk, calls>>
connVars == <<toServer, toClient, serverOpen, left, reads>>
historyVars == <<cut, executed, outcome>>
vars == <<providerVars, registryVars, boundVars, callerVars, connVars,
          historyVars>>

Init ==
  /\ \E running \in SUBSET Services :
       /\ Cardinality(running) = MaxPairs
       /\ pc = [s \in Services |-> IF s \in running THEN "down" ELSE "off"]
       /\ callerPc = [s \in Services |->
                        IF s \in running THEN "call" ELSE "done"]
  /\ zk = [s \in Services |-> "none"]
  /\ session = [s \in Services |-> Nobody]
  /\ todo = [s \in Services |-> {}]
  /\ path = [s \in Services |-> ServiceNode]
  /\ missed = [s \in Services |-> {}]
  /\ nodes = [s \in Services |-> [m \in NodesOf(s) |-> Nobody]]
  /\ lastSession = Forever /\ expired = {}
  /\ crashes = 0 /\ partitions = 0
  /\ callerZk = [s \in Services |-> "none"]
  /\ calls = [s \in Services |-> 0]
  /\ toServer = [s \in Services |-> << >>]
  /\ toClient = [s \in Services |-> << >>]
  /\ serverOpen = [s \in Services |-> FALSE]
  /\ left = [s \in Services |-> [i \in 1..Len(Calls[s]) |-> << >>]]
  /\ reads = [s \in Services |-> 0] /\ cut = [s \in Services |-> FALSE]
  /\ executed = [s \in Services |-> << >>]
  /\ outcome = [s \in Services |-> "none"]

-----------------------------------------------------------------------------
(* The provider.                                                           *)

\* main(): MprpcApplication::Init(), NotifyService(), and Run() up to the
\* zookeeper_init() of ZkClient::start(), whose threads run from now on.
Launch(s) ==
  /\ pc[s] = "down"
  /\ pc' = [pc EXCEPT ![s] = "zookeeper"]
  /\ zk' = [zk EXCEPT ![s] = "connecting"]
  /\ todo' = [todo EXCEPT ![s] = NodesOf(s)]
  /\ missed' = [missed EXCEPT ![s] = {}]
  /\ UNCHANGED <<session, path, registryVars, boundVars, callerVars, connVars,
                 historyVars>>

\* zoo_set_context(), before the sem_wait().
SetContext(s) ==
  /\ zk[s] = "connecting"
  /\ zk' = [zk EXCEPT ![s] = "waiting"]
  /\ UNCHANGED <<pc, session, todo, path, missed, registryVars, boundVars,
                 callerVars, connVars, historyVars>>

\* The process ends.  Its connections are closed; its session lives on until it
\* expires.
Dies(s) ==
  /\ pc' = [pc EXCEPT ![s] = "down"]
  /\ zk' = [zk EXCEPT ![s] = "none"]
  /\ todo' = [todo EXCEPT ![s] = {}]
  /\ serverOpen' = [serverOpen EXCEPT ![s] = FALSE]
  /\ toServer' = [toServer EXCEPT ![s] = << >>]
  /\ left' = [left EXCEPT ![s] = [i \in 1..Len(Calls[s]) |-> << >>]]

\* global_watcher() in the event thread: sem_post() lets start() go on; with
\* no context yet, it posts through a null pointer.
Connected(s) ==
  \/ /\ zk[s] = "waiting"
     /\ zk' = [zk EXCEPT ![s] = "ready"]
     /\ pc' = [pc EXCEPT ![s] = "exists"]
     /\ lastSession' = lastSession + 1
     /\ session' = [session EXCEPT ![s] = lastSession']
     /\ UNCHANGED <<todo, path, missed, nodes, expired, boundVars, callerVars,
                    connVars, historyVars>>
  \/ /\ zk[s] = "connecting"
     /\ crashes < MaxCrashes
     /\ crashes' = crashes + 1
     /\ Dies(s)
     /\ UNCHANGED <<session, path, missed, registryVars, partitions,
                    callerVars, toClient, reads, historyVars>>

\* ZkClient::Create(), its zoo_exists(): only if the answer is that there is
\* no such znode, it will be created.  Parents come first.
Exists(s) ==
  /\ pc[s] = "exists"
  /\ \E m \in todo[s] :
       /\ m # ServiceNode => ServiceNode \notin todo[s]
       /\ todo' = [todo EXCEPT ![s] = @ \ {m}]
       /\ path' = [path EXCEPT ![s] = m]
       /\ IF session[s] \notin expired /\ nodes[s][m] = Nobody
          THEN pc' = [pc EXCEPT ![s] = "create"] /\ UNCHANGED missed
          ELSE missed' = [missed EXCEPT ![s] = @ \cup {m}] /\ UNCHANGED pc
  /\ UNCHANGED <<zk, session, registryVars, boundVars, callerVars, connVars,
                 historyVars>>

\* Variant: the znodes of the methods are persistent, too.
Owner_Forever(s, m) == Forever
Owner(s, m) == IF m = ServiceNode THEN Forever ELSE session[s]

\* ... and its zoo_create(); any error is the end of the process.
Create(s) ==
  /\ pc[s] = "create"
  /\ IF session[s] \in expired
     THEN /\ Dies(s)
          /\ UNCHANGED nodes
     ELSE /\ nodes' = [nodes EXCEPT ![s][path[s]] = Owner(s, path[s])]
          /\ pc' = [pc EXCEPT ![s] = "exists"]
          /\ UNCHANGED <<zk, todo, serverOpen, toServer, left>>
  /\ UNCHANGED <<session, path, missed, lastSession, expired, boundVars,
                 callerVars, toClient, reads, historyVars>>

\* server.start(), m_eventLoop.loop().
Serve(s) ==
  /\ pc[s] = "exists" /\ todo[s] = {}
  /\ pc' = [pc EXCEPT ![s] = "serve"]
  /\ UNCHANGED <<zk, session, todo, path, missed, registryVars, boundVars,
                 callerVars, connVars, historyVars>>

\* The provider is killed, or a later global_watcher() posts a semaphore that
\* start() has left behind on its stack.
Crash(s) ==
  /\ pc[s] \notin {"down", "off"}
  /\ crashes < MaxCrashes
  /\ crashes' = crashes + 1
  /\ Dies(s)
  /\ UNCHANGED <<session, path, missed, registryVars, partitions, callerVars,
                 toClient, reads, historyVars>>

\* ZooKeeper drops a session and its ephemeral znodes.
Expire(id) ==
  /\ id \in (Forever + 1)..lastSession /\ id \notin expired
  /\ IF \E s \in Services : session[s] = id /\ zk[s] = "ready"
     THEN partitions < MaxPartitions /\ partitions' = partitions + 1
     ELSE UNCHANGED partitions
  /\ expired' = expired \cup {id}
  /\ nodes' = [s \in Services |->
                 [m \in NodesOf(s) |-> IF nodes[s][m] = id THEN Nobody
                                       ELSE nodes[s][m]]]
  /\ UNCHANGED <<providerVars, lastSession, crashes, callerVars, connVars,
                 historyVars>>

-----------------------------------------------------------------------------
(* The caller, MprpcChannel::CallMethod().                                 *)

Call(s) == Calls[s][calls[s]]

\* Variant: one call more than there are.
MoreCalls_Again(s) == calls[s] <= Len(Calls[s])
MoreCalls(s) == calls[s] < Len(Calls[s])

\* The call is over, and the connection closed: what is left of a request that
\* TCP cut may yet be read.  A call that failed is reported to the controller,
\* and calluserservice.cc passes none; otherwise main() looks at the error
\* code of the response, and makes the next call.
EndCall(s, result) ==
  /\ outcome' = [outcome EXCEPT ![s] = result]
  /\ callerZk' = [callerZk EXCEPT ![s] = "none"]
  /\ callerPc' = [callerPc EXCEPT ![s] =
                    IF result = "failed" /\ s = "user" THEN "crashed"
                    ELSE IF MoreCalls(s) THEN "call" ELSE "done"]
  /\ serverOpen' = [serverOpen EXCEPT ![s] = FALSE]
  /\ left' = [left EXCEPT ![s][calls[s]] = toServer[s]]
  /\ toServer' = [toServer EXCEPT ![s] = << >>]
  /\ toClient' = [toClient EXCEPT ![s] = << >>]
  /\ UNCHANGED <<calls, reads>>

\* Both strings are built, and a ZkClient started.
Begin(s) ==
  /\ callerPc[s] = "call"
  /\ callerPc' = [callerPc EXCEPT ![s] = "zookeeper"]
  /\ callerZk' = [callerZk EXCEPT ![s] = "connecting"]
  /\ calls' = [calls EXCEPT ![s] = @ + 1]
  /\ reads' = [reads EXCEPT ![s] = 0]
  /\ cut' = [cut EXCEPT ![s] = FALSE]
  /\ executed' = [executed EXCEPT ![s] = << >>]
  /\ outcome' = [outcome EXCEPT ![s] = "none"]
  /\ UNCHANGED <<providerVars, registryVars, boundVars, toServer, toClient,
                 serverOpen, left>>

CallerSetContext(s) ==
  /\ callerZk[s] = "connecting"
  /\ callerZk' = [callerZk EXCEPT ![s] = "waiting"]
  /\ UNCHANGED <<providerVars, registryVars, boundVars, callerPc, calls,
                 connVars, historyVars>>

CallerConnected(s) ==
  /\ callerPc[s] = "zookeeper"
  /\ \/ callerZk[s] = "waiting" /\ callerPc' = [callerPc EXCEPT ![s] = "lookup"]
     \/ callerZk[s] = "connecting"
        /\ callerPc' = [callerPc EXCEPT ![s] = "crashed"]
  /\ callerZk' = [callerZk EXCEPT ![s] = "ready"]
  /\ UNCHANGED <<providerVars, registryVars, boundVars, calls, connVars,
                 historyVars>>

\* ZkClient::GetData().
Lookup(s) ==
  /\ callerPc[s] = "lookup"
  /\ IF nodes[s][Call(s).method] = Nobody
     THEN EndCall(s, "failed")
     ELSE /\ callerPc' = [callerPc EXCEPT ![s] = "connect"]
          /\ UNCHANGED <<callerZk, calls, outcome, connVars>>
  /\ UNCHANGED <<providerVars, registryVars, boundVars, cut, executed>>

\* connect() and send().  The address is followed by whatever was on the
\* stack, so that connect() may fail beside a serving provider.
Send(s) ==
  /\ callerPc[s] = "connect"
  /\ \/ EndCall(s, "failed")
     \/ /\ pc[s] = "serve"
        /\ callerPc' = [callerPc EXCEPT ![s] = "recv"]
        /\ serverOpen' = [serverOpen EXCEPT ![s] = TRUE]
        /\ toServer' = [toServer EXCEPT ![s] = RequestBytes(s, Call(s))]
        /\ UNCHANGED <<callerZk, calls, outcome, toClient, left, reads>>
  /\ UNCHANGED <<providerVars, registryVars, boundVars, cut, executed>>

Executed(s, m, whole) ==
  IF m.end # "answers" THEN executed
  ELSE [executed EXCEPT ![s] = Append(@, [method |-> m.method,
                                          request |-> m.request,
                                          whole |-> whole])]

\* One read of the provider: OnMessage() and, if the service is called, its
\* answer by SendRpcResponse(), which shuts the connection down.
Deliver(s) ==
  /\ pc[s] = "serve" /\ toServer[s] # << >>
  /\ \E k \in 1..Len(toServer[s]) :
     \E m \in {OnMessage(s, SubSeq(toServer[s], 1, k))} :
       /\ k < Len(toServer[s]) => reads[s] + 1 < MaxReads
       /\ reads' = [reads EXCEPT ![s] = @ + 1]
       /\ IF m.end = "throws"
          THEN /\ Dies(s)
               /\ UNCHANGED <<toClient, executed>>
          ELSE /\ toServer' = [toServer EXCEPT
                                ![s] = SubSeq(@, k + 1, Len(@))]
               /\ IF m.end = "answers" /\ serverOpen[s]
                  THEN /\ serverOpen' = [serverOpen EXCEPT ![s] = FALSE]
                       /\ toClient' = [toClient EXCEPT
                                         ![s] = Answer[m.method]]
                  ELSE UNCHANGED <<serverOpen, toClient>>
               /\ executed' = Executed(s, m, reads[s] = 0
                                              /\ k = Len(toServer[s]))
               /\ UNCHANGED <<pc, zk, todo, left>>
  /\ UNCHANGED <<session, path, missed, registryVars, boundVars, callerVars,
                 cut, outcome>>

\* A read on a connection that the caller has closed: the provider has shut
\* down its own side only, and what is left of a request is one more message.
\* At least one read of that request came before.
ReadRest(s) ==
  /\ pc[s] = "serve"
  /\ \E i \in 1..Len(Calls[s]) : \E k \in 1..Len(left[s][i]) :
     \E m \in {OnMessage(s, SubSeq(left[s][i], 1, k))} :
       /\ k < Len(left[s][i]) => MaxReads > 2
       /\ IF m.end = "throws"
          THEN Dies(s) /\ UNCHANGED executed
          ELSE /\ left' = [left EXCEPT ![s][i] = SubSeq(@, k + 1, Len(@))]
               /\ executed' = Executed(s, m, FALSE)
               /\ UNCHANGED <<pc, zk, todo, serverOpen, toServer>>
  /\ UNCHANGED <<session, path, missed, registryVars, boundVars, callerVars,
                 toClient, reads, cut, outcome>>

Reported(s, b) ==
  IF ParseResponse(Call(s).method, b) = << >> THEN "failed" ELSE "success"

\* One recv(), of what has arrived of the answer; of nothing, if the provider
\* is gone.  A response that is empty or short may parse, with error code 0.
Receive(s) ==
  /\ callerPc[s] = "recv"
  /\ \E k \in 0..Len(toClient[s]) :
       /\ k = 0 => toClient[s] = << >> /\ ~serverOpen[s]
       /\ cut' = [cut EXCEPT ![s] =
                    k < Len(Answer[Call(s).method])]
       /\ EndCall(s, Reported(s, SubSeq(toClient[s], 1, k)))
  /\ UNCHANGED <<providerVars, registryVars, boundVars, executed>>

\* recv() fails on a connection that the provider's host has reset, whatever
\* had arrived.
Reset(s) ==
  /\ callerPc[s] = "recv" /\ ~serverOpen[s]
  /\ EndCall(s, "failed")
  /\ UNCHANGED <<providerVars, registryVars, boundVars, cut, executed>>

-----------------------------------------------------------------------------
Provider(s) == SetContext(s) \/ Connected(s) \/ Exists(s) \/ Create(s)
               \/ Serve(s) \/ Deliver(s)
Caller(s) == Begin(s) \/ CallerSetContext(s) \/ CallerConnected(s)
             \/ Lookup(s) \/ Send(s) \/ Receive(s) \/ Reset(s)
Terminated == /\ \A s \in Services : callerPc[s] \in {"done", "crashed"}
              /\ UNCHANGED vars

Next == \/ \E s \in Services : \/ Launch(s) \/ Crash(s) \/ Provider(s)
                              \/ ReadRest(s) \/ Caller(s)
        \/ \E id \in (Forever + 1)..lastSession : Expire(id)
        \/ Terminated

Spec == Init /\ [][Next]_vars

\* Processes go on, ZooKeeper answers, and what was sent arrives, but for what
\* is left on a connection the caller closed.  Nobody has to start a provider
\* or to stop one.
Fairness == \A s \in Services : WF_vars(Provider(s)) /\ WF_vars(Caller(s))

FairSpec == Spec /\ Fairness

-----------------------------------------------------------------------------
(* Properties.                                                             *)

Sessions == (Forever + 1)..lastSession

\* The type invariant.
MprpcTypeOK ==
  /\ pc \in [Services -> {"off", "down", "zookeeper", "exists", "create",
                          "serve"}]
  /\ zk \in [Services -> {"none", "connecting", "waiting", "ready"}]
  /\ session \in [Services -> Sessions \cup {Nobody}]
  /\ \A s \in Services :
       /\ todo[s] \cup missed[s] \cup {path[s]} \subseteq NodesOf(s)
       /\ \A m \in NodesOf(s) : nodes[s][m] \in 0..lastSession
       /\ calls[s] \in 0..Len(Calls[s])
       /\ toServer[s] \in Seq(H!Byte) /\ toClient[s] \in Seq(H!Byte)
       /\ left[s] \in [1..Len(Calls[s]) -> Seq(H!Byte)]
  /\ expired \subseteq Sessions
  /\ crashes \in 0..MaxCrashes /\ partitions \in 0..MaxPartitions
  /\ callerPc \in [Services -> {"call", "zookeeper", "lookup", "connect",
                                "recv", "done", "crashed"}]

IsDefault(field, value) == IF field \in {"id", "userid"} THEN value = 0
                           ELSE value = << >>

\* What the provider executes is what the caller asked for: the request is
\* executed at most once, by the method called, and every argument is the one
\* sent or, if TCP cut the request, missing (rpcprovider.cc:101-154 takes what
\* one read brought for a request); in one read, nothing is lost.  A call that
\* reports success was executed, unless the answer itself came short: zero
\* bytes parse as a response (mprpcchannel.cc:142-152).
CallsAreFaithful ==
  \A s \in Services :
    LET call == Call(s)  done == executed[s] IN
    /\ Len(done) <= 1
    /\ \A i \in 1..Len(done) :
         /\ done[i].method = call.method
         /\ DOMAIN done[i].request = DOMAIN call.request
         /\ \A f \in DOMAIN call.request :
              \/ done[i].request[f] = call.request[f]
              \/ IsDefault(f, done[i].request[f])
         /\ done[i].whole => done[i].request = call.request
    /\ outcome[s] = "success" /\ ~cut[s] => Len(done) = 1

\* A method is registered as long as its provider's session lives and no
\* longer: its znode belongs to a session that has not expired, below a
\* service that exists, and a provider that serves in an unexpired session
\* owns the znodes of all its methods (rpcprovider.cc:58-71), but for those
\* that still belonged to the session of an earlier process when it asked
\* (zookeeperutil.cc:54), which will be gone with that session.
RegistryFollowsSessions ==
  \A s \in Services : \A m \in Methods(s) :
    /\ nodes[s][m] # Nobody => /\ nodes[s][m] \in Sessions \ expired
                               /\ nodes[s][ServiceNode] = Forever
    /\ pc[s] = "serve" /\ session[s] \notin expired =>
         \/ nodes[s][m] = session[s]
         \/ m \in missed[s] /\ nodes[s][m] # session[s]

\* A caller that waits for an answer (mprpcchannel.cc:142) gets one, or sees
\* the end of the connection, unless TCP cut the request: then the provider
\* may have dropped it without an answer (rpcprovider.cc:115-118, 150-153).
CallsEnd ==
  \A s \in Services :
    callerPc[s] = "recv"
      ~> \/ callerPc[s] # "recv"
         \/ reads[s] > 1
=============================================================================
