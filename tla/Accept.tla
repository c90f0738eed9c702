------------------------------- MODULE Accept -------------------------------
(***************************************************************************)
(* A listening port: the acceptor, the pool of io_services it shares with  *)
(* the sessions, and the sessions it makes.  The program has two of them:  *)
(* type 0 for the capture devices (handle_accept) and type 1 for the       *)
(* configuration clients (handle_accept_cfg), which differ in what they do *)
(* after an error.  Each io_service has one thread, which runs one handler *)
(* at a time; io_service 0 runs the accept handlers and, once the others   *)
(* have a session each, those of sessions as well.                         *)
(***************************************************************************)
EXTENDS Integers, FiniteSets, Sequences

CONSTANTS Clients,    \* devices or configuration clients
          Services,   \* number of io_services of the pool
          MaxErrors,  \* bound: accepts that fail
          MaxTalks,   \* bound: messages a client sends
          NULL        \* no client

ASSUME AcceptAssumption ==
    /\ Services \in Nat \ {0}
    /\ MaxErrors \in Nat
    /\ MaxTalks \in Nat
    /\ NULL \notin Clients

VARIABLES type,      \* the server's type, fixed when it is constructed
          backlog,   \* external: clients the kernel has a connection of
          accept,    \* the acceptor's one asynchronous accept
          next_io_service_,
          service,   \* the io_service of each client's session
          running,   \* what the thread of each io_service is running
          ready,     \* clients with a message their session has not handled
          talks,     \* messages each client has sent
          errors     \* accepts that failed

vars == <<type, backlog, accept, next_io_service_, service, running, ready, talks, errors>>

Pool == 0 .. Services - 1
NoService == -1

\* result: "pending", the accept's outcome once it has one, "none" when no
\* accept was started; service: of the session made for it.
NoAccept == [result |-> "none", service |-> NoService, client |-> NULL]
AsyncAccept(s) == [result |-> "pending", service |-> s, client |-> NULL]

TypeOK ==
    /\ type \in {0, 1}
    /\ backlog \in Seq(Clients)
    /\ accept \in [result : {"pending", "ok", "error", "none"},
                   service : Pool \cup {NoService}, client : Clients \cup {NULL}]
    /\ next_io_service_ \in Pool
    /\ service \in [Clients -> Pool \cup {NoService}]
    /\ running \in [Pool -> Clients \cup {NULL}]
    /\ ready \in SUBSET Clients
    /\ talks \in [Clients -> 0 .. MaxTalks]
    /\ errors \in 0 .. MaxErrors

\* get_io_service, seen from its counter.
After(n) == IF n + 1 = Services THEN 0 ELSE n + 1

\* The acceptor takes io_service 0, the first session the one after it.
Init ==
    /\ type \in {0, 1}
    /\ backlog = <<>>
    /\ accept = AsyncAccept(After(0))
    /\ next_io_service_ = After(After(0))
    /\ service = [c \in Clients |-> NoService]
    /\ running = [s \in Pool |-> NULL]
    /\ ready = {}
    /\ talks = [c \in Clients |-> 0]
    /\ errors = 0

Waiting(c) == \E i \in DOMAIN backlog : backlog[i] = c

Connected(c) == service[c] # NoService \/ Waiting(c) \/ accept.client = c

Connect(c) ==
    /\ ~Connected(c)
    /\ talks[c] = 0
    /\ backlog' = Append(backlog, c)
    /\ UNCHANGED <<type, accept, next_io_service_, service, running, ready, talks, errors>>

\* The accept completes: its handler is queued on io_service 0.
Accepted ==
    /\ accept.result = "pending"
    /\ backlog # <<>>
    /\ accept' = [accept EXCEPT !.result = "ok", !.client = Head(backlog)]
    /\ backlog' = Tail(backlog)
    /\ UNCHANGED <<type, next_io_service_, service, running, ready, talks, errors>>

AcceptError ==
    /\ accept.result = "pending"
    /\ errors < MaxErrors
    /\ accept' = [accept EXCEPT !.result = "error"]
    /\ errors' = errors + 1
    /\ UNCHANGED <<type, backlog, next_io_service_, service, running, ready, talks>>

\* Mutant: the turn is not passed on.
MutAcceptAgain ==
    /\ accept' = AsyncAccept(next_io_service_)
    /\ UNCHANGED next_io_service_

\* A new session on the next io_service, and an accept for it.
AcceptAgain ==
    /\ accept' = AsyncAccept(next_io_service_)
    /\ next_io_service_' = After(next_io_service_)

\* Mutant: the session is not started.
MutStart == UNCHANGED service

\* new_session->start(): from now on its io_service runs its handlers.
start == service' = [service EXCEPT ![accept.client] = accept.service]

handle_accept ==
    /\ type = 0
    /\ \/ /\ accept.result = "ok"
          /\ start
          /\ AcceptAgain
       \/ /\ accept.result = "error"   \* delete new_session, and nothing more
          /\ accept' = NoAccept
          /\ UNCHANGED <<next_io_service_, service>>

handle_accept_cfg ==
    /\ type = 1
    /\ \/ /\ accept.result = "ok"
          /\ start
       \/ /\ accept.result = "error"
          /\ UNCHANGED service
    /\ AcceptAgain

AcceptHandler ==
    /\ running[0] = NULL
    /\ handle_accept \/ handle_accept_cfg
    /\ UNCHANGED <<type, backlog, running, ready, talks, errors>>

Talk(c) ==
    /\ service[c] # NoService
    /\ c \notin ready
    /\ talks[c] < MaxTalks
    /\ ready' = ready \cup {c}
    /\ talks' = [talks EXCEPT ![c] = @ + 1]
    /\ UNCHANGED <<type, backlog, accept, next_io_service_, service, running, errors>>

\* The handler of a message begins; it may wait for locks, the database or a
\* camera, and its io_service runs nothing else meanwhile.
Begin(c) ==
    /\ c \in ready
    /\ running[service[c]] = NULL
    /\ running' = [running EXCEPT ![service[c]] = c]
    /\ ready' = ready \ {c}
    /\ UNCHANGED <<type, backlog, accept, next_io_service_, service, talks, errors>>

End(s) ==
    /\ running[s] # NULL
    /\ running' = [running EXCEPT ![s] = NULL]
    /\ UNCHANGED <<type, backlog, accept, next_io_service_, service, ready, talks, errors>>

Next ==
    \/ Accepted \/ AcceptError \/ AcceptHandler
    \/ \E c \in Clients : Connect(c) \/ Talk(c) \/ Begin(c)
    \/ \E s \in Pool : End(s)

\* The kernel hands connections over; handlers end (SessionReads and LoopTimer
\* say what they do); a ready handler is not passed over for ever, as the
\* handlers of an io_service are run in the order they became ready.
Fairness ==
    /\ WF_vars(Accepted)
    /\ SF_vars(AcceptHandler)
    /\ \A c \in Clients : SF_vars(Begin(c))
    /\ \A s \in Pool : WF_vars(End(s))

Spec == Init /\ [][Next]_vars
FairSpec == Spec /\ Fairness

-----------------------------------------------------------------------------
(* Properties.                                                             *)

Load(s) == Cardinality({c \in Clients : service[c] = s})

\* The round robin spreads the sessions evenly: as long as no accept failed,
\* no io_service has two sessions more than another that comes before it in
\* the turn, io_service 0 having the acceptor besides.
SpreadUnlessError ==
    /\ TypeOK
    /\ errors = 0 =>
          \A s, t \in Pool :
              Load(s) + (IF s = 0 THEN 1 ELSE 0) <= Load(t) + (IF t = 0 THEN 1 ELSE 0) + 1

\* Whoever connects gets a session, in spite of slow handlers that share
\* io_service 0 with the acceptor, and its messages are handled; only after an
\* error on the device port is a client left in the backlog: handle_accept_cfg
\* keeps an accept going whatever happens, handle_accept until the first error.
ServedUnlessDeviceError ==
    \A c \in Clients :
        /\ Waiting(c) ~> service[c] # NoService \/ (type = 0 /\ errors > 0)
        /\ c \in ready ~> c \notin ready
=============================================================================
