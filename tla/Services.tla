-------------------------------- MODULE Services --------------------------------
(***************************************************************************)
(* The helpers of a built application: CreateDB and DropDB of mysql.go and *)
(* postgres.go, CreateKeyspace and DropKeyspace of scylladb.go, CreateVHost*)
(* CreateUser and SetPermissions of rabbitmq.go, CreateEngine and          *)
(* RemoveEngine of vault.go, called by several goroutines at once.         *)
(*                                                                         *)
(* A helper looks up the address of the service, which is a number in the  *)
(* port bindings whatever has become of the container, and sends a request *)
(* there.  Whoever holds the port by then gets it: the service, nobody, or *)
(* the same service of somebody else's container.                          *)
(***************************************************************************)
EXTENDS Ports

CONSTANTS
    Callers,  \* goroutines that call helpers
    Port      \* the container port of the service, one of CPorts

ASSUME ServicesAssumption == Port \in CPorts

Apps == {"mysql", "postgres", "scylladb", "rabbitmq", "vault"}

VARIABLES
    app,      \* which application it is
    objects,  \* what its service holds: databases, keyspaces, users ...
    hung,     \* its service takes connections and does not answer
    session,  \* the session of scylladb
    call,     \* call[k]: the running helper of k
    result,   \* result[k]: what the last helper of k returned
    made      \* history: creations that returned nil since the last removal

helperVars == <<app, objects, hung, session, call, result, made>>
servicesVars == <<helperVars, vars>>

\* An object is its type and the length of its name: two names of one type
\* differ in nothing else, and a shorter one begins a longer one.
VHost == <<"vhost", 1>>
User == <<"user", 1>>
Permissions == <<"permissions", 1>>
Engine == <<"engine", 1>>

\* What the services take for a name, in bytes.
ServiceMax == [mysql |-> 64, postgres |-> 63, scylladb |-> 48]
Database(n) == <<"database", n>>

\* The requests a caller may ask for, names at the limit and beyond included.
Requests ==
    CASE app = "rabbitmq" -> {"put"} \X {VHost, User, Permissions}
      [] app = "vault" -> {"create", "drop"} \X {Engine}
      [] OTHER -> {"create", "drop"} \X
                  {Database(n) : n \in {0, ServiceMax[app], ServiceMax[app] + 1}}

NoCall == [at |-> "idle", does |-> "none", object |-> <<"none", 0>>,
           ctx |-> "none", server |-> "none"]

ServicesTypeOK ==
    /\ PortsTypeOK
    /\ app \in Apps
    /\ objects \subseteq {VHost, User, Permissions, Engine} \union {Database(n) : n \in 1..64}
    /\ hung \in BOOLEAN
    /\ session \in {"open", "closed"}
    /\ \A k \in Callers :
          /\ call[k].at \in {"idle", "connect", "token", "request"}
          /\ call[k].does \in {"none", "create", "drop", "put"}
          /\ call[k].ctx \in {"none", "ahead", "past"}
          /\ call[k].server \in {"none", "own", "theirs"}
          /\ result[k] \in {"none", "nil", "refused", "error"}
    /\ made \in Nat

\* kafka, which alone allocates one to one, has no helper of this sort.
ServicesInit ==
    /\ Init /\ tcpPortAllocator = "RandomPort"
    /\ app \in Apps
    /\ objects = {}
    /\ hung = FALSE
    /\ session = "open"
    /\ call = [k \in Callers |-> NoCall]
    /\ result = [k \in Callers |-> "none"]
    /\ made = 0

--------------------------------------------------------------------------------
\* The constructor has returned the application.
Built == state \in {"started", "stopped"} /\ AskedOnce(Port)

CtxDone(k) == call[k].ctx = "past"

Returns(k, e) ==
    /\ call' = [call EXCEPT ![k] = NoCall]
    /\ result' = [result EXCEPT ![k] = e]

\* The longest name each of the three accepts.
MaxName == [mysql |-> 64, postgres |-> 63, scylladb |-> 48]

\* Faulty variant: the limit is taken for the first length that is too long.
ValidatedPast(o) == o[1] = "database" => o[2] \in 1..(MaxName[app] + 1)

Validated(o) == o[1] = "database" => o[2] \in 1..MaxName[app]

\* The first thing a helper does once it has the address.
First ==
    CASE app \in {"mysql", "postgres"} -> "connect"
      [] app = "vault" -> "token"
      [] OTHER -> "request"

HelperCall(k, r, x) ==
    /\ Built /\ call[k].at = "idle"
    /\ \/ /\ Validated(r[2]) /\ URL(Port) # {}
          /\ call' = [call EXCEPT ![k] = [at |-> First, does |-> r[1], object |-> r[2],
                                          ctx |-> x, server |-> "none"]]
          /\ result' = [result EXCEPT ![k] = "none"]
       \/ ~(Validated(r[2]) /\ URL(Port) # {}) /\ Returns(k, "error")
    /\ UNCHANGED <<app, objects, hung, session, made>>

--------------------------------------------------------------------------------
\* Whose service answers at the address.
Behind ==
    CASE \E h \in URL(Port) : owner[h] = "docker" -> "own"
      [] \E h \in URL(Port) : owner[h] = "other" -> "theirs"
      [] OTHER -> "none"

Responds(s) == s # "none" /\ (s = "own" => ~hung)

\* A request of MySQL that pings, and every one of ScyllaDB, has no context.
HeedsCtx(k) ==
    /\ app # "scylladb"
    /\ app = "mysql" => call[k].at = "request"

\* Ping of database/sql, Connect of pgx.
Connect(k) ==
    /\ call[k].at = "connect"
    /\ \/ /\ Responds(Behind) /\ ~(CtxDone(k) /\ HeedsCtx(k))
          /\ \/ /\ call' = [call EXCEPT ![k].at = "request", ![k].server = Behind]
                /\ UNCHANGED result
             \/ Returns(k, "error")
       \/ Behind = "none" /\ Returns(k, "error")
       \/ CtxDone(k) /\ HeedsCtx(k) /\ Returns(k, "error")
    /\ UNCHANGED <<app, objects, hung, session, made>>

\* GetRootToken reads the log of the container, while there is one.
Token(k) ==
    /\ call[k].at = "token"
    /\ \/ /\ ~CtxDone(k)
          /\ call' = [call EXCEPT ![k].at = "request"]
          /\ UNCHANGED result
       \/ (state = "stopped" \/ CtxDone(k)) /\ Returns(k, "error")
    /\ UNCHANGED <<app, objects, hung, session, made>>

\* Where the request goes.  A session that is closed sends nothing.  A
\* connection of pgx that breaks stays broken; the others connect again.
Server(k) ==
    CASE app = "scylladb" /\ session = "closed" -> "none"
      [] app = "postgres" /\ Behind # call[k].server -> "none"
      [] OTHER -> Behind

\* PostgreSQL cuts a longer name; the others refuse it.
Stored(o) ==
    IF app = "postgres" /\ o[1] = "database" /\ o[2] > ServiceMax[app]
    THEN Database(ServiceMax[app])
    ELSE o

TooLong(o) == Stored(o)[1] = "database" /\ Stored(o)[2] > ServiceMax[app]

Needs(o) == IF o = Permissions THEN {VHost, User} ELSE {}

\* What the service refuses for what it holds.  The statement that creates has
\* no IF NOT EXISTS, and what is dropped must be there, except in vault.
Refused(does, o) ==
    \/ does = "drop" /\ Stored(o) \notin objects /\ app # "vault"
    \/ does # "drop" /\ (TooLong(o) \/ ~(Needs(o) \subseteq objects))
    \/ does = "create" /\ Stored(o) \in objects

\* What the service answers: "created", "nocontent" (done already, or gone),
\* or a refusal.
Status(does, o) ==
    IF Refused(does, o) THEN "refusal"
    ELSE IF does # "drop" /\ Stored(o) \notin objects THEN "created" ELSE "nocontent"

\* Faulty variant: CREATE ... IF NOT EXISTS.
StatementLenient(does, o) ==
    IF does = "create" /\ Stored(o) \in objects THEN "nocontent" ELSE Status(does, o)

\* What the statement asks for.
Statement(does, o) == Status(does, o)

Accepted(status) == status \in {"created", "nocontent"}

\* Faulty variant: the status is passed on.
OutcomeUnwrapped(status) == status

Outcome(status) == IF Accepted(status) THEN "nil" ELSE "refused"

Takes(does, o) ==
    objects' = IF Statement(does, o) = "refusal" THEN objects
               ELSE IF does = "drop" THEN objects \ {Stored(o)}
               ELSE objects \union {Stored(o)}

\* The service does what it is asked and answers, or the answer is lost.
Executes(k) ==
    LET does == call[k].does
        o == call[k].object
        outcome == Outcome(Statement(does, o))
    IN
    /\ Takes(does, o)
    /\ \E answered \in {TRUE, FALSE} :
          /\ answered => ~(CtxDone(k) /\ HeedsCtx(k))
          /\ Returns(k, IF answered THEN outcome ELSE "error")
          /\ made' = CASE does = "drop" /\ Statement(does, o) # "refusal" -> 0
                       [] does = "create" /\ answered /\ outcome = "nil" -> made + 1
                       [] OTHER -> made

\* The service refuses for a reason of its own, or does not get the request:
\* PostgreSQL drops no database with open sessions, Vault makes no engine of
\* a type it does not know.
Declines(k) ==
    /\ \/ ~(CtxDone(k) /\ HeedsCtx(k)) /\ Returns(k, "refused")
       \/ Returns(k, "error")
    /\ UNCHANGED <<objects, made>>

\* The service of another container knows the users and the passwords, which
\* are the defaults, but not the token of vault.
Strays(k) ==
    /\ \E e \in {"nil", "refused", "error"} : (e = "nil" => app # "vault") /\ Returns(k, e)
    /\ UNCHANGED <<objects, made>>

\* Faulty variant: the request is made without the context, or the timeout.
GivesUpNever(k) == FALSE

\* The end of the context, or the timeout of the session or the client.
GivesUp(k) ==
    /\ (CtxDone(k) /\ HeedsCtx(k)) \/ app \in {"scylladb", "vault"}
    /\ Returns(k, "error")
    /\ UNCHANGED <<objects, made>>

Request(k) ==
    /\ call[k].at = "request"
    /\ \/ Server(k) = "own" /\ ~hung /\ (Executes(k) \/ Declines(k))
       \/ Server(k) = "theirs" /\ Strays(k)
       \/ Server(k) = "none" /\ Returns(k, "error") /\ UNCHANGED <<objects, made>>
       \/ GivesUp(k)
    /\ UNCHANGED <<app, hung, session>>

\* Close of scylladb.go closes the session before the container, for good
\* even when the container then fails to close.
CloseSession ==
    /\ app = "scylladb" /\ Built /\ session = "open"
    /\ session' = "closed"
    /\ UNCHANGED <<app, objects, hung, call, result, made>>

--------------------------------------------------------------------------------
Hangs ==
    /\ state = "started" /\ ~hung
    /\ hung' = TRUE
    /\ UNCHANGED <<app, objects, session, call, result, made>>

DeadlinePasses(k) ==
    /\ call[k].ctx = "ahead"
    /\ call' = [call EXCEPT ![k].ctx = "past"]
    /\ UNCHANGED <<app, objects, hung, session, result, made>>

HelperStep(k) == (Connect(k) \/ Token(k) \/ Request(k)) /\ UNCHANGED vars

ServicesNext ==
    \/ \E k \in Callers, r \in Requests, x \in {"none", "ahead", "past"} :
          HelperCall(k, r, x) /\ UNCHANGED vars
    \/ \E k \in Callers : HelperStep(k) \/ (DeadlinePasses(k) /\ UNCHANGED vars)
    \/ (CloseSession \/ Hangs) /\ UNCHANGED vars
    \/ Next /\ UNCHANGED helperVars

ServicesSpec == ServicesInit /\ [][ServicesNext]_servicesVars

\* What can answer does, timeouts end, and the clocks of the contexts run.
ServicesFairSpec ==
    /\ ServicesSpec
    /\ \A k \in Callers :
          WF_servicesVars(HelperStep(k)) /\ WF_servicesVars(DeadlinePasses(k) /\ UNCHANGED vars)

--------------------------------------------------------------------------------
(* Properties. *)

\* The running helper of k returns e in this step.
Answers(k, e) == call[k].at = "request" /\ call'[k].at = "idle" /\ result'[k] = e

\* A helper that returns nil while the container runs has reached its own
\* service, since the daemon keeps the port for it; vault's has in any case.
\* After the container has stopped the stale address may lead elsewhere
\* (container.go URL and the helpers).
NilIsOwn ==
    [][\A k \in Callers : Answers(k, "nil") =>
         Server(k) = "own" \/ (state # "started" /\ app # "vault")]_servicesVars

\* nil from its own service is true: the service has the object under the
\* very name asked for, or has it no more.  A refusal may have many reasons
\* and tells nothing of what the service holds, but no name that passed the
\* validation is refused, or cut, for its length (validateDBName,
\* validateKeyspaceName, CreateDB, DropDB, CreateVHost and the others).
AnswersAreTrue ==
    [][\A k \in Callers : Server(k) = "own" =>
         /\ Answers(k, "nil") => (call[k].object \in objects' <=> call[k].does # "drop")
         /\ Answers(k, "refused") => ~TooLong(call[k].object)]_servicesVars

\* Of the callers that create one database, keyspace or engine, at the same
\* time or one after another, at most one is told nil until it is dropped:
\* the one who is owns it (CreateDB, CreateKeyspace, CreateEngine).
CreatedOnce == made <= 1

\* A helper under a deadline comes back, and one of scylladb and vault always
\* does, though the service hangs; only the ping of mysql.go waits on.
HelperReturns ==
    \A k \in Callers :
        call[k].at # "idle" /\ (call[k].ctx # "none" \/ app \in {"scylladb", "vault"}) ~>
            call[k].at = "idle" \/ (app = "mysql" /\ call[k].at = "connect" /\ hung)

--------------------------------------------------------------------------------
(* The inductive invariant. *)

\* The calls, field by field.
Records == [at : {"idle", "connect", "token", "request"},
            does : {"none", "create", "drop", "put"},
            object : {NoCall.object} \union {r[2] : r \in Requests},
            ctx : {"none", "ahead", "past"},
            server : {"none", "own", "theirs"}]
CallTyped ==
    /\ call \in [Callers -> Records]
    /\ result \in [Callers -> {"none", "nil", "refused", "error"}]

\* A helper runs only on a built application, and its name was validated.
Vetted ==
    \A k \in Callers : call[k].at # "idle" =>
        /\ Built
        /\ <<call[k].does, call[k].object>> \in Requests
        /\ Validated(call[k].object)

\* The service has permissions only with what they are about.
Grounded == Permissions \in objects => Needs(Permissions) \subseteq objects

\* The one object helpers create; whoever created it has found it missing.
Target == IF app = "vault" THEN Engine ELSE Database(MaxName[app])
MadeIsThere ==
    made # 0 => made = 1 /\ app # "rabbitmq" /\ Target \in objects

ServicesInv == CallTyped /\ Vetted /\ Grounded /\ MadeIsThere /\ ~Direct
================================================================================
