------------------------------ MODULE ApiService ------------------------------
(***************************************************************************)
(* The API service (src/src/apiservice.rs): the one session with the wiki   *)
(* that every routine shares, behind a tokio read-write lock, the csrf      *)
(* token beside it, main's initialisation and the hourly checker that       *)
(* renews both.                                                             *)
(*                                                                          *)
(* Clients are the routines that use the service: the finder, the runners   *)
(* and the queries and edits they make.  The wiki is external: sessions     *)
(* expire at any time and requests fail.  A token is described by the       *)
(* session it belongs to: a login makes every earlier token stale.          *)
(*                                                                          *)
(* The mutexes around the login and the profile are only held between two   *)
(* suspension points, and the guard of the network lock is dropped in the   *)
(* statement that takes it (line 257, and "get_lock().lock().await" in the  *)
(* routines), so no other actor can ever observe them taken.                *)
(***************************************************************************)
EXTENDS Naturals, Sequences, FiniteSets

CONSTANTS
    Clients,      \* routines that use the service
    Checker,      \* the keep-alive routine, as an owner of the lock
    HasAssert,    \* the site profile has the "assert" field
    MayFail,      \* the requests that may fail
    MaxExpiries,  \* bound on expiring sessions
    MaxFaults,    \* bound on failing requests
    MaxCancels    \* bound on aborted or timed out requests

Requests == {"new", "login", "token", "check", "request"}

ASSUME ApiServiceAssumption ==
    /\ Checker \notin Clients
    /\ HasAssert \in BOOLEAN
    /\ MayFail \subseteq Requests
    /\ MaxExpiries \in Nat /\ MaxFaults \in Nat /\ MaxCancels \in Nat

VARIABLES
    (* the service *)
    api,          \* self.api: no object, or one whose session is anonymous or live
    csrf,         \* self.csrf
    readers,      \* holders of a read guard of self.api
    writer,       \* holders of the write guard of self.api: at most one
    queue,        \* waiting for a guard, first come first served
    (* routines *)
    main,         \* where main's initialisation is
    fresh,        \* session of the Api object under construction
    checker,      \* where the checker is
    op,           \* what each client does
    pc,           \* where it is
    token,        \* the csrf token it read
    (* the wiki *)
    expiries, faults, cancels,
    refused       \* auxiliary: edits of each client that were refused for their
                  \* token in a session whose token the service already had

lock    == <<readers, writer, queue>>
budgets == <<expiries, faults, cancels>>
clients == <<op, pc, token>>
vars == <<api, csrf, lock, main, fresh, checker, clients, budgets, refused>>

Owners == Clients \cup {Checker}
Sessions == {"anonymous", "live"}
Tokens == {"none", "anonymous", "current", "stale"}
InitPlaces == {"new", "login", "token", "set"}
ClientPlaces == {"idle", "prepared", "queued", "sent", "titles", "naming", "panicked"}

TypeOK ==
    /\ api \in Sessions \cup {"none"}
    /\ csrf \in Tokens
    /\ readers \subseteq Clients
    /\ writer \subseteq {Checker} /\ (writer = {} \/ readers = {})
    /\ queue \in Seq(Owners) /\ \A i, j \in DOMAIN queue : queue[i] = queue[j] => i = j
    /\ main \in InitPlaces \cup {"done"}
    /\ fresh \in Sessions
    /\ checker \in InitPlaces \cup {"asleep", "queued", "check", "panicked"}
    /\ op \in [Clients -> {"get", "edit"}]
    /\ pc \in [Clients -> ClientPlaces]
    /\ token \in [Clients -> Tokens]
    /\ expiries \in Nat /\ faults \in Nat /\ cancels \in Nat
    /\ refused \in [Clients -> Nat]

Init ==
    /\ api = "none"
    /\ csrf = "none"
    /\ readers = {}
    /\ writer = {}
    /\ queue = <<>>
    /\ main = "new"
    /\ fresh = "anonymous"
    /\ checker = "asleep"
    /\ op = [c \in Clients |-> "get"]
    /\ pc = [c \in Clients |-> "idle"]
    /\ token = [c \in Clients |-> "none"]
    /\ expiries = MaxExpiries
    /\ faults = MaxFaults
    /\ cancels = MaxCancels
    /\ refused = [c \in Clients |-> 0]

-----------------------------------------------------------------------------
(* tokio::sync::RwLock: a queue of waiters; guards are handed out in order. *)

Wait(o) == queue' = Append(queue, o)

(* Mutant: a writer does not wait for the readers. *)
Grant_Overtakes ==
    /\ queue # <<>>
    /\ writer = {}
    /\ IF Head(queue) = Checker
       THEN writer' = {Checker} /\ UNCHANGED readers
       ELSE readers' = readers \cup {Head(queue)} /\ UNCHANGED writer
    /\ queue' = Tail(queue)
    /\ UNCHANGED <<api, csrf, main, fresh, checker, clients, budgets, refused>>

Grant ==
    /\ queue # <<>>
    /\ writer = {}
    /\ IF Head(queue) = Checker
       THEN readers = {} /\ writer' = {Checker} /\ UNCHANGED readers
       ELSE readers' = readers \cup {Head(queue)} /\ UNCHANGED writer
    /\ queue' = Tail(queue)
    /\ UNCHANGED <<api, csrf, main, fresh, checker, clients, budgets, refused>>

(* The wait for a read guard is over.                                       *)
Granted(c) == c \in readers /\ \A i \in DOMAIN queue : queue[i] # c

(* A waiter that is dropped leaves the queue, in which nobody waits twice.   *)
Leaves(o) ==
    queue' = IF \A i \in DOMAIN queue : queue[i] # o THEN queue
             ELSE LET at == CHOOSE i \in DOMAIN queue : queue[i] = o
                  IN [j \in 1 .. Len(queue) - 1 |->
                        IF j < at THEN queue[j] ELSE queue[j + 1]]

ReadUnlock(c) == readers' = readers \ {c}
WriteUnlock == writer' = {}

-----------------------------------------------------------------------------
(* The wiki.                                                                *)

Fails(request) == request \in MayFail /\ faults > 0 /\ faults' = faults - 1

Outdated(t) == IF t = "current" THEN "stale" ELSE t

(* The session that tokens were current for is over, and the count begins   *)
(* again.                                                                   *)
TokensGoStale ==
    /\ csrf' = Outdated(csrf)
    /\ token' = [c \in Clients |-> Outdated(token[c])]
    /\ refused' = [c \in Clients |-> 0]

(* The session of the shared object expires on the server.                  *)
Expire ==
    /\ expiries > 0 /\ expiries' = expiries - 1
    /\ api = "live" /\ api' = "anonymous"
    /\ TokensGoStale
    /\ UNCHANGED <<lock, main, fresh, checker, op, pc, faults, cancels>>

(* What get_edit_token yields under a session.                              *)
TokenOf(session) == IF session = "live" THEN "current" ELSE "anonymous"

-----------------------------------------------------------------------------
(* main: APIService::try_init, before any other routine is started.         *)

MainNew ==
    /\ main = "new"
    /\ \/ main' = "login" /\ UNCHANGED faults
       \/ Fails("new") /\ main' = "done"
    /\ fresh' = "anonymous"
    /\ UNCHANGED <<api, csrf, lock, checker, clients, refused, expiries, cancels>>

MainLogin ==
    /\ main = "login" /\ main' = "token"
    /\ \/ fresh' = "live" /\ UNCHANGED faults
       \/ Fails("login") /\ UNCHANGED fresh
    /\ UNCHANGED <<api, csrf, lock, checker, clients, refused, expiries, cancels>>

MainToken ==
    /\ main = "token" /\ main' = "set"
    /\ \/ csrf' = TokenOf(fresh) /\ UNCHANGED faults
       \/ Fails("token") /\ UNCHANGED csrf
    /\ UNCHANGED <<api, lock, fresh, checker, clients, refused, expiries, cancels>>

MainSet ==
    /\ main = "set" /\ main' = "done"
    /\ api' = fresh
    /\ UNCHANGED <<csrf, lock, fresh, checker, clients, budgets, refused>>

MainStep == MainNew \/ MainLogin \/ MainToken \/ MainSet

-----------------------------------------------------------------------------
(* The checker.  It holds the write guard from "check" or "new" on.         *)

Holding == writer = {Checker}

Tick ==
    /\ main = "done"
    /\ checker = "asleep" /\ checker' = "queued"
    /\ Wait(Checker)
    /\ UNCHANGED <<api, csrf, readers, writer, main, fresh, clients, budgets, refused>>

(* The iteration ends and its guard is dropped, also when it unwinds.       *)
Rests(place) == checker' = place /\ WriteUnlock /\ UNCHANGED <<readers, queue>>

(* With an object the session is checked; the parameters of that request    *)
(* unwrap the optional field of the profile.                                *)
Begin ==
    /\ checker = "queued" /\ Holding
    /\ \/ api = "none" /\ checker' = "new" /\ UNCHANGED lock
       \/ api # "none" /\ HasAssert /\ checker' = "check" /\ UNCHANGED lock
       \/ api # "none" /\ ~HasAssert /\ Rests("panicked")
    /\ UNCHANGED <<api, csrf, main, fresh, clients, budgets, refused>>

(* Mutant: an error in the reply is taken for a client-side problem. *)
Check_IgnoresErrors ==
    /\ checker = "check"
    /\ Rests("asleep")
    /\ UNCHANGED <<api, csrf, main, fresh, clients, budgets, refused>>

(* A reply with an error, whatever the error is, leads to a login.          *)
Check ==
    /\ checker = "check"
    /\ \/ api = "live" /\ Rests("asleep") /\ UNCHANGED faults
       \/ api # "live" /\ checker' = "login" /\ UNCHANGED <<lock, faults>>
       \/ Fails("check") /\ checker' = "login" /\ UNCHANGED lock
       \/ Fails("check") /\ Rests("asleep")
    /\ UNCHANGED <<api, csrf, main, fresh, clients, refused, expiries, cancels>>

New ==
    /\ checker = "new"
    /\ \/ checker' = "login" /\ UNCHANGED <<lock, faults>>
       \/ Fails("new") /\ Rests("asleep")
    /\ fresh' = "anonymous"
    /\ UNCHANGED <<api, csrf, main, clients, refused, expiries, cancels>>

(* Mutant: after a failed login the object is dropped until the next hour. *)
Login_Discards ==
    /\ checker = "login"
    /\ \/ /\ IF api = "none" THEN fresh' = "live" /\ UNCHANGED api
                             ELSE api' = "live" /\ UNCHANGED fresh
          /\ TokensGoStale
          /\ checker' = "token" /\ UNCHANGED <<lock, faults>>
       \/ /\ Fails("login") /\ Rests("asleep")
          /\ api' = "none" /\ UNCHANGED <<fresh, csrf, token, refused>>
    /\ UNCHANGED <<main, op, pc, expiries, cancels>>

(* Errors of a login are dropped: "let _ =".                                *)
Login ==
    /\ checker = "login" /\ checker' = "token"
    /\ \/ /\ IF api = "none" THEN fresh' = "live" /\ UNCHANGED api
                             ELSE api' = "live" /\ UNCHANGED fresh
          /\ TokensGoStale
          /\ UNCHANGED faults
       \/ Fails("login") /\ UNCHANGED <<api, fresh, csrf, token, refused>>
    /\ UNCHANGED <<lock, main, op, pc, expiries, cancels>>

(* The token is only replaced if the request for it succeeds; a new object  *)
(* is installed in any case.                                                *)
Token ==
    /\ checker = "token"
    /\ api' = IF api = "none" THEN fresh ELSE api
    /\ \/ csrf' = TokenOf(api') /\ UNCHANGED faults
       \/ Fails("token") /\ UNCHANGED csrf
    /\ Rests("asleep")
    /\ UNCHANGED <<main, fresh, clients, refused, expiries, cancels>>

CheckerStep == Tick \/ Begin \/ Check \/ New \/ Login \/ Token

-----------------------------------------------------------------------------
(* The clients.                                                             *)

At(c, place) == pc[c] = place
GoTo(c, place) == pc' = [pc EXCEPT ![c] = place]

(* get, get_limit and get_all; clients exist once main is done.             *)
StartGet(c) ==
    /\ main = "done"
    /\ At(c, "idle") /\ GoTo(c, "queued")
    /\ op' = [op EXCEPT ![c] = "get"]
    /\ Wait(c)
    /\ UNCHANGED <<api, csrf, readers, writer, main, fresh, checker, token, budgets, refused>>

(* Mutant: the token is read once and kept. *)
StartEdit_Cached(c) ==
    /\ main = "done"
    /\ At(c, "idle") /\ GoTo(c, "prepared")
    /\ op' = [op EXCEPT ![c] = "edit"]
    /\ token' = IF token[c] = "none" THEN [token EXCEPT ![c] = csrf] ELSE token
    /\ UNCHANGED <<api, csrf, lock, main, fresh, checker, budgets, refused>>

(* The parameters of an edit hold the token ...                             *)
StartEdit(c) ==
    /\ main = "done"
    /\ At(c, "idle") /\ GoTo(c, "prepared")
    /\ op' = [op EXCEPT ![c] = "edit"]
    /\ token' = [token EXCEPT ![c] = csrf]
    /\ UNCHANGED <<api, csrf, lock, main, fresh, checker, budgets, refused>>

(* ... and are complete before post_edit waits for the guard.               *)
PostEdit(c) ==
    /\ At(c, "prepared") /\ GoTo(c, "queued")
    /\ Wait(c)
    /\ UNCHANGED <<api, csrf, readers, writer, main, fresh, checker, op, token,
                   budgets, refused>>

Send(c) ==
    /\ At(c, "queued") /\ Granted(c)
    /\ \/ api # "none" /\ GoTo(c, "sent") /\ UNCHANGED lock
       \/ api = "none" /\ GoTo(c, "idle") /\ ReadUnlock(c) /\ UNCHANGED <<writer, queue>>
    /\ UNCHANGED <<api, csrf, main, fresh, checker, op, token, budgets, refused>>

(* param_decorate: every request asserts the user name, so the server only  *)
(* serves it in a session of the bot's account.                             *)
Served == api = "live"

(* The edit is refused for its token, although the service has the token of *)
(* the session.                                                             *)
Refused(c) == Served /\ csrf = "current" /\ token[c] # "current"

(* Mutant: the guard is kept while titles are made from the reply. *)
Answer_KeepsGuard(c) ==
    /\ At(c, "sent")
    /\ op[c] = "get" /\ Served /\ GoTo(c, "titles")
    /\ UNCHANGED <<api, csrf, lock, main, fresh, checker, op, token, budgets, refused>>

(* The reply arrives and the guard is dropped.  The reply to a get is       *)
(* turned into titles, which needs the object again.                        *)
Answer(c) ==
    /\ At(c, "sent")
    /\ \/ op[c] = "get" /\ Served /\ GoTo(c, "titles") /\ UNCHANGED <<refused, faults>>
       \/ op[c] = "get" /\ ~Served /\ GoTo(c, "idle") /\ UNCHANGED <<refused, faults>>
       \/ /\ op[c] = "edit" /\ GoTo(c, "idle") /\ UNCHANGED faults
          /\ refused' = IF Refused(c) THEN [refused EXCEPT ![c] = @ + 1] ELSE refused
       \/ Fails("request") /\ GoTo(c, "idle") /\ UNCHANGED refused
    /\ ReadUnlock(c)
    /\ UNCHANGED <<api, csrf, writer, queue, main, fresh, checker, op, token, expiries,
                   cancels>>

(* title_new_from_full, full_pretty, namespace_name.                        *)
StartTitles(c) ==
    /\ At(c, "titles") /\ GoTo(c, "naming")
    /\ Wait(c)
    /\ UNCHANGED <<api, csrf, readers, writer, main, fresh, checker, op, token,
                   budgets, refused>>

(* "so long as we can get site config, there is always an `Api` present":   *)
(* the finder and the solver unwrap the result.                             *)
MakeTitles(c) ==
    /\ At(c, "naming") /\ Granted(c)
    /\ GoTo(c, IF api = "none" THEN "panicked" ELSE "idle")
    /\ ReadUnlock(c)
    /\ UNCHANGED <<api, csrf, writer, queue, main, fresh, checker, op, token, budgets, refused>>

(* Mutant: a waiter that is dropped keeps its place in the queue. *)
Cancel_KeepsPlace(c) ==
    /\ pc[c] \notin {"idle", "panicked"}
    /\ cancels > 0 /\ cancels' = cancels - 1
    /\ GoTo(c, "idle")
    /\ ReadUnlock(c)
    /\ UNCHANGED <<api, csrf, writer, queue, main, fresh, checker, op, token, refused,
                   expiries, faults>>

(* The query times out or its runner is aborted: the future is dropped, and *)
(* with it the guard it holds or its place in the queue.                    *)
Cancel(c) ==
    /\ pc[c] \notin {"idle", "panicked"}
    /\ cancels > 0 /\ cancels' = cancels - 1
    /\ GoTo(c, "idle")
    /\ ReadUnlock(c)
    /\ Leaves(c)
    /\ UNCHANGED <<api, csrf, writer, main, fresh, checker, op, token, refused,
                   expiries, faults>>

ClientStep(c) == PostEdit(c) \/ Send(c) \/ Answer(c) \/ StartTitles(c) \/ MakeTitles(c)

-----------------------------------------------------------------------------
Next ==
    \/ MainStep
    \/ CheckerStep
    \/ Grant
    \/ \E c \in Clients : StartGet(c) \/ StartEdit(c) \/ ClientStep(c) \/ Cancel(c)
    \/ Expire

Spec == Init /\ [][Next]_vars

(* Every routine that can go on is polled, the hourly timer fires, and      *)
(* requests are answered or fail.  Nobody has to start a request.           *)
Fairness ==
    /\ WF_vars(MainStep)
    /\ WF_vars(CheckerStep)
    /\ WF_vars(Grant)
    /\ \A c \in Clients : WF_vars(ClientStep(c))

FairSpec == Spec /\ Fairness

-----------------------------------------------------------------------------
(* "so long as we can get site config, there is always an `Api` present"    *)
(* (taskfinder.rs:108): between a reply and the titles made from it the     *)
(* checker may run, and still the object is there.                          *)
TitlesHaveApi == \A c \in Clients : pc[c] # "panicked"

(* The guard of the network lock is gone by the end of the statement that   *)
(* takes it (apiservice.rs:257), so the lock that was made for it keeps no  *)
(* request apart from a login.  The guards of the Api object still do:      *)
(* while the checker renews the session, no request is under way in it.     *)
RenewsAlone ==
    checker \in {"check", "new", "login", "token"} => \A c \in Clients : pc[c] # "sent"

(* The token is read before the guard is waited for (pagewriter.rs:268,     *)
(* apiservice.rs:123), so the checker may renew the session in between and  *)
(* the edit is refused.  That happens to a routine once: when the service   *)
(* has the token of a session, no second edit of the routine is lost in it. *)
OneEditLostPerSession == \A c \in Clients : refused[c] <= 1

(* Every request is answered, fails or is cancelled: nobody waits forever   *)
(* for the guards, although the checker waits for a write guard while       *)
(* replies are being turned into titles under further read guards.          *)
RequestsComplete == \A c \in Clients : pc[c] # "idle" ~> pc[c] = "idle"

(* The checker (apiservice.rs:251) brings the bot back: once sessions stop  *)
(* expiring and requests stop failing, the session is live and the token    *)
(* fits it, for good.                                                       *)
SessionRecovers == <>[](api = "live" /\ csrf = "current")
=============================================================================
