--------------------------- MODULE ApiServiceProofs ---------------------------
(***************************************************************************)
(* Proofs about ApiService for any number of clients and any bounds on what *)
(* expires, fails and is cancelled.                                         *)
(***************************************************************************)
EXTENDS ApiService, TLAPS

-----------------------------------------------------------------------------
(* The queue.                                                               *)

Once(q) == \A i, j \in DOMAIN q : q[i] = q[j] => i = j
InQueue(o) == \E i \in DOMAIN queue : queue[i] = o

(* Who was not in the queue may wait at its end.                            *)
LEMMA Waits ==
    ASSUME queue \in Seq(Owners), Once(queue), NEW o \in Owners, ~InQueue(o), Wait(o)
    PROVE  /\ queue' \in Seq(Owners) /\ Once(queue')
           /\ \A i \in DOMAIN queue' : queue'[i] = o \/ InQueue(queue'[i])
  <1>1. queue' = Append(queue, o) /\ Len(queue) \in Nat
    BY DEF Wait
  <1>2. /\ queue' \in Seq(Owners) /\ DOMAIN queue' = 1 .. Len(queue) + 1
        /\ DOMAIN queue = 1 .. Len(queue)
        /\ \A i \in DOMAIN queue : queue'[i] = queue[i]
        /\ queue'[Len(queue) + 1] = o
    BY <1>1
  <1>3. \A i \in DOMAIN queue' : i \in DOMAIN queue \/ i = Len(queue) + 1
    BY <1>1, <1>2
  <1>4. Once(queue')
    BY <1>2, <1>3 DEF Once, InQueue
  <1> QED
    BY <1>2, <1>3, <1>4 DEF InQueue

(* The first leaves the queue.                                              *)
LEMMA Granting ==
    ASSUME queue \in Seq(Owners), Once(queue), queue # <<>>, queue' = Tail(queue)
    PROVE  /\ queue' \in Seq(Owners) /\ Once(queue')
           /\ \A i \in DOMAIN queue' : queue'[i] # Head(queue) /\ InQueue(queue'[i])
           /\ Head(queue) \in Owners /\ InQueue(Head(queue))
  <1>1. /\ queue' \in Seq(Owners) /\ Len(queue') = Len(queue) - 1 /\ Len(queue) \in Nat
        /\ DOMAIN queue' = 1 .. Len(queue') /\ DOMAIN queue = 1 .. Len(queue)
        /\ \A i \in DOMAIN queue' : i + 1 \in DOMAIN queue /\ queue'[i] = queue[i + 1]
        /\ 1 \in DOMAIN queue /\ Head(queue) = queue[1]
    OBVIOUS
  <1>2. \A i \in DOMAIN queue' : queue'[i] # Head(queue)
    <2> SUFFICES ASSUME NEW i \in DOMAIN queue', queue'[i] = Head(queue) PROVE FALSE
      OBVIOUS
    <2>1. i + 1 = 1
      BY <1>1 DEF Once
    <2> QED
      BY <1>1, <2>1
  <1>3. Once(queue')
    <2> SUFFICES ASSUME NEW i \in DOMAIN queue', NEW j \in DOMAIN queue', queue'[i] = queue'[j]
                 PROVE  i = j
      BY DEF Once
    <2>1. i + 1 = j + 1
      BY <1>1 DEF Once
    <2> QED
      BY <1>1, <2>1
  <1> QED
    BY <1>1, <1>2, <1>3 DEF InQueue

(* Who is dropped leaves the queue, the others stay.                        *)
LEMMA Leaving ==
    ASSUME queue \in Seq(Owners), Once(queue), NEW o, Leaves(o)
    PROVE  /\ queue' \in Seq(Owners) /\ Once(queue')
           /\ \A i \in DOMAIN queue' : queue'[i] # o /\ InQueue(queue'[i])
  <1>1. CASE \A i \in DOMAIN queue : queue[i] # o
    BY <1>1 DEF Leaves, InQueue
  <1>2. CASE \E i \in DOMAIN queue : queue[i] = o
    <2> DEFINE at == CHOOSE i \in DOMAIN queue : queue[i] = o
    <2>1. at \in DOMAIN queue /\ queue[at] = o
      BY <1>2
    <2>2. queue' = [j \in 1 .. Len(queue) - 1 |-> IF j < at THEN queue[j] ELSE queue[j + 1]]
      BY <1>2 DEF Leaves
    <2> HIDE DEF at
    <2>3. /\ DOMAIN queue = 1 .. Len(queue) /\ Len(queue) \in Nat /\ at \in Nat
          /\ DOMAIN queue' = 1 .. Len(queue) - 1
      BY <2>1, <2>2
    <2> DEFINE was(j) == IF j < at THEN j ELSE j + 1
    <2>4. \A j \in DOMAIN queue' : /\ was(j) \in DOMAIN queue /\ was(j) # at
                                 /\ queue'[j] = queue[was(j)]
      BY <2>1, <2>2, <2>3
    <2>5. \A i, j \in DOMAIN queue' : was(i) = was(j) => i = j
      BY <2>3
    <2> HIDE DEF was
    <2>6. queue' \in Seq(Owners)
      <3>1. queue' \in [1 .. Len(queue) - 1 -> Owners]
        BY <2>2, <2>3, <2>4
      <3>2. Len(queue) - 1 \in Nat
        BY <2>1, <2>3
      <3> QED
        BY <3>1, <3>2
    <2>7. Once(queue')
      BY <2>4, <2>5 DEF Once
    <2>8. \A j \in DOMAIN queue' : queue'[j] # o
      BY <2>1, <2>4 DEF Once
    <2> QED
      BY <2>4, <2>6, <2>7, <2>8 DEF InQueue
  <1> QED
    BY <1>1, <1>2

-----------------------------------------------------------------------------
(* The invariant.                                                           *)

Renewing == {"check", "new", "login", "token"}

(* Who waits and who holds a guard; the checker renews under the write      *)
(* guard, requests are under way under read guards.                         *)
Guards ==
    /\ InQueue(Checker) => checker = "queued" /\ writer = {}
    /\ writer = {Checker} => checker \in Renewing \cup {"queued"}
    /\ checker \in Renewing => writer = {Checker}
    /\ \A c \in Clients : InQueue(c) => pc[c] \in {"queued", "naming"}
    /\ \A c \in Clients : pc[c] = "sent" => c \in readers

(* Once a request went out there is an object, and there will always be.    *)
Objects ==
    \A c \in Clients :
      /\ pc[c] \in {"sent", "titles", "naming"} => api # "none"
      /\ pc[c] # "panicked"

IInv == TypeOK /\ Guards /\ Objects

LEMMA InvInit == Init => IInv
  <1> SUFFICES ASSUME Init PROVE IInv
    OBVIOUS
  <1>1. TypeOK
    <2>1. queue \in Seq(Owners) /\ \A i, j \in DOMAIN queue : queue[i] = queue[j] => i = j
      BY DEF Init
    <2>2. op \in [Clients -> {"get", "edit"}] /\ token \in [Clients -> Tokens]
      BY DEF Init, Tokens
    <2>3. pc \in [Clients -> ClientPlaces]
      BY DEF Init, ClientPlaces
    <2> QED
      BY <2>1, <2>2, <2>3, ApiServiceAssumption
      DEF Init, TypeOK, Sessions, Tokens, InitPlaces
  <1>2. Guards /\ Objects
    BY DEF Init, Guards, Objects, InQueue, Renewing
  <1> QED
    BY <1>1, <1>2 DEF IInv

-----------------------------------------------------------------------------
(* Steps that leave the queue and the guards alone.                         *)
LEMMA InvMain == IInv /\ MainStep => IInv'
  <1> SUFFICES ASSUME IInv, MainStep PROVE IInv'
    OBVIOUS
  <1>1. /\ UNCHANGED <<readers, writer, queue, checker, op, pc, token, refused,
                       expiries, cancels>>
        /\ api' = api \/ (api' = fresh /\ fresh \in Sessions)
        /\ csrf' \in Tokens /\ main' \in InitPlaces \cup {"done"} /\ fresh' \in Sessions
        /\ faults' \in Nat
    BY DEF MainStep, MainNew, MainLogin, MainToken, MainSet, lock, clients, budgets, Fails,
           TokenOf, IInv, TypeOK, Sessions, Tokens, InitPlaces
  <1>2. TypeOK'
    BY <1>1 DEF IInv, TypeOK
  <1>3. Guards' /\ Objects'
    BY <1>1 DEF IInv, Guards, Objects, InQueue, Sessions
  <1> QED
    BY <1>1, <1>2, <1>3 DEF IInv

LEMMA InvExpire == IInv /\ Expire => IInv'
  <1> SUFFICES ASSUME IInv, Expire PROVE IInv'
    OBVIOUS
  <1>1. /\ UNCHANGED <<readers, writer, queue, main, fresh, checker, op, pc, faults, cancels>>
        /\ api' \in Sessions /\ api' # "none" /\ expiries' \in Nat
        /\ csrf' \in Tokens /\ token' \in [Clients -> Tokens]
        /\ refused' \in [Clients -> Nat]
    BY DEF Expire, TokensGoStale, Outdated, lock, IInv, TypeOK, Sessions, Tokens
  <1>2. TypeOK'
    BY <1>1 DEF IInv, TypeOK
  <1>3. Guards' /\ Objects'
    BY <1>1 DEF IInv, Guards, Objects, InQueue
  <1> QED
    BY <1>1, <1>2, <1>3 DEF IInv

(* The checker goes on with its guard, or gives it back.                    *)
LEMMA InvRenews ==
    ASSUME IInv, Begin \/ Check \/ New \/ Login \/ Token
    PROVE  IInv'
  <1>1. /\ UNCHANGED <<readers, queue, main, op, pc, expiries, cancels>>
        /\ writer = {Checker}
        /\ \/ writer' = writer /\ checker' \in Renewing
           \/ writer' = {} /\ checker' \in {"asleep", "panicked"}
    BY DEF Begin, Check, New, Login, Token, Rests, WriteUnlock, Holding, lock, clients,
           budgets, IInv, Guards, Renewing
  <1>2. /\ api' \in Sessions \cup {"none"} /\ (api # "none" => api' # "none")
        /\ csrf' \in Tokens /\ fresh' \in Sessions
        /\ token' \in [Clients -> Tokens] /\ faults' \in Nat
        /\ refused' \in [Clients -> Nat]
    BY DEF Begin, Check, New, Login, Token, Fails, TokenOf, TokensGoStale, Outdated,
           clients, budgets, IInv, TypeOK, Sessions, Tokens
  <1>3. TypeOK'
    BY <1>1, <1>2 DEF IInv, TypeOK, Renewing, InitPlaces
  <1>4. ~InQueue(Checker)
    BY <1>1 DEF IInv, Guards
  <1>5. Guards' /\ Objects'
    BY <1>1, <1>2, <1>4 DEF IInv, Guards, Objects, InQueue, Renewing
  <1> QED
    BY <1>1, <1>3, <1>5 DEF IInv

-----------------------------------------------------------------------------
(* Steps on the queue.                                                      *)

LEMMA InvTick == IInv /\ Tick => IInv'
  <1> SUFFICES ASSUME IInv, Tick PROVE IInv'
    OBVIOUS
  <1>1. /\ UNCHANGED <<api, csrf, readers, writer, main, fresh, op, pc, token, refused,
                       expiries, faults, cancels>>
        /\ checker = "asleep" /\ checker' = "queued" /\ Wait(Checker)
    BY DEF Tick, clients, budgets
  <1>2. ~InQueue(Checker) /\ writer # {Checker}
    BY <1>1 DEF IInv, Guards, Renewing
  <1>3. /\ queue' \in Seq(Owners) /\ Once(queue')
        /\ \A i \in DOMAIN queue' : queue'[i] = Checker \/ InQueue(queue'[i])
    BY <1>1, <1>2, Waits DEF IInv, TypeOK, Once, Owners
  <1>4. TypeOK'
    BY <1>1, <1>3 DEF IInv, TypeOK, Once
  <1>5. writer = {}
    BY <1>2 DEF IInv, TypeOK
  <1>6. \A c \in Clients : InQueue(c)' => InQueue(c)
    BY <1>3, ApiServiceAssumption DEF InQueue
  <1>7. Guards' /\ Objects'
    BY <1>1, <1>2, <1>5, <1>6 DEF IInv, Guards, Objects, Renewing
  <1> QED
    BY <1>1, <1>4, <1>7 DEF IInv

LEMMA InvGrant == IInv /\ Grant => IInv'
  <1> SUFFICES ASSUME IInv, Grant PROVE IInv'
    OBVIOUS
  <1>1. /\ UNCHANGED <<api, csrf, main, fresh, checker, op, pc, token, refused,
                       expiries, faults, cancels>>
        /\ queue # <<>> /\ writer = {} /\ queue' = Tail(queue)
    BY DEF Grant, clients, budgets
  <1>2. /\ queue' \in Seq(Owners) /\ Once(queue')
        /\ \A i \in DOMAIN queue' : queue'[i] # Head(queue) /\ InQueue(queue'[i])
        /\ Head(queue) \in Owners /\ InQueue(Head(queue))
    BY <1>1, Granting DEF IInv, TypeOK, Once
  <1>3. \A o : InQueue(o)' => InQueue(o) /\ o # Head(queue)
    BY <1>2 DEF InQueue
  <1>4. CASE Head(queue) = Checker
    <2>1. readers = {} /\ readers' = {} /\ writer' = {Checker}
      BY <1>4 DEF Grant
    <2>2. TypeOK'
      BY <1>1, <1>2, <2>1 DEF IInv, TypeOK, Once
    <2>3. checker = "queued"
      BY <1>2, <1>4 DEF IInv, Guards
    <2>4. Guards' /\ Objects'
      BY <1>1, <1>3, <1>4, <2>1, <2>3 DEF IInv, Guards, Objects, Renewing
    <2> QED
      BY <1>1, <2>2, <2>4 DEF IInv
  <1>5. CASE Head(queue) # Checker
    <2>1. /\ Head(queue) \in Clients
          /\ readers' = readers \cup {Head(queue)} /\ writer' = writer
      BY <1>2, <1>5 DEF Grant, Owners
    <2>2. TypeOK'
      BY <1>1, <1>2, <2>1 DEF IInv, TypeOK, Once
    <2>3. Guards' /\ Objects'
      BY <1>1, <1>3, <2>1 DEF IInv, Guards, Objects
    <2> QED
      BY <1>1, <2>2, <2>3 DEF IInv
  <1> QED
    BY <1>4, <1>5

(* A client asks for a guard: its first, or a further one for titles.       *)
LEMMA InvWaits ==
    ASSUME IInv, NEW c \in Clients, StartGet(c) \/ PostEdit(c) \/ StartTitles(c)
    PROVE  IInv'
  <1>1. /\ UNCHANGED <<api, csrf, readers, writer, main, fresh, checker, refused,
                       expiries, faults, cancels>>
        /\ Wait(c) /\ pc[c] \in {"idle", "prepared", "titles"}
        /\ pc' = [pc EXCEPT ![c] = IF pc[c] = "titles" THEN "naming" ELSE "queued"]
        /\ op' \in [Clients -> {"get", "edit"}] /\ token' \in [Clients -> Tokens]
    BY DEF StartGet, PostEdit, StartTitles, At, GoTo, budgets, IInv, TypeOK
  <1>2. ~InQueue(c)
    BY <1>1 DEF IInv, Guards
  <1>3. /\ queue' \in Seq(Owners) /\ Once(queue')
        /\ \A i \in DOMAIN queue' : queue'[i] = c \/ InQueue(queue'[i])
    BY <1>1, <1>2, Waits DEF IInv, TypeOK, Once, Owners
  <1>4. \A o : InQueue(o)' => o = c \/ InQueue(o)
    BY <1>3 DEF InQueue
  <1>5. /\ pc' \in [Clients -> ClientPlaces]
        /\ pc'[c] \in {"queued", "naming"} /\ (pc'[c] = "naming" => pc[c] = "titles")
        /\ \A d \in Clients : d # c => pc'[d] = pc[d]
    BY <1>1 DEF IInv, TypeOK, ClientPlaces
  <1>6. TypeOK'
    BY <1>1, <1>3, <1>5 DEF IInv, TypeOK, Once
  <1>7. Guards'
    BY <1>1, <1>4, <1>5, ApiServiceAssumption DEF IInv, Guards
  <1>8. Objects'
    BY <1>1, <1>5 DEF IInv, Objects
  <1> QED
    BY <1>1, <1>6, <1>7, <1>8 DEF IInv

(* A client reads the token of its edit.                                    *)
LEMMA InvPrepares ==
    ASSUME IInv, NEW c \in Clients, StartEdit(c)
    PROVE  IInv'
  <1>1. /\ UNCHANGED <<api, csrf, readers, writer, queue, main, fresh, checker, refused,
                       expiries, faults, cancels>>
        /\ pc[c] = "idle" /\ pc' = [pc EXCEPT ![c] = "prepared"]
        /\ op' \in [Clients -> {"get", "edit"}] /\ token' \in [Clients -> Tokens]
    BY DEF StartEdit, At, GoTo, lock, budgets, IInv, TypeOK
  <1>2. TypeOK'
    BY <1>1 DEF IInv, TypeOK, ClientPlaces
  <1>3. /\ pc'[c] = "prepared" /\ ~InQueue(c)
        /\ \A d \in Clients : d # c => pc'[d] = pc[d]
    BY <1>1 DEF IInv, TypeOK, Guards
  <1>4. Guards' /\ Objects'
    BY <1>1, <1>3 DEF IInv, Guards, Objects, InQueue
  <1> QED
    BY <1>2, <1>4 DEF IInv

(* A client goes on with its guard or gives it back; one that is dropped    *)
(* also gives up its place in the queue.                                    *)
LEMMA InvGoesOn ==
    ASSUME IInv, NEW c \in Clients, Send(c) \/ Answer(c) \/ MakeTitles(c) \/ Cancel(c)
    PROVE  IInv'
  <1>1. /\ UNCHANGED <<api, csrf, writer, main, fresh, checker, op, token, expiries>>
        /\ faults' \in Nat /\ cancels' \in Nat
    BY DEF Send, Answer, MakeTitles, Cancel, Fails, lock, budgets, IInv, TypeOK
  <1>2. refused' \in [Clients -> Nat]
    BY DEF Send, Answer, MakeTitles, Cancel, IInv, TypeOK
  <1>3. /\ \E place \in {"idle", "sent", "titles"} :
             /\ pc' = [pc EXCEPT ![c] = place]
             /\ place = "sent" => /\ api # "none" /\ readers' = readers /\ c \in readers
             /\ place = "titles" => api # "none"
             /\ place # "idle" => pc[c] \in {"queued", "sent"}
        /\ readers' = readers \/ readers' = readers \ {c}
    BY DEF Send, Answer, MakeTitles, Cancel, At, GoTo, Granted, ReadUnlock, lock, IInv, Objects
  <1>4. /\ queue' \in Seq(Owners) /\ Once(queue')
        /\ \A o : InQueue(o)' => InQueue(o) /\ o # c
    <2>1. CASE Cancel(c)
      <3>1. Leaves(c) /\ queue \in Seq(Owners) /\ Once(queue)
        BY <2>1 DEF Cancel, IInv, TypeOK, Once
      <3>2. /\ queue' \in Seq(Owners) /\ Once(queue')
            /\ \A i \in DOMAIN queue' : queue'[i] # c /\ InQueue(queue'[i])
        BY <3>1, Leaving
      <3> QED
        BY <3>2 DEF InQueue
    <2>2. CASE Send(c) \/ Answer(c) \/ MakeTitles(c)
      <3>1. queue' = queue /\ ~InQueue(c)
        BY <2>2 DEF Send, Answer, MakeTitles, At, Granted, lock, IInv, Guards, InQueue
      <3> QED
        BY <3>1 DEF IInv, TypeOK, Once, InQueue
    <2> QED
      BY <2>1, <2>2
  <1>5. /\ pc' \in [Clients -> ClientPlaces]
        /\ \A d \in Clients : d # c => pc'[d] = pc[d]
        /\ pc'[c] \in {"idle", "sent", "titles"}
        /\ pc'[c] = "sent" => api # "none" /\ c \in readers'
        /\ pc'[c] = "titles" => api # "none"
    BY <1>3 DEF IInv, TypeOK, ClientPlaces
  <1>6. TypeOK'
    BY <1>1, <1>2, <1>3, <1>4, <1>5 DEF IInv, TypeOK, Once
  <1>7. Guards'
    BY <1>1, <1>3, <1>4, <1>5 DEF IInv, Guards
  <1>8. Objects'
    BY <1>1, <1>5 DEF IInv, Objects
  <1> QED
    BY <1>6, <1>7, <1>8 DEF IInv

LEMMA InvNext == IInv /\ [Next]_vars => IInv'
  <1> SUFFICES ASSUME IInv, [Next]_vars PROVE IInv'
    OBVIOUS
  <1>1. CASE UNCHANGED vars
    BY <1>1 DEF vars, lock, clients, budgets, IInv, TypeOK, Guards, Objects, InQueue
  <1>2. CASE Next
    BY <1>2, InvMain, InvTick, InvRenews, InvGrant, InvWaits, InvPrepares,
       InvGoesOn, InvExpire
    DEF Next, CheckerStep, ClientStep
  <1> QED
    BY <1>1, <1>2

LEMMA Invariant == Spec => []IInv
  BY InvInit, InvNext, PTL DEF Spec

-----------------------------------------------------------------------------
(* Tokens.                                                                  *)

(* Where a client is between reading the token and the reply.               *)
Holds(c) == op[c] = "edit" /\ pc[c] \in {"prepared", "queued", "sent"}

(* The service only has a token that fits its session, but for a moment of  *)
(* the initialisation; who lost an edit in this session has not read, and   *)
(* will not read, another token than the one that fits it.                  *)
Renewals ==
    /\ main # "done" =>
         api = "none" /\ checker = "asleep" /\ \A c \in Clients : refused[c] = 0
    /\ csrf = "current" =>
         \/ main = "done" /\ api = "live"
         \/ main = "set" /\ fresh = "live"
    /\ \A c \in Clients :
         \/ refused[c] = 0
         \/ refused[c] = 1 /\ csrf = "current" /\ (Holds(c) => token[c] = "current")

LEMMA RenewalsInit == Init => Renewals
  BY DEF Init, Renewals

LEMMA RenewalsMain == IInv /\ Renewals /\ MainStep => Renewals'
  <1> SUFFICES ASSUME IInv, Renewals, MainStep PROVE Renewals'
    OBVIOUS
  <1>1. /\ main # "done" /\ checker = "asleep" /\ checker' = checker
        /\ refused' = refused /\ \A c \in Clients : refused[c] = 0
        /\ main' # "done" => api' = "none"
    BY DEF MainStep, MainNew, MainLogin, MainToken, MainSet, Renewals
  <1>2. csrf' = "current" =>
          \/ main' = "done" /\ api' = "live"
          \/ main' = "set" /\ fresh' = "live"
    BY DEF MainStep, MainNew, MainLogin, MainToken, MainSet, Renewals, TokenOf
  <1> QED
    BY <1>1, <1>2 DEF Renewals

LEMMA RenewalsExpire == IInv /\ Renewals /\ Expire => Renewals'
  <1> SUFFICES ASSUME IInv, Renewals, Expire PROVE Renewals'
    OBVIOUS
  <1>1. /\ csrf' # "current" /\ main' = "done"
        /\ \A c \in Clients : refused'[c] = 0
    BY DEF Expire, TokensGoStale, Outdated, Renewals
  <1> QED
    BY <1>1 DEF Renewals

LEMMA RenewalsChecker == IInv /\ Renewals /\ CheckerStep => Renewals'
  <1> SUFFICES ASSUME IInv, Renewals, CheckerStep PROVE Renewals'
    OBVIOUS
  <1>1. main = "done" /\ main' = "done" /\ UNCHANGED <<op, pc>>
    BY DEF CheckerStep, Tick, Begin, Check, New, Login, Token, clients, Renewals
  <1>2. CASE Tick \/ Begin \/ Check \/ New
    <2>1. UNCHANGED <<api, csrf, token, refused>>
      BY <1>2 DEF Tick, Begin, Check, New, clients
    <2> QED
      BY <1>1, <2>1 DEF Renewals, Holds
  <1>3. CASE Login /\ TokensGoStale
    <2>1. csrf' # "current" /\ \A c \in Clients : refused'[c] = 0
      BY <1>3 DEF TokensGoStale, Outdated
    <2> QED
      BY <1>1, <2>1 DEF Renewals
  <1>4. CASE Login /\ UNCHANGED <<api, csrf, token, refused>>
    BY <1>1, <1>4 DEF Renewals, Holds
  <1>5. CASE Token
    <2>1. UNCHANGED <<token, refused>> /\ (api = "live" => api' = "live")
      BY <1>5 DEF Token, clients
    <2>2. csrf = "current" => csrf' = "current" /\ api = "live"
      BY <1>1, <1>5, <2>1 DEF Token, TokenOf, Renewals
    <2>3. csrf' = "current" => api' = "live"
      BY <1>1, <1>5, <2>1, <2>2 DEF Token, TokenOf
    <2> QED
      BY <1>1, <2>1, <2>2, <2>3 DEF Renewals, Holds
  <1>6. Login => TokensGoStale \/ UNCHANGED <<api, csrf, token, refused>>
    BY DEF Login
  <1> QED
    BY <1>2, <1>3, <1>4, <1>5, <1>6 DEF CheckerStep

LEMMA RenewalsClient ==
    ASSUME IInv, Renewals, NEW c \in Clients,
           StartGet(c) \/ StartEdit(c) \/ ClientStep(c) \/ Cancel(c)
    PROVE  Renewals'
  <1>1. UNCHANGED <<api, csrf, main, fresh, checker>>
    BY DEF StartGet, StartEdit, ClientStep, PostEdit, Send, Answer, StartTitles,
           MakeTitles, Cancel
  <1>2. \A d \in Clients : d # c =>
          refused'[d] = refused[d] /\ op'[d] = op[d] /\ pc'[d] = pc[d] /\ token'[d] = token[d]
    BY DEF StartGet, StartEdit, ClientStep, PostEdit, Send, Answer, StartTitles,
           MakeTitles, Cancel, GoTo, IInv, TypeOK
  <1>3. CASE refused' = refused
    <2>1. Holds(c)' => token'[c] = csrf \/ (Holds(c) /\ token'[c] = token[c])
      BY DEF StartGet, StartEdit, ClientStep, PostEdit, Send, Answer, StartTitles,
             MakeTitles, Cancel, At, GoTo, Holds, IInv, TypeOK
    <2> QED
      BY <1>1, <1>2, <1>3, <2>1 DEF Renewals, Holds
  <1>4. CASE refused' # refused
    <2>a. Answer(c) /\ op[c] = "edit" /\ Refused(c)
      BY <1>4 DEF StartGet, StartEdit, ClientStep, PostEdit, Send, Answer, StartTitles,
                  MakeTitles, Cancel
    <2>b. refused' = [refused EXCEPT ![c] = @ + 1] /\ pc' = [pc EXCEPT ![c] = "idle"]
      BY <1>4, <2>a DEF Answer, GoTo
    <2>c. api = "live" /\ csrf = "current" /\ token[c] # "current" /\ pc[c] = "sent"
      BY <2>a DEF Answer, At, Refused, Served
    <2>d. main = "done"
      BY <2>c DEF Renewals
    <2>1. /\ Holds(c) /\ csrf = "current" /\ token[c] # "current"
          /\ refused'[c] = refused[c] + 1 /\ pc'[c] = "idle" /\ main = "done"
      BY <2>a, <2>b, <2>c, <2>d DEF Holds, IInv, TypeOK
    <2>2. refused[c] = 0
      BY <2>1 DEF Renewals
    <2> QED
      BY <1>1, <1>2, <2>1, <2>2 DEF Renewals, Holds
  <1> QED
    BY <1>3, <1>4

LEMMA RenewalsKept == Spec => []Renewals
  <1>1. ASSUME IInv, Renewals, [Next]_vars
        PROVE  Renewals'
    <2>1. CASE UNCHANGED vars
      BY <1>1, <2>1 DEF vars, clients, lock, Renewals, Holds
    <2>2. CASE Grant
      BY <1>1, <2>2 DEF Grant, clients, Renewals, Holds
    <2> QED
      BY <1>1, <2>1, <2>2, RenewalsMain, RenewalsExpire, RenewalsChecker, RenewalsClient
      DEF Next
  <1> QED
    BY <1>1, Invariant, RenewalsInit, PTL DEF Spec

-----------------------------------------------------------------------------
(* The state of the service has its type: at most the checker holds the     *)
(* write guard, never beside a reader, and nobody waits twice.              *)
THEOREM TypeCorrect == Spec => []TypeOK
  BY Invariant, PTL DEF IInv

(* Whatever fails, and however often the session is renewed: a routine loses *)
(* at most one edit to the token of an earlier session.                     *)
THEOREM LosesOneEdit == Spec => []OneEditLostPerSession
  <1>1. Renewals => OneEditLostPerSession
    BY DEF Renewals, OneEditLostPerSession
  <1> QED
    BY <1>1, RenewalsKept, PTL

(* There is an object whenever titles are made from a reply.                *)
THEOREM TitlesAlwaysMade == Spec => []TitlesHaveApi
  <1>1. IInv => TitlesHaveApi
    BY DEF IInv, Objects, TitlesHaveApi
  <1> QED
    BY <1>1, Invariant, PTL

(* No request is under way while the checker renews the session.            *)
THEOREM AlwaysRenewsAlone == Spec => []RenewsAlone
  <1>1. ASSUME IInv, checker \in Renewing, NEW c \in Clients
        PROVE  pc[c] # "sent"
    <2>1. readers = {}
      BY <1>1 DEF IInv, TypeOK, Guards
    <2> QED
      BY <1>1, <2>1 DEF IInv, Guards
  <1>2. IInv => RenewsAlone
    BY <1>1 DEF RenewsAlone, Renewing
  <1> QED
    BY <1>2, Invariant, PTL
=============================================================================
