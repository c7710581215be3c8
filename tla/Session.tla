------------------------------ MODULE Session ------------------------------
(***************************************************************************)
(* Login by verification code and the session of the clients.  A client is *)
(* the browser tab of one user (one phone): the login page and the info    *)
(* page with the axios interceptors of common.js.  Requests run on a few   *)
(* server threads, each with the thread-local user of UserHolder, through  *)
(* RefreshTokenInterceptor, LoginInterceptor and UserServiceImpl.  Every   *)
(* Redis or MySQL call is a step of its own and may fail, applied or not,  *)
(* and an answer may come after the page has given up waiting for it.      *)
(***************************************************************************)
EXTENDS Naturals

CONSTANTS
    Clients,
    Threads,
    Nobody,        \* no user in the thread-local
    Scenes,        \* which clients and threads are there: [clients, threads]
    MaxTokens,     \* bound on the tokens in use at one time
    MaxFaults,     \* bound on failing calls and on answers that come too late
    MaxLapses      \* bound on codes, and sessions in use, that run out

ASSUME SessionConstants ==
    Nobody \notin Clients /\ Scenes \subseteq [clients : SUBSET Clients, threads : SUBSET Threads]
    /\ MaxTokens \in Nat /\ MaxFaults \in Nat /\ MaxLapses \in Nat

VARIABLES
    scene,      \* one of Scenes, the same all along
    code,       \* clients whose verification code is in Redis
    users,      \* clients with a row in tb_user
    session,    \* session[k]: the user in the hash login:token:<k>, or Nobody
    lasting,    \* tokens whose hash has no lifetime
    pc, job,    \* what each thread is doing, and for which request
    local,      \* UserHolder's thread-local
    tainted,    \* threads that kept their user past the end of a request (history)
    page,       \* the page a client is on; "shown" is the info page with its data
    typed,      \* clients that have a code to type in
    token,      \* sessionStorage "token", 0 before the first login
    faults, lapses

storeVars == <<code, users, session, lasting>>
threadVars == <<pc, job, local, tainted>>
clientVars == <<page, typed, token>>
sessionVars == <<storeVars, threadVars, clientVars, faults, lapses, scene>>

Tokens == 1..MaxTokens

\* client: whom the request is from.  sent: its authorization header.  drawn: the
\* token the login drew.  heard: is the page that sent the request still there?
NoJob == [client |-> Nobody, op |-> "none", sent |-> 0, drawn |-> 0, heard |-> FALSE]

Busy(c) == \E t \in Threads : job[t].client = c /\ job[t].heard

SessionInit ==
    /\ scene \in Scenes
    /\ code = {}
    /\ users = {}
    /\ session = [k \in Tokens |-> Nobody]
    /\ lasting = {}
    /\ pc = [t \in Threads |-> "idle"]
    /\ job = [t \in Threads |-> NoJob]
    /\ local = [t \in Threads |-> Nobody]
    /\ tainted = {}
    /\ page = [c \in Clients |-> "login"]
    /\ typed = {}
    /\ token = [c \in Clients |-> 0]
    /\ faults = 0
    /\ lapses = 0

-----------------------------------------------------------------------------
(* The browser.                                                            *)

\* sendCode: the button, the request, SET login:code:<phone> and the message with
\* the code.  The interceptors let the request pass whoever sends it.
SendCode(c) ==
    /\ page[c] = "login" /\ c \notin typed
    /\ code' = code \cup {c}
    /\ typed' = typed \cup {c}
    /\ UNCHANGED <<users, session, lasting, threadVars, page, token, faults, lapses>>

\* The login button is not disabled while a login is under way; the request
\* interceptor adds the token that was read when the page was loaded.
MaySend(c) ==
    \/ page[c] = "login" /\ c \in typed
    \/ page[c] = "main" /\ ~Busy(c)

Send(c) == \E t \in scene.threads :
    /\ MaySend(c)
    /\ pc[t] = "idle"
    /\ pc' = [pc EXCEPT ![t] = "lookup"]
    /\ job' = [job EXCEPT ![t] = [client |-> c, op |-> IF page[c] = "login" THEN "login" ELSE "me",
                                  sent |-> token[c], drawn |-> 0, heard |-> TRUE]]
    /\ UNCHANGED <<storeVars, local, tainted, clientVars, faults, lapses>>

\* The user opens the info page again.
Reload(c) ==
    /\ page[c] = "shown"
    /\ page' = [page EXCEPT ![c] = "main"]
    /\ UNCHANGED <<storeVars, threadVars, typed, token, faults, lapses>>

\* Mutant: a refused request leaves the page as it is.
ReceiveWithoutRedirect(j, answer) ==
    LET c == j.client IN
    /\ page' = IF ~j.heard THEN page
               ELSE IF answer = "token" THEN [page EXCEPT ![c] = "main"]
               ELSE IF answer = "user" THEN [page EXCEPT ![c] = "shown"] ELSE page
    /\ typed' = IF j.heard /\ answer \in {"token", "incorrect"} THEN typed \ {c} ELSE typed
    /\ token' = IF j.heard /\ answer = "token" THEN [token EXCEPT ![c] = j.drawn] ELSE token

\* What the page does with the answer to request j.  A login stores the token and
\* leaves for the next page, or makes the user ask for a new code; a request for
\* the own user that is refused (the 401 interceptor) or fails (queryUser's catch)
\* leads back to the login page.
Receive(j, answer) ==
    LET c == j.client IN
    /\ page' = IF ~j.heard THEN page
               ELSE IF answer = "token" THEN [page EXCEPT ![c] = "main"]
               ELSE IF answer = "user" THEN [page EXCEPT ![c] = "shown"]
               ELSE IF j.op = "me" THEN [page EXCEPT ![c] = "login"] ELSE page
    /\ typed' = IF j.heard /\ answer \in {"token", "incorrect"} THEN typed \ {c} ELSE typed
    /\ token' = IF j.heard /\ answer = "token" THEN [token EXCEPT ![c] = j.drawn] ELSE token

\* A page that is left hears no later answers.
StillHeard(s, j) == job[s].heard /\ (job[s].client = j.client => page'[j.client] = page[j.client])

\* The answer ends the request.
Reply(t, j, answer) ==
    /\ Receive(j, answer)
    /\ pc' = [pc EXCEPT ![t] = "idle"]
    /\ job' = [s \in Threads |->
                 IF s = t THEN NoJob ELSE [job[s] EXCEPT !.heard = StillHeard(s, j)]]

\* Mutant: the interceptor does not remove the user.
AnswerWithoutCleanup(t, j, answer) ==
    /\ Reply(t, j, answer)
    /\ UNCHANGED <<local, tainted>>

\* afterCompletion removes the user from the thread.
Answer(t, j, answer) ==
    /\ Reply(t, j, answer)
    /\ local' = [local EXCEPT ![t] = Nobody]
    /\ tainted' = tainted \ {t}

\* axios.defaults.timeout: the page stops waiting and takes the request for failed;
\* the server goes on with it, and nobody hears its answer.
PageTimesOut(t) ==
    /\ job[t].heard /\ faults < MaxFaults
    /\ Receive(job[t], "error")
    /\ job' = [s \in Threads |-> [job[s] EXCEPT !.heard = s # t /\ StillHeard(s, job[t])]]
    /\ faults' = faults + 1
    /\ UNCHANGED <<storeVars, pc, local, tainted, lapses>>

-----------------------------------------------------------------------------
(* The interceptors.                                                       *)

\* LoginInterceptor, which does not look at /user/code and /user/login.
Guard(t, user) ==
    IF job[t].op = "me" /\ user = Nobody
    THEN Answer(t, job[t], "unauthorized")
    ELSE /\ pc' = [pc EXCEPT ![t] = "run"]
         /\ local' = [local EXCEPT ![t] = user]
         /\ UNCHANGED <<job, tainted, clientVars>>

Found(t) == job[t].sent # 0 /\ session[job[t].sent] # Nobody

\* Mutant: the login check looks before the user is saved.
LookupAfterGuard(t) ==
    /\ pc[t] = "lookup"
    /\ Guard(t, local[t])
    /\ UNCHANGED <<storeVars, faults, lapses>>

\* preHandle: HGETALL login:token:<sent>, and saveUser if there is one; then, or
\* after EXPIRE, the login check.
Lookup(t) ==
    /\ pc[t] = "lookup"
    /\ IF Found(t)
       THEN /\ pc' = [pc EXCEPT ![t] = "refresh"]
            /\ local' = [local EXCEPT ![t] = session[job[t].sent]]
            /\ UNCHANGED <<job, tainted, clientVars>>
       ELSE Guard(t, local[t])
    /\ UNCHANGED <<storeVars, faults, lapses>>

\* EXPIRE; it does nothing if the hash has gone meanwhile.
GiveLifetime(k) == lasting' = lasting \ {k} /\ UNCHANGED <<code, users, session>>

Refresh(t) ==
    /\ pc[t] = "refresh"
    /\ GiveLifetime(job[t].sent)
    /\ Guard(t, local[t])
    /\ UNCHANGED <<faults, lapses>>

\* An exception in preHandle: Spring calls no afterCompletion of that interceptor.
PreHandleFails(t) ==
    /\ faults < MaxFaults
    /\ \/ pc[t] = "lookup" /\ job[t].sent # 0 /\ UNCHANGED storeVars
       \/ pc[t] = "refresh" /\ (GiveLifetime(job[t].sent) \/ UNCHANGED storeVars)
    /\ Reply(t, job[t], "error")
    /\ tainted' = IF local[t] = Nobody THEN tainted ELSE tainted \cup {t}
    /\ faults' = faults + 1
    /\ UNCHANGED <<local, lapses>>

-----------------------------------------------------------------------------
(* The handlers.                                                           *)

\* UserController.me
Me(t) ==
    /\ pc[t] = "run" /\ job[t].op = "me"
    /\ Answer(t, job[t], "user")
    /\ UNCHANGED <<storeVars, faults, lapses>>

\* login: GET login:code:<phone>, and the comparison.
CheckCode(t) ==
    /\ pc[t] = "run" /\ job[t].op = "login"
    /\ IF job[t].client \in code
       THEN pc' = [pc EXCEPT ![t] = "query"] /\ UNCHANGED <<job, local, tainted, clientVars>>
       ELSE Answer(t, job[t], "incorrect")
    /\ UNCHANGED <<storeVars, faults, lapses>>

QueryUser(t) ==
    /\ pc[t] = "query"
    /\ pc' = [pc EXCEPT ![t] = IF job[t].client \in users THEN "put" ELSE "insert"]
    /\ UNCHANGED <<storeVars, job, local, tainted, clientVars, faults, lapses>>

\* A token that nobody has or will be given, and under which there is no hash: the
\* smallest one, as it could be any (UUIDs are never drawn twice).
Unused(k) ==
    /\ session[k] = Nobody
    /\ \A c \in Clients : token[c] # k
    /\ \A t \in Threads : job[t].sent # k /\ job[t].drawn # k

IsFresh(k) == Unused(k) /\ \A l \in 1..k - 1 : ~Unused(l)

InsertEffect(t) == users' = users \cup {job[t].client} /\ UNCHANGED <<code, session, lasting>>

\* createUserWithPhone: the unique index on the phone may refuse the row.  It
\* returns no user, so the login that created the row goes on with none: copying
\* and writing nothing either fails, or writes no hash and answers with a token.
CreateUser(t) ==
    /\ pc[t] = "insert"
    /\ IF job[t].client \in users
       THEN UNCHANGED storeVars /\ Answer(t, job[t], "error")
       ELSE /\ InsertEffect(t)
            /\ \/ Answer(t, job[t], "error")
               \/ \E k \in Tokens : IsFresh(k) /\ Answer(t, [job[t] EXCEPT !.drawn = k], "token")
    /\ UNCHANGED <<faults, lapses>>

PutEffect(t, k) ==
    /\ session' = [session EXCEPT ![k] = job[t].client]
    /\ lasting' = lasting \cup {k}
    /\ UNCHANGED <<code, users>>

\* Mutant: the token is answered before EXPIRE.
PutSessionOnly(t) == \E k \in Tokens :
    /\ pc[t] = "put"
    /\ IsFresh(k)
    /\ PutEffect(t, k)
    /\ Answer(t, [job[t] EXCEPT !.drawn = k], "token")
    /\ UNCHANGED <<faults, lapses>>

\* HMSET login:token:<drawn>
PutSession(t) == \E k \in Tokens :
    /\ pc[t] = "put"
    /\ IsFresh(k)
    /\ PutEffect(t, k)
    /\ job' = [job EXCEPT ![t].drawn = k]
    /\ pc' = [pc EXCEPT ![t] = "expire"]
    /\ UNCHANGED <<local, tainted, clientVars, faults, lapses>>

ExpireSession(t) ==
    /\ pc[t] = "expire"
    /\ GiveLifetime(job[t].drawn)
    /\ Answer(t, job[t], "token")
    /\ UNCHANGED <<faults, lapses>>

\* A call of a handler throws, applied or not; WebExceptionAdvice answers.
CallFails(t) ==
    /\ faults < MaxFaults
    /\ \/ pc[t] = "run" /\ job[t].op = "login" /\ UNCHANGED storeVars
       \/ pc[t] = "query" /\ UNCHANGED storeVars
       \/ pc[t] = "insert" /\ (InsertEffect(t) \/ UNCHANGED storeVars)
       \/ pc[t] = "put" /\ \E k \in Tokens : IsFresh(k) /\ (PutEffect(t, k) \/ UNCHANGED storeVars)
       \/ pc[t] = "expire" /\ (GiveLifetime(job[t].drawn) \/ UNCHANGED storeVars)
    /\ Answer(t, job[t], "error")
    /\ faults' = faults + 1
    /\ UNCHANGED lapses

-----------------------------------------------------------------------------
(* Time.                                                                   *)

CodeLapses(c) ==
    /\ c \in code /\ lapses < MaxLapses
    /\ code' = code \ {c}
    /\ lapses' = lapses + 1
    /\ UNCHANGED <<users, session, lasting, threadVars, clientVars, faults>>

Held(k) == \E c \in Clients : token[c] = k

Ends(k) ==
    /\ session[k] # Nobody /\ k \notin lasting
    /\ session' = [session EXCEPT ![k] = Nobody]
    /\ UNCHANGED <<code, users, lasting, threadVars, clientVars, faults>>

\* The lifetime of a session ends, while its client is away for long enough.
SessionLapses(k) == Held(k) /\ lapses < MaxLapses /\ Ends(k) /\ lapses' = lapses + 1

\* A session that no client has, or has any more, runs out without being missed.
AbandonedSessionEnds(k) == ~Held(k) /\ Ends(k) /\ UNCHANGED lapses

Serve(t) ==
    \/ Lookup(t)
    \/ Refresh(t)
    \/ Me(t)
    \/ CheckCode(t)
    \/ QueryUser(t)
    \/ CreateUser(t)
    \/ PutSession(t)
    \/ ExpireSession(t)

SessionNext ==
    /\ UNCHANGED scene
    /\ \/ \E c \in scene.clients : SendCode(c) \/ Send(c) \/ Reload(c) \/ CodeLapses(c)
       \/ \E t \in scene.threads : Serve(t) \/ PreHandleFails(t) \/ CallFails(t) \/ PageTimesOut(t)
       \/ \E k \in Tokens : SessionLapses(k) \/ AbandonedSessionEnds(k)

\* A thread finishes what it has begun, the container hands a waiting request a
\* thread in turn, the user goes on trying, and Redis ends what nobody renews.
SessionFairness ==
    /\ \A t \in Threads : WF_sessionVars(Serve(t) /\ UNCHANGED scene)
    /\ \A c \in Clients : /\ WF_sessionVars(SendCode(c) /\ UNCHANGED scene)
                          /\ SF_sessionVars(Send(c) /\ UNCHANGED scene)
    /\ \A k \in Tokens : WF_sessionVars(AbandonedSessionEnds(k) /\ UNCHANGED scene)

SessionSpec == SessionInit /\ [][SessionNext]_sessionVars /\ SessionFairness

-----------------------------------------------------------------------------
Job == [client : Clients \cup {Nobody}, op : {"none", "login", "me"},
        sent : 0..MaxTokens, drawn : 0..MaxTokens, heard : BOOLEAN]

SessionType ==
    /\ scene \in Scenes
    /\ code \in SUBSET Clients /\ users \in SUBSET Clients
    /\ session \in [Tokens -> Clients \cup {Nobody}] /\ lasting \in SUBSET Tokens
    /\ pc \in [Threads -> {"idle", "lookup", "refresh", "run", "query",
                           "insert", "put", "expire"}]
    /\ job \in [Threads -> Job]
    /\ local \in [Threads -> Clients \cup {Nobody}]
    /\ tainted \in SUBSET Threads
    /\ page \in [Clients -> {"login", "main", "shown"}]
    /\ typed \in SUBSET Clients
    /\ token \in [Clients -> 0..MaxTokens]
    /\ faults \in 0..MaxFaults /\ lapses \in 0..MaxLapses

\* What a thread has in UserHolder while it serves a request is the user who sent
\* the request, or nobody: never one of an earlier request of that thread, on
\* whichever path that one ended.  The exception is a thread whose last request
\* failed inside preHandle, after which Spring does not clean up.
RunsAsItsSession ==
    \A t \in Threads \ tainted : local[t] \in {Nobody, job[t].client}

\* A client is only ever given a token whose session has a lifetime (or has ended,
\* or never was), although the hash is written and given one by two calls.
HeldSessionsEnd == \A c \in Clients : token[c] \notin lasting

\* A client on a page for users is sent back to the login page only if its session
\* has ended, a call failed or its own request took too long: never because of what other requests do.
SentAwayWithoutSession ==
    [][\A c \in Clients :
          page[c] = "main" /\ page'[c] = "login" =>
              session[token[c]] = Nobody \/ faults' > faults]_sessionVars

\* Every user gets to see the own page, again and again.
GetsIn == \A c \in Clients : []<>(c \in scene.clients => page[c] = "shown")
=============================================================================
