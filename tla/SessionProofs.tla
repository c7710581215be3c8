---------------------------- MODULE SessionProofs ----------------------------
(***************************************************************************)
(* Sessions for any number of clients, threads, tokens and failures: no    *)
(* request runs as the user of another one, and no client is given a       *)
(* session that never ends.                                                *)
(***************************************************************************)
EXTENDS Session, TLAPS

Phases == {"idle", "lookup", "refresh", "run", "query", "insert", "put", "expire"}

\* The part of the type invariant that the proof needs.
SessionShape ==
    /\ scene \in Scenes
    /\ session \in [Tokens -> Clients \cup {Nobody}]
    /\ lasting \in SUBSET Tokens
    /\ pc \in [Threads -> Phases]
    /\ job \in [Threads -> Job]
    /\ local \in [Threads -> Clients \cup {Nobody}]
    /\ tainted \in SUBSET Threads
    /\ token \in [Clients -> 0..MaxTokens]

\* A thread has a job exactly while it is busy, and a login about to give its session
\* a lifetime has drawn a token.
BusyHasJob ==
    \A t \in Threads :
        /\ IF pc[t] = "idle" THEN job[t] = NoJob ELSE job[t].client \in Clients
        /\ pc[t] = "expire" => job[t].drawn \in Tokens

OwnedBy(k, c) == k = 0 \/ session[k] \in {Nobody, c}

\* A token that a client or a request has belongs to nobody else.
TokensOwned ==
    /\ \A c \in Clients : OwnedBy(token[c], c)
    /\ \A t \in Threads : OwnedBy(job[t].sent, job[t].client) /\ OwnedBy(job[t].drawn, job[t].client)

\* Only a hash that exists can be without a lifetime.
LastingExists == \A k \in lasting : session[k] # Nobody

SessionInv ==
    /\ SessionShape
    /\ BusyHasJob
    /\ TokensOwned
    /\ LastingExists
    /\ HeldSessionsEnd
    /\ RunsAsItsSession

Used(k) ==
    \/ \E c \in Clients : token[c] = k
    \/ \E t \in Threads : job[t].sent = k \/ job[t].drawn = k

\* What every step does to the sessions: a token in use keeps its session or loses it.
StoreKept ==
    /\ session' \in [Tokens -> Clients \cup {Nobody}]
    /\ lasting' \in SUBSET Tokens
    /\ \A k \in Tokens : Used(k) => session'[k] \in {session[k], Nobody}
    /\ \A k \in lasting' : session'[k] # Nobody
    /\ \A c \in Clients : token[c] \notin lasting'

LEMMA NoJobIsJob == NoJob \in Job /\ NoJob.client = Nobody /\ NoJob.sent = 0 /\ NoJob.drawn = 0
  BY SessionConstants DEF NoJob, Job

LEMMA JobFields ==
  ASSUME NEW j \in Job
  PROVE  /\ j.client \in Clients \cup {Nobody} /\ j.heard \in BOOLEAN
         /\ j.sent \in 0..MaxTokens /\ j.drawn \in 0..MaxTokens
  BY DEF Job

LEMMA UnheardJob ==
  ASSUME NEW j \in Job, NEW h \in BOOLEAN
  PROVE  LET i == [j EXCEPT !.heard = h] IN
         /\ i \in Job /\ i.client = j.client /\ i.sent = j.sent /\ i.drawn = j.drawn
         /\ i.op = j.op /\ i.heard = h
  BY DEF Job

LEMMA DrawnJob ==
  ASSUME NEW j \in Job, NEW k \in Tokens
  PROVE  LET i == [j EXCEPT !.drawn = k] IN
         /\ i \in Job /\ i.client = j.client /\ i.sent = j.sent /\ i.drawn = k
         /\ i.op = j.op /\ i.heard = j.heard
  BY SessionConstants DEF Job, Tokens

LEMMA SessionInitInv == SessionInit => SessionInv
<1> SUFFICES ASSUME SessionInit PROVE SessionInv
  OBVIOUS
<1>1. SessionShape
  BY NoJobIsJob, SessionConstants DEF SessionInit, SessionShape, Phases
<1>2. BusyHasJob
  BY DEF SessionInit, BusyHasJob
<1>3. TokensOwned
  BY NoJobIsJob DEF SessionInit, TokensOwned, OwnedBy
<1>4. LastingExists /\ HeldSessionsEnd
  BY DEF SessionInit, LastingExists, HeldSessionsEnd
<1>5. RunsAsItsSession
  BY DEF SessionInit, RunsAsItsSession
<1>6. QED
  BY <1>1, <1>2, <1>3, <1>4, <1>5 DEF SessionInv

\* Tokens keep their owners when nobody gets a new one.
LEMMA OwnersKept ==
  ASSUME SessionInv, StoreKept, UNCHANGED <<token, job>>
  PROVE  TokensOwned' /\ LastingExists' /\ HeldSessionsEnd'
<1>1. \A c \in Clients : OwnedBy(token[c], c)'
  BY DEF SessionInv, SessionShape, TokensOwned, OwnedBy, StoreKept, Used, Tokens
<1>2. ASSUME NEW t \in Threads
      PROVE  OwnedBy(job[t].sent, job[t].client)' /\ OwnedBy(job[t].drawn, job[t].client)'
  <2>1. job[t].sent \in 0..MaxTokens /\ job[t].drawn \in 0..MaxTokens
    BY JobFields DEF SessionInv, SessionShape
  <2>2. QED
    BY <2>1 DEF SessionInv, TokensOwned, OwnedBy, StoreKept, Used, Tokens
<1>3. TokensOwned'
  BY <1>1, <1>2 DEF TokensOwned
<1>4. QED
  BY <1>3 DEF StoreKept, LastingExists, HeldSessionsEnd

\* A thread goes on with its request, with its user in the thread-local or nobody.
LEMMA ThreadProceeds ==
  ASSUME SessionInv, StoreKept, NEW t \in Threads, pc[t] # "idle",
         NEW phase \in Phases \ {"idle", "expire"}, pc' = [pc EXCEPT ![t] = phase],
         NEW user \in {local[t], Nobody, job[t].client}, local' = [local EXCEPT ![t] = user],
         UNCHANGED <<job, tainted, token, scene>>
  PROVE  SessionInv'
<1>1. job[t].client \in Clients
  BY DEF SessionInv, BusyHasJob
<1>2. SessionShape'
  BY <1>1 DEF SessionInv, SessionShape, StoreKept
<1>3. BusyHasJob'
  BY <1>1 DEF SessionInv, SessionShape, BusyHasJob
<1>4. RunsAsItsSession'
  BY DEF SessionInv, SessionShape, RunsAsItsSession
<1>5. QED
  BY <1>2, <1>3, <1>4, OwnersKept DEF SessionInv

\* A request ends; if the answer is a token, it is the client's and its session ends.
LEMMA RequestEnds ==
  ASSUME SessionInv, StoreKept, NEW t \in Threads, pc[t] # "idle",
         NEW j \in Job, j.client = job[t].client, NEW answer, Reply(t, j, answer),
         answer = "token" => /\ j.drawn \in Tokens /\ j.drawn \notin lasting'
                             /\ session'[j.drawn] \in {Nobody, j.client},
         local' \in [Threads -> Clients \cup {Nobody}], tainted' \in SUBSET Threads,
         \A s \in Threads \ {t} : local'[s] = local[s] /\ (s \in tainted' <=> s \in tainted),
         t \notin tainted' => local'[t] = Nobody,
         UNCHANGED scene
  PROVE  SessionInv'
<1>1. j.client \in Clients
  BY DEF SessionInv, BusyHasJob
<1>2. /\ token' = IF j.heard /\ answer = "token" THEN [token EXCEPT ![j.client] = j.drawn] ELSE token
      /\ pc' = [pc EXCEPT ![t] = "idle"]
      /\ job' = [s \in Threads |->
                   IF s = t THEN NoJob ELSE [job[s] EXCEPT !.heard = StillHeard(s, j)]]
  BY DEF Reply, Receive
<1>3. job'[t] = NoJob
  BY <1>2
<1>4. \A s \in Threads \ {t} :
         /\ job'[s] \in Job /\ job'[s].client = job[s].client
         /\ job'[s].sent = job[s].sent /\ job'[s].drawn = job[s].drawn
  <2> SUFFICES ASSUME NEW s \in Threads \ {t}
               PROVE  /\ job'[s] \in Job /\ job'[s].client = job[s].client
                      /\ job'[s].sent = job[s].sent /\ job'[s].drawn = job[s].drawn
    OBVIOUS
  <2>1. StillHeard(s, j) \in BOOLEAN /\ job[s] \in Job
    <3>1. job[s] \in Job
      BY DEF SessionInv, SessionShape
    <3>2. StillHeard(s, j) \in BOOLEAN
      BY <3>1 DEF StillHeard, Job
    <3>3. QED
      BY <3>1, <3>2
  <2>2. job'[s] = [job[s] EXCEPT !.heard = StillHeard(s, j)]
    BY <1>2
  <2>3. QED
    BY <2>1, <2>2, UnheardJob
<1>5. job' \in [Threads -> Job]
  BY <1>2, <1>3, <1>4, NoJobIsJob
<1>6. token' \in [Clients -> 0..MaxTokens]
  BY <1>1, <1>2, JobFields DEF SessionInv, SessionShape
<1>7. SessionShape'
  BY <1>2, <1>5, <1>6 DEF SessionInv, SessionShape, StoreKept, Phases
<1>8. BusyHasJob'
  <2>1. pc'[t] = "idle" /\ \A s \in Threads \ {t} : pc'[s] = pc[s]
    BY <1>2 DEF SessionInv, SessionShape
  <2>2. ASSUME NEW s \in Threads \ {t}, pc[s] = "idle" PROVE job'[s] = NoJob
    <3>1. job[s] = NoJob
      BY <2>2 DEF SessionInv, BusyHasJob
    <3>2. NoJob.heard = FALSE
      BY DEF NoJob
    <3>3. StillHeard(s, j) = FALSE
      BY <3>1, <3>2 DEF StillHeard
    <3>4. job'[s] = [NoJob EXCEPT !.heard = FALSE]
      BY <1>2, <3>1, <3>3
    <3>5. QED
      BY <3>4 DEF NoJob
  <2>3. QED
    BY <1>3, <1>4, <2>1, <2>2 DEF SessionInv, BusyHasJob
<1>9. TokensOwned'
  <2>1. ASSUME NEW c \in Clients PROVE OwnedBy(token[c], c)'
    <3>1. CASE token'[c] = token[c]
      BY <3>1 DEF SessionInv, SessionShape, TokensOwned, OwnedBy, StoreKept, Used, Tokens
    <3>2. CASE token'[c] # token[c]
      BY <1>2, <3>2 DEF SessionInv, SessionShape, OwnedBy
    <3>3. QED
      BY <3>1, <3>2
  <2>2. ASSUME NEW s \in Threads
        PROVE  OwnedBy(job[s].sent, job[s].client)' /\ OwnedBy(job[s].drawn, job[s].client)'
    <3>1. CASE s = t
      BY <1>3, <3>1, NoJobIsJob DEF OwnedBy
    <3>2. CASE s # t
      <4>1. job[s].sent \in 0..MaxTokens /\ job[s].drawn \in 0..MaxTokens
        BY JobFields DEF SessionInv, SessionShape
      <4>2. QED
        BY <1>4, <3>2, <4>1 DEF SessionInv, TokensOwned, OwnedBy, StoreKept, Used, Tokens
    <3>3. QED
      BY <3>1, <3>2
  <2>3. QED
    BY <2>1, <2>2 DEF TokensOwned
<1>10. LastingExists'
  BY DEF StoreKept, LastingExists
<1>11. HeldSessionsEnd'
  BY <1>1, <1>2 DEF SessionInv, SessionShape, StoreKept, HeldSessionsEnd
<1>12. RunsAsItsSession'
  BY <1>4 DEF SessionInv, RunsAsItsSession
<1>13. QED
  BY <1>7, <1>8, <1>9, <1>10, <1>11, <1>12 DEF SessionInv

\* Answer is Reply with the thread-local removed.
LEMMA RequestAnswered ==
  ASSUME SessionInv, StoreKept, NEW t \in Threads, pc[t] # "idle",
         NEW j \in Job, j.client = job[t].client, NEW answer, Answer(t, j, answer),
         answer = "token" => /\ j.drawn \in Tokens /\ j.drawn \notin lasting'
                             /\ session'[j.drawn] \in {Nobody, j.client},
         UNCHANGED scene
  PROVE  SessionInv'
<1>1. Reply(t, j, answer) /\ local' = [local EXCEPT ![t] = Nobody] /\ tainted' = tainted \ {t}
  BY DEF Answer
<1>2. /\ local' \in [Threads -> Clients \cup {Nobody}] /\ tainted' \in SUBSET Threads
      /\ local'[t] = Nobody /\ \A s \in Threads \ {t} : local'[s] = local[s]
      /\ \A s \in Threads \ {t} : s \in tainted' <=> s \in tainted
  BY <1>1 DEF SessionInv, SessionShape
<1>3. QED
  BY <1>1, <1>2, RequestEnds

LEMMA Guarded ==
  ASSUME SessionInv, StoreKept, NEW t \in Threads, pc[t] # "idle",
         Guard(t, local[t]), UNCHANGED scene
  PROVE  SessionInv'
<1>1. job[t] \in Job
  BY DEF SessionInv, SessionShape
<1>2. CASE Answer(t, job[t], "unauthorized")
  BY <1>1, <1>2, RequestAnswered
<1>3. CASE /\ pc' = [pc EXCEPT ![t] = "run"]
           /\ local' = [local EXCEPT ![t] = local[t]]
           /\ UNCHANGED <<job, tainted, clientVars>>
  <2>1. "run" \in Phases \ {"idle", "expire"} /\ UNCHANGED token
    BY <1>3 DEF Phases, clientVars
  <2>2. QED
    BY <1>3, <2>1, ThreadProceeds
<1>4. QED
  BY <1>2, <1>3 DEF Guard

\* Ways to keep the store: leave it, give a hash a lifetime, end a session.
LEMMA StoreUntouched ==
  ASSUME SessionInv, UNCHANGED <<session, lasting>> PROVE StoreKept
  BY DEF SessionInv, SessionShape, StoreKept, LastingExists, HeldSessionsEnd

LEMMA LifetimeGiven ==
  ASSUME SessionInv, NEW k, GiveLifetime(k) PROVE StoreKept
  BY DEF GiveLifetime, SessionInv, SessionShape, StoreKept, LastingExists, HeldSessionsEnd

LEMMA SessionEnded ==
  ASSUME SessionInv, NEW k \in Tokens, Ends(k) PROVE StoreKept
  BY DEF Ends, SessionInv, SessionShape, StoreKept, LastingExists, HeldSessionsEnd

\* A fresh token is not in use, so its new hash takes nobody's session.
LEMMA FreshUnused ==
  ASSUME SessionInv, NEW k \in Tokens, IsFresh(k)
  PROVE  ~Used(k) /\ session[k] = Nobody /\ k \notin lasting
  BY DEF IsFresh, Unused, Used, SessionInv, LastingExists

LEMMA SessionPut ==
  ASSUME SessionInv, NEW t \in Threads, job[t].client \in Clients,
         NEW k \in Tokens, IsFresh(k), PutEffect(t, k)
  PROVE  StoreKept /\ session'[k] = job[t].client
<1>1. ~Used(k)
  BY FreshUnused
<1>2. /\ session' = [session EXCEPT ![k] = job[t].client] /\ lasting' = lasting \cup {k}
      /\ job[t].client # Nobody
  BY SessionConstants DEF PutEffect
<1>3. \A c \in Clients : token[c] \notin lasting'
  BY <1>1, <1>2 DEF Used, SessionInv, HeldSessionsEnd
<1>4. QED
  BY <1>1, <1>2, <1>3 DEF SessionInv, SessionShape, StoreKept, LastingExists

LEMMA RequestSent ==
  ASSUME SessionInv, NEW c \in Clients, Send(c), UNCHANGED scene
  PROVE  SessionInv'
<1>1. PICK t \in scene.threads :
        /\ pc[t] = "idle" /\ pc' = [pc EXCEPT ![t] = "lookup"]
        /\ job' = [job EXCEPT ![t] = [client |-> c, op |-> IF page[c] = "login" THEN "login" ELSE "me",
                                      sent |-> token[c], drawn |-> 0, heard |-> TRUE]]
        /\ UNCHANGED <<storeVars, local, tainted, clientVars>>
  BY DEF Send
<1>2. t \in Threads
  BY SessionConstants DEF SessionInv, SessionShape
<1>3. PICK op \in {"login", "me"} :
        job' = [job EXCEPT ![t] = [client |-> c, op |-> op, sent |-> token[c],
                                   drawn |-> 0, heard |-> TRUE]]
  BY <1>1
<1> DEFINE j == [client |-> c, op |-> op, sent |-> token[c], drawn |-> 0, heard |-> TRUE]
<1>4. /\ j \in Job /\ j.client = c /\ j.sent = token[c] /\ j.drawn = 0
  BY SessionConstants DEF SessionInv, SessionShape, Job
<1>5. job' = [job EXCEPT ![t] = j]
  BY <1>3
<1> HIDE DEF j
<1>6. UNCHANGED <<session, lasting, token, local, tainted>>
  BY <1>1 DEF storeVars, clientVars
<1>7. job[t] = NoJob /\ job'[t] = j /\ \A s \in Threads \ {t} : job'[s] = job[s]
  BY <1>1, <1>2, <1>5 DEF SessionInv, SessionShape, BusyHasJob
<1>8. SessionShape'
  <2>1. pc' \in [Threads -> Phases]
    BY <1>1, <1>2 DEF SessionInv, SessionShape, Phases
  <2>2. job' \in [Threads -> Job]
    BY <1>2, <1>4, <1>5 DEF SessionInv, SessionShape
  <2>3. QED
    BY <1>6, <2>1, <2>2 DEF SessionInv, SessionShape
<1>9. BusyHasJob'
  BY <1>1, <1>2, <1>4, <1>7 DEF SessionInv, SessionShape, BusyHasJob
<1>10. TokensOwned'
  BY <1>2, <1>4, <1>6, <1>7 DEF SessionInv, TokensOwned, OwnedBy
<1>11. LastingExists' /\ HeldSessionsEnd'
  BY <1>6 DEF SessionInv, LastingExists, HeldSessionsEnd
<1>12. RunsAsItsSession'
  BY <1>2, <1>4, <1>6, <1>7, NoJobIsJob DEF SessionInv, RunsAsItsSession
<1>13. QED
  BY <1>8, <1>9, <1>10, <1>11, <1>12 DEF SessionInv

LEMMA LookedUp ==
  ASSUME SessionInv, NEW t \in Threads, Lookup(t), UNCHANGED scene
  PROVE  SessionInv'
<1>1. pc[t] = "lookup" /\ StoreKept
  BY StoreUntouched DEF Lookup, storeVars
<1>2. CASE Found(t)
  <2>1. /\ pc' = [pc EXCEPT ![t] = "refresh"]
        /\ local' = [local EXCEPT ![t] = session[job[t].sent]]
        /\ UNCHANGED <<job, tainted, token>>
    BY <1>2 DEF Lookup, clientVars
  <2>2. session[job[t].sent] = job[t].client
    BY <1>2 DEF Found, SessionInv, TokensOwned, OwnedBy
  <2>3. "refresh" \in Phases \ {"idle", "expire"}
    BY DEF Phases
  <2>4. QED
    BY <1>1, <2>1, <2>2, <2>3, ThreadProceeds
<1>3. CASE ~Found(t)
  BY <1>1, <1>3, Guarded DEF Lookup
<1>4. QED
  BY <1>2, <1>3

LEMMA Refreshed ==
  ASSUME SessionInv, NEW t \in Threads, Refresh(t), UNCHANGED scene
  PROVE  SessionInv'
  BY LifetimeGiven, Guarded DEF Refresh

LEMMA PreHandleFailed ==
  ASSUME SessionInv, NEW t \in Threads, PreHandleFails(t), UNCHANGED scene
  PROVE  SessionInv'
<1>1. /\ pc[t] # "idle" /\ Reply(t, job[t], "error") /\ UNCHANGED local
      /\ tainted' = IF local[t] = Nobody THEN tainted ELSE tainted \cup {t}
  BY DEF PreHandleFails
<1>2. StoreKept
  BY StoreUntouched, LifetimeGiven DEF PreHandleFails, storeVars
<1>3. job[t] \in Job
  BY DEF SessionInv, SessionShape
<1>4. /\ local' \in [Threads -> Clients \cup {Nobody}] /\ tainted' \in SUBSET Threads
      /\ \A s \in Threads \ {t} : s \in tainted' <=> s \in tainted
      /\ t \notin tainted' => local'[t] = Nobody
  BY <1>1 DEF SessionInv, SessionShape
<1>5. QED
  BY <1>1, <1>2, <1>3, <1>4, RequestEnds

LEMMA Served ==
  ASSUME SessionInv, NEW t \in Threads, Me(t) \/ CheckCode(t) \/ QueryUser(t), UNCHANGED scene
  PROVE  SessionInv'
<1>1. pc[t] # "idle" /\ StoreKept /\ job[t] \in Job
  <2>1. pc[t] # "idle" /\ UNCHANGED <<session, lasting>>
    BY DEF Me, CheckCode, QueryUser, storeVars
  <2>2. QED
    BY <2>1, StoreUntouched DEF SessionInv, SessionShape
<1>2. ASSUME NEW answer \in {"user", "incorrect"}, Answer(t, job[t], answer) PROVE SessionInv'
  BY <1>1, <1>2, RequestAnswered
<1>3. ASSUME NEW phase \in {"query", "put", "insert"}, pc' = [pc EXCEPT ![t] = phase],
             UNCHANGED <<job, local, tainted, clientVars>>
      PROVE  SessionInv'
  <2>1. /\ phase \in Phases \ {"idle", "expire"} /\ UNCHANGED token
        /\ local' = [local EXCEPT ![t] = local[t]]
    BY <1>3 DEF Phases, clientVars, SessionInv, SessionShape
  <2>2. QED
    BY <1>1, <1>3, <2>1, ThreadProceeds
<1>4. CASE Me(t)
  BY <1>2, <1>4 DEF Me
<1>5. CASE CheckCode(t)
  BY <1>2, <1>3, <1>5 DEF CheckCode
<1>6. CASE QueryUser(t)
  BY <1>3, <1>6 DEF QueryUser
<1>7. QED
  BY <1>4, <1>5, <1>6

LEMMA UserCreated ==
  ASSUME SessionInv, NEW t \in Threads, CreateUser(t), UNCHANGED scene
  PROVE  SessionInv'
<1>1. pc[t] # "idle" /\ job[t] \in Job /\ StoreKept
  <2>1. pc[t] # "idle" /\ UNCHANGED <<session, lasting>>
    BY DEF CreateUser, InsertEffect, storeVars
  <2>2. QED
    BY <2>1, StoreUntouched DEF SessionInv, SessionShape
<1>2. CASE Answer(t, job[t], "error")
  BY <1>1, <1>2, RequestAnswered
<1>3. ASSUME NEW k \in Tokens, IsFresh(k), Answer(t, [job[t] EXCEPT !.drawn = k], "token"),
             UNCHANGED <<session, lasting>>
      PROVE  SessionInv'
  <2> DEFINE j == [job[t] EXCEPT !.drawn = k]
  <2>1. j \in Job /\ j.client = job[t].client /\ j.drawn = k
    BY <1>1, DrawnJob
  <2>2. session'[k] = Nobody /\ k \notin lasting'
    BY <1>3, FreshUnused
  <2> HIDE DEF j
  <2>3. QED
    BY <1>1, <1>3, <2>1, <2>2, RequestAnswered DEF j
<1>4. QED
  BY <1>2, <1>3 DEF CreateUser, InsertEffect

LEMMA TokenDrawn ==
  ASSUME SessionInv, NEW t \in Threads, PutSession(t), UNCHANGED scene
  PROVE  SessionInv'
<1>1. PICK k \in Tokens :
        /\ pc[t] = "put" /\ IsFresh(k) /\ PutEffect(t, k)
        /\ job' = [job EXCEPT ![t].drawn = k]
        /\ pc' = [pc EXCEPT ![t] = "expire"]
        /\ UNCHANGED <<local, tainted, clientVars>>
  BY DEF PutSession
<1>2. job[t].client \in Clients /\ job[t] \in Job
  BY <1>1 DEF SessionInv, SessionShape, BusyHasJob
<1>3. StoreKept /\ session'[k] = job[t].client
  BY <1>1, <1>2, SessionPut
<1> DEFINE j == [job[t] EXCEPT !.drawn = k]
<1>4. j \in Job /\ j.client = job[t].client /\ j.sent = job[t].sent /\ j.drawn = k
  BY <1>2, DrawnJob
<1>5. job' = [job EXCEPT ![t] = j]
  BY <1>1
<1> HIDE DEF j
<1>6. job'[t] = j /\ \A s \in Threads \ {t} : job'[s] = job[s]
  BY <1>5 DEF SessionInv, SessionShape
<1>7. UNCHANGED <<token, local, tainted>>
  BY <1>1 DEF clientVars
<1>8. SessionShape'
  <2>1. pc' \in [Threads -> Phases]
    BY <1>1 DEF SessionInv, SessionShape, Phases
  <2>2. job' \in [Threads -> Job]
    BY <1>4, <1>5 DEF SessionInv, SessionShape
  <2>3. QED
    BY <1>3, <1>7, <2>1, <2>2 DEF SessionInv, SessionShape, StoreKept
<1>9. BusyHasJob'
  BY <1>1, <1>2, <1>4, <1>6 DEF SessionInv, SessionShape, BusyHasJob
<1>10. TokensOwned'
  <2>1. \A c \in Clients : OwnedBy(token[c], c)'
    BY <1>3, <1>7 DEF SessionInv, SessionShape, TokensOwned, OwnedBy, StoreKept, Used, Tokens
  <2>2. ASSUME NEW s \in Threads
        PROVE  OwnedBy(job[s].sent, job[s].client)' /\ OwnedBy(job[s].drawn, job[s].client)'
    <3>1. job[s].sent \in 0..MaxTokens /\ job[s].drawn \in 0..MaxTokens
      BY JobFields DEF SessionInv, SessionShape
    <3>2. \A l \in {job[s].sent, job[s].drawn} : OwnedBy(l, job[s].client)'
      BY <3>1, <1>4, <1>6, <1>3 DEF SessionInv, TokensOwned, OwnedBy, StoreKept, Used, Tokens
    <3>3. QED
      BY <3>2, <1>3, <1>4, <1>6 DEF OwnedBy
  <2>3. QED
    BY <2>1, <2>2 DEF TokensOwned
<1>11. LastingExists' /\ HeldSessionsEnd'
  BY <1>3, <1>7 DEF StoreKept, LastingExists, HeldSessionsEnd
<1>12. RunsAsItsSession'
  BY <1>4, <1>6, <1>7 DEF SessionInv, RunsAsItsSession
<1>13. QED
  BY <1>8, <1>9, <1>10, <1>11, <1>12 DEF SessionInv

LEMMA SessionExpires ==
  ASSUME SessionInv, NEW t \in Threads, ExpireSession(t), UNCHANGED scene
  PROVE  SessionInv'
<1>1. pc[t] = "expire" /\ GiveLifetime(job[t].drawn) /\ Answer(t, job[t], "token")
  BY DEF ExpireSession
<1>2. job[t] \in Job /\ job[t].drawn \in Tokens /\ StoreKept
  BY <1>1, LifetimeGiven DEF SessionInv, SessionShape, BusyHasJob
<1>3. job[t].drawn \notin lasting' /\ session'[job[t].drawn] \in {Nobody, job[t].client}
  BY <1>1, <1>2, SessionConstants DEF GiveLifetime, SessionInv, TokensOwned, OwnedBy, Tokens
<1>4. QED
  BY <1>1, <1>2, <1>3, RequestAnswered

LEMMA CallFailed ==
  ASSUME SessionInv, NEW t \in Threads, CallFails(t), UNCHANGED scene
  PROVE  SessionInv'
<1>1. pc[t] # "idle" /\ Answer(t, job[t], "error")
  BY DEF CallFails
<1>2. job[t].client \in Clients /\ job[t] \in Job
  BY <1>1 DEF SessionInv, SessionShape, BusyHasJob
<1>3. StoreKept
  <2>1. CASE UNCHANGED storeVars \/ InsertEffect(t)
    BY <2>1, StoreUntouched DEF storeVars, InsertEffect
  <2>2. CASE \E k \in Tokens : IsFresh(k) /\ PutEffect(t, k)
    BY <1>2, <2>2, SessionPut
  <2>3. CASE GiveLifetime(job[t].drawn)
    BY <2>3, LifetimeGiven
  <2>4. QED
    BY <2>1, <2>2, <2>3 DEF CallFails
<1>4. QED
  BY <1>1, <1>2, <1>3, RequestAnswered

LEMMA GaveUp ==
  ASSUME SessionInv, NEW t \in Threads, PageTimesOut(t), UNCHANGED scene
  PROVE  SessionInv'
<1>1. /\ UNCHANGED <<session, lasting, pc, local, tainted, token>>
      /\ job' = [s \in Threads |-> [job[s] EXCEPT !.heard = s # t /\ StillHeard(s, job[t])]]
  BY DEF PageTimesOut, Receive, storeVars
<1>2. ASSUME NEW s \in Threads
      PROVE  /\ job'[s] \in Job /\ job'[s].client = job[s].client
             /\ job'[s].sent = job[s].sent /\ job'[s].drawn = job[s].drawn
             /\ job[s] = NoJob => job'[s] = NoJob
  <2> DEFINE h == s # t /\ StillHeard(s, job[t])
  <2>1. job[s] \in Job /\ job'[s] = [job[s] EXCEPT !.heard = h]
    BY <1>1 DEF SessionInv, SessionShape
  <2>2. h \in BOOLEAN
    BY <2>1 DEF StillHeard, Job
  <2>3. ASSUME job[s] = NoJob PROVE ~h
    BY <2>3 DEF StillHeard, NoJob
  <2> HIDE DEF h
  <2>4. ASSUME job[s] = NoJob PROVE job'[s] = NoJob
    <3>1. h = FALSE
      BY <2>2, <2>3, <2>4
    <3>2. job'[s] = [NoJob EXCEPT !.heard = FALSE]
      BY <2>1, <2>4, <3>1
    <3>3. QED
      BY <3>2 DEF NoJob
  <2>5. QED
    BY <2>1, <2>2, <2>4, UnheardJob
<1>3. SessionShape'
  BY <1>1, <1>2 DEF SessionInv, SessionShape
<1>4. BusyHasJob' /\ TokensOwned' /\ RunsAsItsSession'
  BY <1>1, <1>2 DEF SessionInv, BusyHasJob, TokensOwned, OwnedBy, RunsAsItsSession
<1>5. LastingExists' /\ HeldSessionsEnd'
  BY <1>1 DEF SessionInv, LastingExists, HeldSessionsEnd
<1>6. QED
  BY <1>3, <1>4, <1>5 DEF SessionInv

\* A step that changes neither the threads nor the tokens of the clients.
LEMMA StoreStep ==
  ASSUME SessionInv, StoreKept, UNCHANGED <<threadVars, token, scene>>
  PROVE  SessionInv'
<1>1. UNCHANGED <<pc, job, local, tainted, token, scene>>
  BY DEF threadVars
<1>2. SessionShape' /\ BusyHasJob' /\ RunsAsItsSession'
  BY <1>1 DEF SessionInv, SessionShape, StoreKept, BusyHasJob, RunsAsItsSession
<1>3. QED
  BY <1>1, <1>2, OwnersKept DEF SessionInv

LEMMA BrowserOrTime ==
  ASSUME SessionInv, UNCHANGED scene,
         \/ \E c \in Clients : SendCode(c) \/ Reload(c) \/ CodeLapses(c)
         \/ \E k \in Tokens : SessionLapses(k) \/ AbandonedSessionEnds(k)
  PROVE  SessionInv'
<1>1. ASSUME NEW c \in Clients, SendCode(c) \/ Reload(c) \/ CodeLapses(c) PROVE SessionInv'
  <2>1. UNCHANGED <<session, lasting>> /\ UNCHANGED <<threadVars, token, scene>>
    BY <1>1 DEF SendCode, Reload, CodeLapses, storeVars, clientVars
  <2>2. QED
    BY <2>1, StoreUntouched, StoreStep
<1>2. ASSUME NEW k \in Tokens, SessionLapses(k) \/ AbandonedSessionEnds(k) PROVE SessionInv'
  <2>1. Ends(k) /\ UNCHANGED <<threadVars, token, scene>>
    BY <1>2 DEF SessionLapses, AbandonedSessionEnds, Ends, clientVars
  <2>2. QED
    BY <2>1, SessionEnded, StoreStep
<1>3. QED
  BY <1>1, <1>2

LEMMA SessionStepInv == SessionInv /\ [SessionNext]_sessionVars => SessionInv'
<1> SUFFICES ASSUME SessionInv, [SessionNext]_sessionVars PROVE SessionInv'
  OBVIOUS
<1>1. scene.clients \subseteq Clients /\ scene.threads \subseteq Threads
  BY SessionConstants DEF SessionInv, SessionShape
<1>2. ASSUME NEW c \in scene.clients, SendCode(c) \/ Send(c) \/ Reload(c) \/ CodeLapses(c),
             UNCHANGED scene
      PROVE  SessionInv'
  BY <1>1, <1>2, RequestSent, BrowserOrTime
<1>3. ASSUME NEW t \in scene.threads, UNCHANGED scene,
             Serve(t) \/ PreHandleFails(t) \/ CallFails(t) \/ PageTimesOut(t)
      PROVE  SessionInv'
  BY <1>1, <1>3, LookedUp, Refreshed, Served, UserCreated, TokenDrawn, SessionExpires,
     PreHandleFailed, CallFailed, GaveUp DEF Serve
<1>4. ASSUME NEW k \in Tokens, SessionLapses(k) \/ AbandonedSessionEnds(k), UNCHANGED scene
      PROVE  SessionInv'
  BY <1>4, BrowserOrTime
<1>5. CASE UNCHANGED sessionVars
  <2>1. UNCHANGED <<session, lasting>> /\ UNCHANGED <<threadVars, token, scene>>
    BY <1>5 DEF sessionVars, storeVars, clientVars
  <2>2. QED
    BY <2>1, StoreUntouched, StoreStep
<1>6. QED
  BY <1>2, <1>3, <1>4, <1>5 DEF SessionNext

LEMMA SessionInvariant == SessionSpec => []SessionInv
  BY SessionInitInv, SessionStepInv, PTL DEF SessionSpec

\* UserHolder and RefreshTokenInterceptor: whatever requests a thread serves in turn,
\* none runs as the user of another one, unless one failed inside preHandle.
THEOREM NoForeignUser == SessionSpec => []RunsAsItsSession
<1>1. SessionInv => RunsAsItsSession
  BY DEF SessionInv
<1>2. QED
  BY <1>1, SessionInvariant, PTL

\* UserServiceImpl.login: no client is answered a token whose hash has no lifetime.
THEOREM SessionsEnd == SessionSpec => []HeldSessionsEnd
<1>1. SessionInv => HeldSessionsEnd
  BY DEF SessionInv
<1>2. QED
  BY <1>1, SessionInvariant, PTL

-----------------------------------------------------------------------------
(* Why nobody is sent away without a reason: an answer is only heard on    *)
(* the page that asked, and what a page for users sends is its own token.  *)

\* A page that hears the answer to a request is still the one that sent it.
HeardOnPage ==
    \A t \in Threads :
        job[t].heard => IF job[t].op = "login" THEN page[job[t].client] = "login"
                        ELSE /\ page[job[t].client] = "main"
                             /\ job[t].sent = token[job[t].client]

\* Only logins get to the steps of a login, and only a request with a user to EXPIRE.
PhaseFits ==
    \A t \in Threads :
        /\ pc[t] \in {"query", "insert", "put", "expire"} => job[t].op = "login"
        /\ pc[t] = "refresh" => local[t] # Nobody

PageInv ==
    /\ page \in [Clients -> {"login", "main", "shown"}]
    /\ \A c \in Clients : page[c] # "login" => token[c] # 0
    /\ HeardOnPage
    /\ PhaseFits

KeptIn ==
    \A c \in Clients :
        page[c] = "main" /\ page'[c] = "login" => session[token[c]] = Nobody \/ faults' > faults

\* What a page does with an answer, or with none: every request whose page it leaves
\* is not heard any more.
LEMMA PageReceives ==
  ASSUME SessionInv, PageInv, NEW t \in Threads,
         NEW j \in Job, j.client \in Clients,
         j.op = job[t].op, j.client = job[t].client, j.heard = job[t].heard,
         NEW answer, Receive(j, answer),
         answer = "token" => j.op = "login" /\ j.drawn # 0,
         answer = "user" => j.op # "login",
         j.heard /\ answer \notin {"token", "user"} /\ j.op = "me" =>
             session[token[j.client]] = Nobody \/ faults' > faults,
         \A s \in Threads : job'[s].heard =>
             /\ s # t /\ StillHeard(s, j) /\ job'[s].client = job[s].client
             /\ job'[s].op = job[s].op /\ job'[s].sent = job[s].sent,
         PhaseFits'
  PROVE  PageInv' /\ KeptIn
<1> DEFINE c == j.client
<1>1. /\ page' = IF ~j.heard THEN page
                 ELSE IF answer = "token" THEN [page EXCEPT ![c] = "main"]
                 ELSE IF answer = "user" THEN [page EXCEPT ![c] = "shown"]
                 ELSE IF j.op = "me" THEN [page EXCEPT ![c] = "login"] ELSE page
      /\ token' = IF j.heard /\ answer = "token" THEN [token EXCEPT ![c] = j.drawn] ELSE token
  BY DEF Receive
<1>2. j.heard => IF j.op = "login" THEN page[c] = "login" ELSE page[c] = "main"
  BY DEF PageInv, HeardOnPage
<1>3. page' \in [Clients -> {"login", "main", "shown"}]
  BY <1>1 DEF PageInv
<1>4. \A d \in Clients : page'[d] # "login" => token'[d] # 0
  BY <1>1, <1>2 DEF PageInv, SessionInv, SessionShape
<1>5. HeardOnPage'
  <2> SUFFICES ASSUME NEW s \in Threads, job'[s].heard
               PROVE  IF job'[s].op = "login" THEN page'[job'[s].client] = "login"
                      ELSE /\ page'[job'[s].client] = "main"
                           /\ job'[s].sent = token'[job'[s].client]
    BY DEF HeardOnPage
  <2>1. /\ job[s].heard /\ (job[s].client = c => page'[c] = page[c])
        /\ job'[s].client = job[s].client /\ job'[s].op = job[s].op /\ job'[s].sent = job[s].sent
    BY DEF StillHeard
  <2>2. job[s].client \in Clients
    BY <2>1 DEF SessionInv, BusyHasJob, NoJob
  <2>3. page'[job[s].client] = page[job[s].client]
    BY <1>1, <2>1, <2>2 DEF PageInv
  <2>4. token'[job[s].client] = token[job[s].client]
    <3>1. CASE job[s].client # c
      BY <1>1, <2>2, <3>1 DEF SessionInv, SessionShape
    <3>2. CASE job[s].client = c /\ j.heard /\ answer = "token"
      BY <1>1, <1>2, <2>1, <3>2 DEF PageInv
    <3>3. QED
      BY <1>1, <3>1, <3>2
  <2>5. QED
    BY <2>1, <2>3, <2>4 DEF PageInv, HeardOnPage
<1>6. KeptIn
  BY <1>1, <1>2 DEF KeptIn, PageInv
<1>7. QED
  BY <1>3, <1>4, <1>5, <1>6 DEF PageInv

LEMMA PageAnswered ==
  ASSUME SessionInv, PageInv, NEW t \in Threads, pc[t] # "idle",
         NEW j \in Job, j.client = job[t].client, j.op = job[t].op, j.heard = job[t].heard,
         NEW answer, Reply(t, j, answer),
         answer = "token" => j.op = "login" /\ j.drawn # 0,
         answer = "user" => j.op # "login",
         j.heard /\ answer \notin {"token", "user"} /\ j.op = "me" =>
             session[token[j.client]] = Nobody \/ faults' > faults,
         \A s \in Threads \ {t} : local'[s] = local[s]
  PROVE  PageInv' /\ KeptIn
<1>1. /\ Receive(j, answer) /\ pc' = [pc EXCEPT ![t] = "idle"]
      /\ job' = [s \in Threads |->
                   IF s = t THEN NoJob ELSE [job[s] EXCEPT !.heard = StillHeard(s, j)]]
  BY DEF Reply
<1>2. job'[t].heard = FALSE
  BY <1>1 DEF NoJob
<1>3. ASSUME NEW s \in Threads \ {t}
      PROVE  /\ job'[s].heard = StillHeard(s, j) /\ job'[s].client = job[s].client
             /\ job'[s].op = job[s].op /\ job'[s].sent = job[s].sent
  <2>1. job[s] \in Job
    BY DEF SessionInv, SessionShape
  <2>2. StillHeard(s, j) \in BOOLEAN
    BY <2>1 DEF StillHeard, Job
  <2>3. job'[s] = [job[s] EXCEPT !.heard = StillHeard(s, j)]
    BY <1>1
  <2>4. QED
    BY <2>1, <2>2, <2>3, UnheardJob
<1>4. PhaseFits'
  BY <1>1, <1>3 DEF PageInv, PhaseFits, SessionInv, SessionShape
<1>5. j.client \in Clients
  BY DEF SessionInv, BusyHasJob
<1>6. QED
  BY <1>1, <1>2, <1>3, <1>4, <1>5, PageReceives

\* The same for the answers that remove the user from the thread-local.
LEMMA PageCleared ==
  ASSUME SessionInv, PageInv, NEW t \in Threads, pc[t] # "idle",
         NEW j \in Job, j.client = job[t].client, j.op = job[t].op, j.heard = job[t].heard,
         NEW answer, Answer(t, j, answer),
         answer = "token" => j.op = "login" /\ j.drawn # 0,
         answer = "user" => j.op # "login",
         j.heard /\ answer \notin {"token", "user"} /\ j.op = "me" =>
             session[token[j.client]] = Nobody \/ faults' > faults
  PROVE  PageInv' /\ KeptIn
<1>1. Reply(t, j, answer) /\ \A s \in Threads \ {t} : local'[s] = local[s]
  BY DEF Answer, SessionInv, SessionShape
<1>2. QED
  BY <1>1, PageAnswered

LEMMA PageUntouched ==
  ASSUME SessionInv, PageInv, NEW t \in Threads,
         NEW phase, pc' = [pc EXCEPT ![t] = phase],
         phase \in {"query", "insert", "put", "expire"} => job[t].op = "login",
         phase = "refresh" => local'[t] # Nobody,
         \A s \in Threads \ {t} : local'[s] = local[s],
         \A s \in Threads : /\ job'[s].client = job[s].client /\ job'[s].op = job[s].op
                             /\ job'[s].sent = job[s].sent /\ job'[s].heard = job[s].heard,
         UNCHANGED <<page, token>>
  PROVE  PageInv' /\ KeptIn
<1>1. PhaseFits'
  BY DEF PageInv, PhaseFits, SessionInv, SessionShape
<1>2. HeardOnPage'
  BY DEF PageInv, HeardOnPage
<1>3. QED
  BY <1>1, <1>2 DEF PageInv, KeptIn

\* LoginInterceptor refuses a page only if its session was not there.
LEMMA PageGuarded ==
  ASSUME SessionInv, PageInv, NEW t \in Threads, pc[t] # "idle", Guard(t, local[t]),
         local[t] = Nobody => ~Found(t)
  PROVE  PageInv' /\ KeptIn
<1>1. job[t] \in Job
  BY DEF SessionInv, SessionShape
<1>2. CASE job[t].op = "me" /\ local[t] = Nobody
  <2>1. job[t].heard => session[token[job[t].client]] = Nobody
    BY <1>2 DEF Found, SessionInv, BusyHasJob, PageInv, HeardOnPage
  <2>2. Answer(t, job[t], "unauthorized")
    BY <1>2 DEF Guard
  <2>3. QED
    BY <1>1, <2>1, <2>2, PageCleared
<1>3. CASE ~(job[t].op = "me" /\ local[t] = Nobody)
  <2>1. /\ pc' = [pc EXCEPT ![t] = "run"] /\ local' = [local EXCEPT ![t] = local[t]]
        /\ UNCHANGED <<job, page, token>>
    BY <1>3 DEF Guard, clientVars
  <2>2. \A s \in Threads \ {t} : local'[s] = local[s]
    BY <2>1 DEF SessionInv, SessionShape
  <2>3. QED
    BY <2>1, <2>2, PageUntouched
<1>4. QED
  BY <1>2, <1>3

LEMMA PageWhileServed ==
  ASSUME SessionInv, PageInv, NEW t \in Threads, Serve(t)
  PROVE  PageInv' /\ KeptIn
<1>1. /\ job[t] \in Job
      /\ pc[t] # "idle" => job[t].client \in Clients
  BY DEF SessionInv, SessionShape, BusyHasJob
<1>2. CASE Lookup(t)
  <2>1. CASE Found(t)
    <3>1. /\ pc' = [pc EXCEPT ![t] = "refresh"] /\ session[job[t].sent] # Nobody
          /\ local' = [local EXCEPT ![t] = session[job[t].sent]] /\ UNCHANGED <<job, page, token>>
      BY <1>2, <2>1 DEF Lookup, Found, clientVars
    <3>2. local'[t] # Nobody /\ \A s \in Threads \ {t} : local'[s] = local[s]
      BY <3>1 DEF SessionInv, SessionShape
    <3>3. QED
      BY <3>1, <3>2, PageUntouched
  <2>2. CASE ~Found(t)
    BY <1>2, <2>2, PageGuarded DEF Lookup
  <2>3. QED
    BY <2>1, <2>2
<1>3. CASE Refresh(t)
  BY <1>3, PageGuarded DEF Refresh, PageInv, PhaseFits
<1>4. CASE Me(t)
  BY <1>1, <1>4, PageCleared DEF Me
<1>5. CASE CheckCode(t) \/ QueryUser(t)
  <2>1. ASSUME NEW phase \in {"query", "put", "insert"}, pc' = [pc EXCEPT ![t] = phase],
               job[t].op = "login", UNCHANGED <<job, local, tainted, clientVars>>
        PROVE  PageInv' /\ KeptIn
    BY <2>1, PageUntouched DEF clientVars
  <2>2. pc[t] # "idle" /\ job[t].op = "login"
    BY <1>5 DEF CheckCode, QueryUser, PageInv, PhaseFits
  <2>3. ASSUME Answer(t, job[t], "incorrect") PROVE PageInv' /\ KeptIn
    BY <1>1, <2>2, <2>3, PageCleared
  <2>4. CASE CheckCode(t)
    BY <2>1, <2>2, <2>3, <2>4 DEF CheckCode
  <2>5. CASE QueryUser(t)
    BY <2>1, <2>2, <2>5 DEF QueryUser
  <2>6. QED
    BY <1>5, <2>4, <2>5
<1>6. CASE CreateUser(t)
  <2>1. pc[t] # "idle" /\ job[t].op = "login"
    BY <1>6 DEF CreateUser, PageInv, PhaseFits
  <2>2. ASSUME Answer(t, job[t], "error") PROVE PageInv' /\ KeptIn
    BY <1>1, <2>1, <2>2, PageCleared
  <2>3. ASSUME NEW k \in Tokens, Answer(t, [job[t] EXCEPT !.drawn = k], "token")
        PROVE  PageInv' /\ KeptIn
    <3> DEFINE j == [job[t] EXCEPT !.drawn = k]
    <3>1. /\ j \in Job /\ j.client = job[t].client /\ j.drawn # 0
          /\ j.op = job[t].op /\ j.heard = job[t].heard
      BY <1>1, DrawnJob, SessionConstants DEF Tokens
    <3> HIDE DEF j
    <3>2. QED
      BY <2>1, <2>3, <3>1, PageCleared DEF j
  <2>4. QED
    BY <1>6, <2>2, <2>3 DEF CreateUser
<1>7. CASE PutSession(t)
  <2>1. PICK k \in Tokens : job' = [job EXCEPT ![t].drawn = k]
    BY <1>7 DEF PutSession
  <2>2. /\ job[t].op = "login" /\ pc' = [pc EXCEPT ![t] = "expire"]
        /\ UNCHANGED <<local, page, token>>
    BY <1>7 DEF PutSession, clientVars, PageInv, PhaseFits
  <2> DEFINE j == [job[t] EXCEPT !.drawn = k]
  <2>3. /\ j.client = job[t].client /\ j.op = job[t].op /\ j.sent = job[t].sent
        /\ j.heard = job[t].heard
    BY <1>1, DrawnJob
  <2>4. job' = [job EXCEPT ![t] = j]
    BY <2>1
  <2> HIDE DEF j
  <2>5. job'[t] = j /\ \A s \in Threads \ {t} : job'[s] = job[s]
    BY <2>4 DEF SessionInv, SessionShape
  <2>6. QED
    BY <2>2, <2>3, <2>5, PageUntouched
<1>8. CASE ExpireSession(t)
  <2>1. /\ pc[t] # "idle" /\ job[t].op = "login" /\ Answer(t, job[t], "token")
        /\ job[t].drawn # 0
    BY <1>8, SessionConstants DEF ExpireSession, PageInv, PhaseFits, SessionInv, BusyHasJob, Tokens
  <2>2. QED
    BY <1>1, <2>1, PageCleared
<1>9. QED
  BY <1>2, <1>3, <1>4, <1>5, <1>6, <1>7, <1>8 DEF Serve

LEMMA PageWhenFailing ==
  ASSUME SessionInv, PageInv, faults \in Nat, NEW t \in Threads,
         PreHandleFails(t) \/ CallFails(t) \/ PageTimesOut(t)
  PROVE  PageInv' /\ KeptIn
<1>1. job[t] \in Job /\ faults' > faults
  BY DEF SessionInv, SessionShape, PreHandleFails, CallFails, PageTimesOut
<1>2. CASE PreHandleFails(t)
  BY <1>1, <1>2, PageAnswered DEF PreHandleFails
<1>3. CASE CallFails(t)
  BY <1>1, <1>3, PageCleared DEF CallFails
<1>4. CASE PageTimesOut(t)
  <2>1. /\ UNCHANGED <<pc, local>> /\ Receive(job[t], "error") /\ job[t].heard
        /\ job' = [s \in Threads |-> [job[s] EXCEPT !.heard = s # t /\ StillHeard(s, job[t])]]
    BY <1>4 DEF PageTimesOut
  <2>2. ASSUME NEW s \in Threads
        PROVE  /\ job'[s].client = job[s].client /\ job'[s].op = job[s].op
               /\ job'[s].sent = job[s].sent
               /\ job'[s].heard => s # t /\ StillHeard(s, job[t])
    <3> DEFINE h == s # t /\ StillHeard(s, job[t])
    <3>1. job[s] \in Job /\ job'[s] = [job[s] EXCEPT !.heard = h]
      BY <2>1 DEF SessionInv, SessionShape
    <3>2. h \in BOOLEAN
      BY <3>1 DEF StillHeard, Job
    <3>3. h => s # t /\ StillHeard(s, job[t])
      OBVIOUS
    <3> HIDE DEF h
    <3>4. QED
      BY <3>1, <3>2, <3>3, UnheardJob
  <2>3. PhaseFits'
    BY <2>1, <2>2 DEF PageInv, PhaseFits
  <2>4. job[t].client \in Clients
    BY <2>1 DEF SessionInv, BusyHasJob, NoJob
  <2>5. QED
    BY <1>1, <2>1, <2>2, <2>3, <2>4, PageReceives
<1>5. QED
  BY <1>2, <1>3, <1>4

\* A page sends its requests with the token it has, and only when it is on show.
LEMMA PageSends ==
  ASSUME SessionInv, PageInv, NEW c \in Clients, Send(c), UNCHANGED scene
  PROVE  PageInv' /\ KeptIn
<1>1. PICK t \in scene.threads :
        /\ MaySend(c) /\ pc[t] = "idle" /\ pc' = [pc EXCEPT ![t] = "lookup"]
        /\ job' = [job EXCEPT ![t] = [client |-> c, op |-> IF page[c] = "login" THEN "login" ELSE "me",
                                      sent |-> token[c], drawn |-> 0, heard |-> TRUE]]
        /\ UNCHANGED <<storeVars, local, tainted, clientVars>>
  BY DEF Send
<1>2. t \in Threads
  BY SessionConstants DEF SessionInv, SessionShape
<1>3. /\ job'[t].client = c /\ job'[t].sent = token[c]
      /\ job'[t].op = IF page[c] = "login" THEN "login" ELSE "me"
      /\ \A s \in Threads \ {t} : job'[s] = job[s]
  BY <1>1, <1>2 DEF SessionInv, SessionShape
<1>4. page[c] \in {"login", "main"} /\ UNCHANGED <<page, token, local>>
  BY <1>1 DEF MaySend, clientVars
<1>5. HeardOnPage'
  BY <1>3, <1>4 DEF PageInv, HeardOnPage
<1>6. PhaseFits'
  BY <1>1, <1>2, <1>3, <1>4 DEF PageInv, PhaseFits, SessionInv, SessionShape
<1>7. QED
  BY <1>4, <1>5, <1>6 DEF PageInv, KeptIn

LEMMA PageAlone ==
  ASSUME SessionInv, PageInv,
         \/ \E c \in Clients : SendCode(c) \/ Reload(c) \/ CodeLapses(c)
         \/ \E k \in Tokens : SessionLapses(k) \/ AbandonedSessionEnds(k)
         \/ UNCHANGED sessionVars
  PROVE  PageInv' /\ KeptIn
<1>1. UNCHANGED <<pc, job, local, token>>
  BY DEF SendCode, Reload, CodeLapses, SessionLapses, AbandonedSessionEnds, Ends,
         sessionVars, threadVars, clientVars
<1>2. PhaseFits'
  BY <1>1 DEF PageInv, PhaseFits
<1>3. CASE UNCHANGED page
  BY <1>1, <1>2, <1>3 DEF PageInv, HeardOnPage, KeptIn
<1>4. ASSUME NEW c \in Clients, Reload(c) PROVE PageInv' /\ KeptIn
  <2>1. page[c] = "shown" /\ page' = [page EXCEPT ![c] = "main"]
    BY <1>4 DEF Reload
  <2>2. ASSUME NEW s \in Threads, job[s].heard
        PROVE  job[s].client \in Clients \ {c}
    BY <2>1, <2>2 DEF SessionInv, BusyHasJob, NoJob, PageInv, HeardOnPage
  <2>3. HeardOnPage'
    BY <1>1, <2>1, <2>2 DEF PageInv, HeardOnPage
  <2>4. QED
    BY <1>1, <1>2, <2>1, <2>3 DEF PageInv, KeptIn
<1>5. QED
  BY <1>3, <1>4 DEF SendCode, CodeLapses, SessionLapses, AbandonedSessionEnds, Ends,
                    sessionVars, clientVars

LEMMA PageStep ==
  SessionInv /\ PageInv /\ faults \in Nat /\ [SessionNext]_sessionVars => PageInv' /\ KeptIn
<1> SUFFICES ASSUME SessionInv, PageInv, faults \in Nat, [SessionNext]_sessionVars
             PROVE  PageInv' /\ KeptIn
  OBVIOUS
<1>1. scene.clients \subseteq Clients /\ scene.threads \subseteq Threads
  BY SessionConstants DEF SessionInv, SessionShape
<1>2. ASSUME NEW c \in scene.clients, SendCode(c) \/ Send(c) \/ Reload(c) \/ CodeLapses(c),
             UNCHANGED scene
      PROVE  PageInv' /\ KeptIn
  BY <1>1, <1>2, PageSends, PageAlone
<1>3. ASSUME NEW t \in scene.threads,
             Serve(t) \/ PreHandleFails(t) \/ CallFails(t) \/ PageTimesOut(t)
      PROVE  PageInv' /\ KeptIn
  BY <1>1, <1>3, PageWhileServed, PageWhenFailing
<1>4. ASSUME NEW k \in Tokens, SessionLapses(k) \/ AbandonedSessionEnds(k)
      PROVE  PageInv' /\ KeptIn
  BY <1>4, PageAlone
<1>5. CASE UNCHANGED sessionVars
  BY <1>5, PageAlone
<1>6. QED
  BY <1>2, <1>3, <1>4, <1>5 DEF SessionNext

-----------------------------------------------------------------------------
(* The rest of the type invariant.                                         *)

\* What SessionShape and PageInv leave out of SessionType.
RestTyped ==
    /\ code \in SUBSET Clients /\ users \in SUBSET Clients /\ typed \in SUBSET Clients
    /\ faults \in 0..MaxFaults /\ lapses \in 0..MaxLapses

\* What the threads do to the codes, the rows and what is typed in.
ServedRest == code' = code /\ users' \in SUBSET Clients /\ typed' \in SUBSET typed

LEMMA RestServed ==
  ASSUME SessionInv, RestTyped, NEW t \in Threads,
         Serve(t) \/ PreHandleFails(t) \/ CallFails(t) \/ PageTimesOut(t)
  PROVE  ServedRest
<1> USE DEF ServedRest, RestTyped
<1>1. ASSUME NEW j, NEW answer, Receive(j, answer) PROVE typed' \in SUBSET typed
  BY <1>1 DEF Receive
<1>2. ASSUME NEW j, NEW answer, Answer(t, j, answer) PROVE typed' \in SUBSET typed
  BY <1>1, <1>2 DEF Answer, Reply
<1>3. ASSUME NEW user, Guard(t, user) PROVE typed' \in SUBSET typed
  BY <1>2, <1>3 DEF Guard, clientVars
<1>4. ASSUME pc[t] = "insert", InsertEffect(t) PROVE code' = code /\ users' \in SUBSET Clients
  BY <1>4 DEF InsertEffect, SessionInv, BusyHasJob
<1>5. CASE Lookup(t)
  BY <1>3, <1>5 DEF Lookup, storeVars, clientVars
<1>6. CASE Refresh(t)
  BY <1>3, <1>6 DEF Refresh, GiveLifetime
<1>7. CASE Me(t)
  BY <1>2, <1>7 DEF Me, storeVars
<1>8. CASE CheckCode(t)
  BY <1>2, <1>8 DEF CheckCode, storeVars, clientVars
<1>9. CASE QueryUser(t)
  BY <1>9 DEF QueryUser, storeVars, clientVars
<1>10. CASE CreateUser(t)
  BY <1>2, <1>4, <1>10 DEF CreateUser, storeVars
<1>11. CASE PutSession(t)
  BY <1>11 DEF PutSession, PutEffect, clientVars
<1>12. CASE ExpireSession(t)
  BY <1>2, <1>12 DEF ExpireSession, GiveLifetime
<1>13. CASE PreHandleFails(t)
  BY <1>1, <1>13 DEF PreHandleFails, Reply, GiveLifetime, storeVars
<1>14. CASE CallFails(t)
  BY <1>2, <1>4, <1>14 DEF CallFails, PutEffect, GiveLifetime, storeVars
<1>15. CASE PageTimesOut(t)
  BY <1>1, <1>15 DEF PageTimesOut, storeVars
<1>16. QED
  BY <1>5, <1>6, <1>7, <1>8, <1>9, <1>10, <1>11, <1>12, <1>13, <1>14, <1>15 DEF Serve

LEMMA BoundsKept ==
  ASSUME RestTyped, [SessionNext]_sessionVars
  PROVE  faults' \in 0..MaxFaults /\ lapses' \in 0..MaxLapses
<1>1. faults' = faults \/ (faults < MaxFaults /\ faults' = faults + 1)
  BY DEF SessionNext, sessionVars, SendCode, Send, Reload, CodeLapses, Serve, Lookup, Refresh,
         Me, CheckCode, QueryUser, CreateUser, PutSession, ExpireSession, PreHandleFails,
         CallFails, PageTimesOut, SessionLapses, AbandonedSessionEnds, Ends
<1>2. lapses' = lapses \/ (lapses < MaxLapses /\ lapses' = lapses + 1)
  BY DEF SessionNext, sessionVars, SendCode, Send, Reload, CodeLapses, Serve, Lookup, Refresh,
         Me, CheckCode, QueryUser, CreateUser, PutSession, ExpireSession, PreHandleFails,
         CallFails, PageTimesOut, SessionLapses, AbandonedSessionEnds, Ends
<1>3. QED
  BY <1>1, <1>2, SessionConstants DEF RestTyped

LEMMA RestStep == SessionInv /\ RestTyped /\ [SessionNext]_sessionVars => RestTyped'
<1> SUFFICES ASSUME SessionInv, RestTyped, [SessionNext]_sessionVars PROVE RestTyped'
  OBVIOUS
<1>1. scene.clients \subseteq Clients /\ scene.threads \subseteq Threads
  BY SessionConstants DEF SessionInv, SessionShape
<1>2. faults' \in 0..MaxFaults /\ lapses' \in 0..MaxLapses
  BY BoundsKept
<1>3. code' \in SUBSET Clients /\ users' \in SUBSET Clients /\ typed' \in SUBSET Clients
  <2> USE DEF RestTyped
  <2>1. ASSUME NEW c \in scene.clients, SendCode(c) \/ Send(c) \/ Reload(c) \/ CodeLapses(c)
        PROVE  code' \in SUBSET Clients /\ users' \in SUBSET Clients /\ typed' \in SUBSET Clients
    BY <1>1, <2>1 DEF SendCode, Send, Reload, CodeLapses, storeVars, clientVars
  <2>2. ASSUME NEW t \in scene.threads,
               Serve(t) \/ PreHandleFails(t) \/ CallFails(t) \/ PageTimesOut(t)
        PROVE  code' \in SUBSET Clients /\ users' \in SUBSET Clients /\ typed' \in SUBSET Clients
    BY <1>1, <2>2, RestServed DEF ServedRest
  <2>3. ASSUME NEW k \in Tokens, SessionLapses(k) \/ AbandonedSessionEnds(k)
        PROVE  code' \in SUBSET Clients /\ users' \in SUBSET Clients /\ typed' \in SUBSET Clients
    BY <2>3 DEF SessionLapses, AbandonedSessionEnds, Ends, clientVars
  <2>4. CASE UNCHANGED sessionVars
    BY <2>4 DEF sessionVars, storeVars, clientVars
  <2>5. QED
    BY <2>1, <2>2, <2>3, <2>4 DEF SessionNext
<1>4. QED
  BY <1>2, <1>3 DEF RestTyped

\* The inductive invariant of the sessions and the pages.
LoginInv == SessionInv /\ PageInv /\ RestTyped

LEMMA LoginInitInv == SessionInit => LoginInv
<1>1. SessionInit => PageInv
  BY DEF SessionInit, PageInv, HeardOnPage, PhaseFits, NoJob
<1>2. SessionInit => RestTyped
  BY SessionConstants DEF SessionInit, RestTyped
<1>3. QED
  BY <1>1, <1>2, SessionInitInv DEF LoginInv

LEMMA LoginStepInv == LoginInv /\ [SessionNext]_sessionVars => LoginInv' /\ KeptIn
<1> SUFFICES ASSUME LoginInv, [SessionNext]_sessionVars PROVE LoginInv' /\ KeptIn
  OBVIOUS
<1>1. faults \in Nat
  BY SessionConstants DEF LoginInv, RestTyped
<1>2. QED
  BY <1>1, SessionStepInv, PageStep, RestStep DEF LoginInv

LEMMA LoginTyped == LoginInv => SessionType
  BY DEF LoginInv, SessionInv, SessionShape, PageInv, RestTyped, SessionType, Phases

\* RefreshTokenInterceptor, LoginInterceptor and common.js: a page for users is sent
\* back to the login page only by the end of its session, a failure or a timeout.
THEOREM NobodySentAway == SessionSpec => SentAwayWithoutSession
<1>1. LoginInv /\ [SessionNext]_sessionVars =>
         [\A c \in Clients :
             page[c] = "main" /\ page'[c] = "login" =>
                 session[token[c]] = Nobody \/ faults' > faults]_sessionVars
  BY LoginStepInv DEF KeptIn
<1>2. LoginInv /\ [SessionNext]_sessionVars => LoginInv'
  BY LoginStepInv
<1>3. QED
  BY <1>1, <1>2, LoginInitInv, PTL DEF SessionSpec, SentAwayWithoutSession
=============================================================================
