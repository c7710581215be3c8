----------------------------- MODULE Utilities -----------------------------
(***************************************************************************)
(* The parts of the application that share no state with each other and    *)
(* can be checked side by side: sessions, check-ins, the id generator and  *)
(* the mutex lock.  Each behaviour exercises one of them.                  *)
(***************************************************************************)
EXTENDS Session, SignIn, IdWorker, MutexLock

VARIABLE part   \* the part a behaviour is about

vars == <<part, sessionVars, signVars, idVars, mutexVars>>

Init ==
    /\ part \in {"session", "sign", "id", "mutex"}
    /\ SessionInit /\ SignInit /\ IdInit /\ MutexInit

SessionStep == part = "session" /\ SessionNext /\ UNCHANGED <<part, signVars, idVars, mutexVars>>
SignStep == part = "sign" /\ SignNext /\ UNCHANGED <<part, sessionVars, idVars, mutexVars>>
IdStep == part = "id" /\ IdNext /\ UNCHANGED <<part, sessionVars, signVars, mutexVars>>
MutexStep == part = "mutex" /\ MutexNext /\ UNCHANGED <<part, sessionVars, signVars, idVars>>

Next == SessionStep \/ SignStep \/ IdStep \/ MutexStep

Spec == Init /\ [][Next]_vars /\ (part = "session" => SessionFairness)

\* The shape of the state.
TypeOK == SessionType /\ SignType /\ IdType /\ MutexType

\* A user who goes on trying gets to see the own page again and again: the first
\* login, which creates the row and gets no session, double clicks, lost sessions,
\* codes that run out, and finitely many failing calls do not keep it away.
ClientsGetIn == part = "session" => GetsIn
=============================================================================
