-------------------------------- MODULE Login -------------------------------
(* The login actor (login_actor.rs) over the feed runtime: candidate auth is *)
(* put into the live feed, verified by the feed's own login.status operation *)
(* where the feed has one, and then stored, or rolled back; status and       *)
(* logout; and an upgrade, which replaces the instance of the feed. The      *)
(* actor handles one message at a time, through every await of it.           *)
EXTENDS FeedRuntime

CONSTANTS Verifier,   \* the operation the actor verifies with: login.status
          Valid,      \* auth payloads the site accepts
          HasAuthStatus   \* instances whose script has a login.status handler

ASSUME VerifierIsOp == Verifier \in Op /\ Kind[Verifier] = "status" /\ Valid \subseteq Auth
ASSUME SomeHaveStatus == HasAuthStatus \subseteq Inst
\* login.status is run by the actor only.
ASSUME StatusByActor == \A o \in Op : Kind[o] = "status" => o = Verifier
ASSUME NoneIsNoAuth == None \notin Auth

VARIABLES
    stored,     \* the auth table
    onTrust,    \* history: what is stored was accepted without the site being asked about it
    login,      \* the handler: [pc, inst, cand, saved, trust]
    current,    \* the instance the registry answers with
    hydrated    \* instances whose auth the actor has set

loginVars == <<stored, onTrust, login, current, hydrated>>
vars == <<prompts, runtime, loginVars>>

NoLogin == [pc |-> "idle", inst |-> None, cand |-> None, saved |-> None, trust |-> FALSE]
Init == /\ PromptsInit /\ RuntimeInit
        /\ stored \in Valid \cup {None} /\ onTrust = FALSE
        /\ login = NoLogin /\ hydrated = {} /\ current = CHOOSE i \in Inst : TRUE

Doing(l) == login.pc = l
SetAuth(i, a) == auth' = [auth EXCEPT ![i] = a] /\ hydrated' = hydrated \cup {i}
Others == <<prompts, ops, caches>>

\* do_auth_submit_page up to the read of the stored payload.
SubmitPage(c) == /\ Doing("idle")
                 /\ login' = [NoLogin EXCEPT !.pc = "read", !.inst = current, !.cand = c]
                 /\ UNCHANGED <<Others, auth, stored, onTrust, current, hydrated>>
\* The candidate goes live, and login.status runs with it.
TryCandidate == /\ Doing("read")
                /\ login' = [login EXCEPT !.pc = "start", !.saved = stored]
                /\ SetAuth(login.inst, login.cand)
                /\ UNCHANGED <<Others, stored, onTrust, current>>
StartVerify == /\ login.pc \in {"start", "check"} /\ login.inst \in HasAuthStatus
               /\ Begin(Verifier, login.inst)
               /\ login' = [login EXCEPT !.pc = IF @ = "start" THEN "verify" ELSE "checking"]
               /\ UNCHANGED <<stored, onTrust, current, hydrated>>
\* A feed without login.status answers LoggedIn to any payload.
TakenOnTrust == /\ Doing("start") /\ login.inst \notin HasAuthStatus
                /\ login' = [login EXCEPT !.pc = "write", !.trust = TRUE]
                /\ UNCHANGED <<Others, auth, stored, onTrust, current, hydrated>>

\* Mutant: only an error of login.status refuses the login.
VerdictsIgnored == {TRUE}

\* What login.status may return: whether the site accepted the payload its
\* last response was fetched with, and anything if it had no response.
Verdicts == IF heard = "nothing" THEN BOOLEAN ELSE {seen \in Valid}
\* The site was not asked about the candidate: the script had no response, or
\* one from the cache, fetched with another payload.
Unasked == heard # "site" /\ seen # login.cand

\* Mutant: a failed login logs out.
RollbackEmpty == /\ SetAuth(login.inst, None) /\ login' = NoLogin

Rollback == /\ SetAuth(login.inst, login.saved) /\ login' = NoLogin
Accepted == /\ Doing("verify") /\ At(Verifier, "done") /\ TRUE \in Verdicts
            /\ login' = [login EXCEPT !.pc = "write", !.trust = Unasked]
            /\ Settle(Verifier)
            /\ UNCHANGED <<stored, onTrust, current, hydrated>>
Rejected == /\ Doing("verify")
            /\ At(Verifier, "failed") \/ (At(Verifier, "done") /\ FALSE \in Verdicts)
            /\ Rollback
            /\ pc' = [pc EXCEPT ![Verifier] = "idle"] /\ left' = [left EXCEPT ![Verifier] = 0]
            /\ Hears(Verifier, "nothing", None)
            /\ UNCHANGED <<prompts, inst, tries, want, sent, caches, stored, onTrust, current>>
\* set_auth, or its failure.
StoreAuth == /\ Doing("write") /\ stored' = login.cand /\ onTrust' = login.trust /\ login' = NoLogin
             /\ UNCHANGED <<Others, auth, current, hydrated>>
StoreFails == /\ Doing("write") /\ Rollback /\ UNCHANGED <<Others, stored, onTrust, current>>

\* do_auth_status: hydrate, then ask the feed when there is anything to ask
\* and it has the handler to answer.
AuthStatus == /\ Doing("idle")
              /\ SetAuth(current, stored)
              /\ login' = IF stored = None \/ current \notin HasAuthStatus THEN NoLogin
                          ELSE [NoLogin EXCEPT !.pc = "check", !.inst = current]
              /\ UNCHANGED <<Others, stored, onTrust, current>>
StatusKnown == /\ Doing("checking") /\ Settle(Verifier)
               /\ login' = NoLogin
               /\ UNCHANGED <<stored, onTrust, current, hydrated>>

\* do_auth_clear: the row first, then the memory.
ClearAuth == /\ Doing("idle") /\ stored' = None /\ onTrust' = FALSE
             /\ login' = [NoLogin EXCEPT !.pc = "clear", !.inst = current]
             /\ UNCHANGED <<Others, auth, current, hydrated>>
ClearMemory == /\ Doing("clear") /\ SetAuth(login.inst, None) /\ login' = NoLogin
               /\ UNCHANGED <<Others, stored, onTrust, current>>

\* An install replaces the instance; the new one starts without auth.
Upgrade == /\ \E i \in Inst \ {current} : i \notin hydrated /\ current' = i
           /\ UNCHANGED <<Others, auth, stored, onTrust, login, hydrated>>

LoginStep == \/ TryCandidate \/ StartVerify \/ TakenOnTrust \/ Accepted \/ Rejected
             \/ StoreAuth \/ StoreFails \/ StatusKnown \/ ClearMemory
LoginRequest == (\E c \in Auth : SubmitPage(c)) \/ AuthStatus \/ ClearAuth \/ Upgrade
Operation(o) == \/ Proceed(o) /\ UNCHANGED loginVars
                \/ /\ o # Verifier
                   /\ Settle(o) \/ Drop(o) \/ Begin(o, current)
                   /\ UNCHANGED loginVars
App == PromptsNext /\ UNCHANGED <<runtime, loginVars>>
Next == App \/ LoginStep \/ LoginRequest \/ \E o \in Op : Operation(o)
Spec == Init /\ [][Next]_vars

\* The host runs its tasks, the network answers, pages present and pop; the
\* cache lock is a fair queue. The user owes nothing but an answer to a page.
Fairness == /\ WF_vars(LoginStep)
            /\ \A o \in Op : /\ WF_vars(Proceed(o) /\ UNCHANGED loginVars)
                             /\ SF_vars(Lock(o) /\ UNCHANGED loginVars)
            /\ WF_vars((Present \/ PopCanceled \/ StrayPop) /\ UNCHANGED <<runtime, loginVars>>)
            /\ WF_vars((Complete \/ Back) /\ UNCHANGED <<runtime, loginVars>>)
            /\ \A i \in Id : WF_vars(CancelWebview(i) /\ UNCHANGED <<runtime, loginVars>>)
-----------------------------------------------------------------------------
TypeOK == /\ RuntimeTypeOK
          /\ stored \in Auth \cup {None} /\ onTrust \in BOOLEAN /\ current \in Inst /\ hydrated \subseteq Inst
          /\ login.cand \in Auth \cup {None} /\ login.saved \in Auth \cup {None}

\* "A failed login attempt" never replaces "a previously valid session in
\* memory or on disk": whenever the actor is idle the instance it last served
\* holds what is stored, whichever of verification, storing or clearing
\* failed; and what is stored is a payload the site accepts, unless it was
\* stored without the site being asked about it: the feed has no login.status,
\* its login.status answered without a response, or with a response from the
\* cache of the feed that was fetched with another payload.
SessionKept == /\ Doing("idle") /\ current \in hydrated => auth[current] = stored
               /\ stored \in Valid \cup {None} \/ onTrust

\* An operation ends, and with it the login that waits on it, unless its
\* prompt was lost: the budget of steps, the retries, the lock of the cache
\* and the answers of the pages leave nobody waiting.
Stuck(o) == \E i \in lost \cup blind : Waiting(i) /\ pending[i] = o
OperationsEnd == \A o \in Op : ~At(o, "idle") ~> (pc[o] \in {"idle", "done", "failed"} \/ Stuck(o))
LoginEnds == ~Doing("idle") ~> (Doing("idle") \/ Stuck(Verifier))
=============================================================================
