---------------------------- MODULE Registration ----------------------------
(***************************************************************************)
(* POST /users while others register: the route looks for the email, then  *)
(* inserts, in one session that get_session commits.  The unique index on  *)
(* "user".email makes an INSERT wait for a session that has inserted the   *)
(* same email, and fail if that session commits.                           *)
(***************************************************************************)
EXTENDS Naturals

CONSTANTS
    Signups,         \* POST /users requests; each draws a user_id of its own
    Emails,
    MaxSignupFaults  \* bound: failed commits and crashes

ASSUME RegistrationAssumption == Emails # {} /\ MaxSignupFaults \in Nat

VARIABLES
    user,          \* committed rows of "user"
    step,          \* where a request stands
    email,         \* what it wants to register, once it has arrived
    answer,        \* what its client was told
    replyFirst,    \* FastAPI >= 0.118 leaves get_session after the response
    signupFaults

signupVars == <<user, step, email, answer, replyFirst, signupFaults>>

Steps == {"idle", "unique", "inserted", "replied", "done"}

Answers == {"none", "CREATED", "CONFLICT", "ERROR"}

(* Types; a request that waits for its commit holds no committed row.      *)
SignupTypeOK ==
    /\ user \in SUBSET [id : Signups, email : Emails]
    /\ step \in [Signups -> Steps] /\ email \in [Signups -> Emails]
    /\ answer \in [Signups -> Answers]
    /\ replyFirst \in BOOLEAN /\ signupFaults \in 0..MaxSignupFaults
    /\ \A s \in Signups : step[s] = "done" <=> answer[s] # "none" /\ step[s] # "replied"
    /\ \A u \in user : step[u.id] = "done"

-----------------------------------------------------------------------------

Taken(e) == \E u \in user : u.email = e

SignupFault == /\ signupFaults < MaxSignupFaults
               /\ signupFaults' = signupFaults + 1

Proceed(s, to) == /\ step' = [step EXCEPT ![s] = to]
                  /\ UNCHANGED answer

EndWith(s, reply) == /\ step' = [step EXCEPT ![s] = "done"]
                     /\ answer' = [answer EXCEPT ![s] = reply]

(* SELECT by email: a row that is there already is a conflict.             *)
LookUp(s) ==
    /\ step[s] = "idle"
    /\ \E e \in Emails :
          /\ email' = [email EXCEPT ![s] = e]
          /\ IF Taken(e) THEN EndWith(s, "CONFLICT") ELSE Proceed(s, "unique")
    /\ UNCHANGED <<user, replyFirst, signupFaults>>

(* Mutants of InsertUser: without the unique index, or one that goes on    *)
(* waiting when the row it waits for has been committed.                   *)
InsertAnyway(s) ==
    /\ step[s] = "unique"
    /\ Proceed(s, "inserted")
    /\ UNCHANGED <<user, email, replyFirst, signupFaults>>

InsertWaiting(s) ==
    /\ step[s] = "unique" /\ ~Taken(email[s])
    /\ \A t \in Signups : step[t] \in {"inserted", "replied"} => email[t] # email[s]
    /\ Proceed(s, "inserted")
    /\ UNCHANGED <<user, email, replyFirst, signupFaults>>

(* The flush.                                                              *)
InsertUser(s) ==
    /\ step[s] = "unique"
    /\ \A t \in Signups : step[t] \in {"inserted", "replied"} => email[t] # email[s]
    /\ IF Taken(email[s]) THEN EndWith(s, "ERROR") ELSE Proceed(s, "inserted")
    /\ UNCHANGED <<user, email, replyFirst, signupFaults>>

ReplyCreated(s) ==
    /\ replyFirst
    /\ step[s] = "inserted"
    /\ step' = [step EXCEPT ![s] = "replied"]
    /\ answer' = [answer EXCEPT ![s] = "CREATED"]
    /\ UNCHANGED <<user, email, replyFirst, signupFaults>>

SessionEnds(s) == step[s] = IF replyFirst THEN "replied" ELSE "inserted"

CommitUser(s) ==
    /\ SessionEnds(s)
    /\ user' = user \cup {[id |-> s, email |-> email[s]]}
    /\ EndWith(s, "CREATED")
    /\ UNCHANGED <<email, replyFirst, signupFaults>>

CommitUserError(s) ==
    /\ SignupFault
    /\ SessionEnds(s)
    /\ EndWith(s, IF replyFirst THEN "CREATED" ELSE "ERROR")
    /\ UNCHANGED <<user, email, replyFirst>>

(* The process dies: sessions roll back, connections break.                *)
SignupCrash ==
    /\ SignupFault
    /\ step' = [s \in Signups |-> IF step[s] = "idle" THEN "idle" ELSE "done"]
    /\ answer' = [s \in Signups |-> IF step[s] # "idle" /\ answer[s] = "none"
                                    THEN "ERROR" ELSE answer[s]]
    /\ UNCHANGED <<user, email, replyFirst>>

SignupInit == /\ user = {}
              /\ step = [s \in Signups |-> "idle"]
              /\ email = [s \in Signups |-> CHOOSE e \in Emails : TRUE]
              /\ answer = [s \in Signups |-> "none"]
              /\ replyFirst \in BOOLEAN /\ signupFaults = 0

(* What a request does once it has arrived.                                *)
Register(s) == InsertUser(s) \/ ReplyCreated(s) \/ CommitUser(s)

SignupNext == \/ \E s \in Signups : LookUp(s) \/ Register(s) \/ CommitUserError(s)
              \/ SignupCrash

SignupSpec == SignupInit /\ [][SignupNext]_signupVars

-----------------------------------------------------------------------------
(* Properties.                                                             *)

(* However registrations interleave, an email has one row; what a client   *)
(* is told agrees with it: CREATED means its own row unless a fault took   *)
(* the commit, CONFLICT means another's, and an ERROR without a fault is a *)
(* lost race, not a lost registration.                                     *)
OneRowPerEmail ==
    /\ \A u, v \in user : u.email = v.email => u = v
    /\ \A s \in Signups : step[s] = "done" =>
          LET own == [id |-> s, email |-> email[s]]
          IN  /\ answer[s] = "CREATED" /\ signupFaults = 0 => own \in user
              /\ answer[s] = "CONFLICT" => Taken(email[s])
              /\ answer[s] = "ERROR" => /\ own \notin user
                                        /\ signupFaults = 0 => Taken(email[s])

OnItsWay(s) == step[s] \notin {"idle", "done"}

(* Nobody waits forever for the row of another, whether that session       *)
(* commits, fails or dies: when registrations are on their way, there      *)
(* comes a time when all that have arrived are over, and then SignupTypeOK *)
(* says that their clients are answered and OneRowPerEmail with what.      *)
SignupsEnd == (\E s \in Signups : OnItsWay(s)) ~> (\A s \in Signups : ~OnItsWay(s))

=============================================================================
