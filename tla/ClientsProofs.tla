--------------------------- MODULE ClientsProofs ----------------------------
(***************************************************************************)
(* The two parts that use the database alone, registration and search, and *)
(* the composition of these with the live feed that MCClients runs: one    *)
(* row per email for any number of rivals, none of whom waits in a circle, *)
(* and complete pages for any table, whatever is committed between the     *)
(* queries of a search.                                                    *)
(***************************************************************************)
EXTENDS MCClients, LiveFeedProofs, FunctionTheorems

(* Registration.                                                           *)

(* A request whose session holds an uncommitted row.                       *)
Holds(s) == step[s] \in {"inserted", "replied"}

Own(s) == [id |-> s, email |-> email[s]]

(* The index: committed and uncommitted rows have emails of their own.     *)
IndexHolds ==
    /\ \A u, v \in user : u.email = v.email => u = v
    /\ \A u \in user : u = Own(u.id)
    /\ \A s \in Signups : Holds(s) => ~Taken(email[s])
    /\ \A s, t \in Signups : Holds(s) /\ Holds(t) /\ email[s] = email[t] => s = t

(* What clients were told.                                                 *)
ToldRight ==
    \A s \in Signups :
        /\ step[s] = "replied" => answer[s] = "CREATED"
        /\ step[s] = "done" =>
              /\ answer[s] = "CREATED" /\ signupFaults = 0 => Own(s) \in user
              /\ answer[s] = "CONFLICT" => Taken(email[s])
              /\ answer[s] = "ERROR" => /\ Own(s) \notin user
                                        /\ signupFaults = 0 => Taken(email[s])

SignupIInv == SignupTypeOK /\ IndexHolds /\ ToldRight

-----------------------------------------------------------------------------

LEMMA InitSignupIInv == SignupInit => SignupIInv
BY RegistrationAssumption
DEF RegistrationAssumption, SignupInit, SignupIInv, SignupTypeOK, IndexHolds,
    ToldRight, Steps, Answers, Holds, Taken

(* A request arrives, or ends without a row, while no row changes.         *)
LEMMA LookUpSignupIInv ==
    ASSUME SignupIInv, NEW s \in Signups, LookUp(s)
    PROVE  SignupIInv'
<1> USE DEF SignupIInv
<1>1. PICK e \in Emails :
          /\ email' = [email EXCEPT ![s] = e]
          /\ IF Taken(e) THEN EndWith(s, "CONFLICT") ELSE Proceed(s, "unique")
    BY DEF LookUp
<1>2. step[s] = "idle" /\ UNCHANGED <<user, replyFirst, signupFaults>>
    BY DEF LookUp
<1>3. \A u \in user : u.id \in Signups /\ u.id # s
    BY <1>2 DEF SignupTypeOK
<1>4. SignupTypeOK'
    BY <1>1, <1>2 DEF SignupTypeOK, EndWith, Proceed, Steps, Answers
<1>5. /\ \A t \in Signups \ {s} : email'[t] = email[t] /\ step'[t] = step[t]
                                  /\ answer'[t] = answer[t]
      /\ email'[s] = e /\ step'[s] \in {"unique", "done"}
      /\ step'[s] = "done" => Taken(e) /\ answer'[s] = "CONFLICT"
    BY <1>1, <1>2 DEF SignupTypeOK, EndWith, Proceed
<1>6. IndexHolds'
    BY <1>2, <1>3, <1>5 DEF IndexHolds, Holds, Own, Taken
<1>7. ToldRight'
    BY <1>2, <1>3, <1>5 DEF ToldRight, Own, Taken
<1> QED
    BY <1>4, <1>6, <1>7

(* The index lets one request at a time insert an email.                   *)
LEMMA InsertSignupIInv ==
    ASSUME SignupIInv, NEW s \in Signups, InsertUser(s)
    PROVE  SignupIInv'
<1> USE DEF SignupIInv
<1>1. /\ step[s] = "unique" /\ UNCHANGED <<user, email, replyFirst, signupFaults>>
      /\ \A t \in Signups : Holds(t) => email[t] # email[s]
    BY DEF InsertUser, Holds
<1>2. SignupTypeOK'
    BY DEF InsertUser, SignupTypeOK, EndWith, Proceed, Steps, Answers
<1>3. \A t \in Signups \ {s} : step'[t] = step[t] /\ answer'[t] = answer[t]
    BY DEF InsertUser, SignupTypeOK, EndWith, Proceed
<1>4. \/ step'[s] = "inserted" /\ ~Taken(email[s])
      \/ step'[s] = "done" /\ answer'[s] = "ERROR" /\ Taken(email[s])
    BY DEF InsertUser, SignupTypeOK, EndWith, Proceed
<1>5. Own(s) \notin user
    BY <1>1 DEF SignupTypeOK, Own
<1>6. IndexHolds'
    BY <1>1, <1>3, <1>4 DEF IndexHolds, Holds, Own, Taken
<1>7. ToldRight'
    BY <1>1, <1>3, <1>4, <1>5 DEF ToldRight, Own, Taken
<1> QED
    BY <1>2, <1>6, <1>7

LEMMA CommitSignupIInv ==
    ASSUME SignupIInv, NEW s \in Signups, CommitUser(s)
    PROVE  SignupIInv'
<1> USE DEF SignupIInv
<1>1. /\ Holds(s) /\ user' = user \cup {Own(s)}
      /\ UNCHANGED <<email, replyFirst, signupFaults>>
    BY DEF CommitUser, SessionEnds, Holds, Own
<1>2. /\ step'[s] = "done" /\ answer'[s] = "CREATED"
      /\ \A t \in Signups \ {s} : step'[t] = step[t] /\ answer'[t] = answer[t]
    BY DEF CommitUser, EndWith, SignupTypeOK
<1>3. Own(s) \in [id : Signups, email : Emails] /\ Own(s).id = s /\ Own(s).email = email[s]
    BY DEF SignupTypeOK, Own
<1>4. SignupTypeOK'
    BY <1>1, <1>3 DEF CommitUser, EndWith, SignupTypeOK, Steps, Answers
<1>5. IndexHolds'
  <2>1. \A u \in user : u.email # email[s]
      BY <1>1 DEF IndexHolds, Taken
  <2>2. \A u, v \in user' : u.email = v.email => u = v
      BY <1>1, <1>3, <2>1 DEF IndexHolds
  <2>3. \A u \in user' : u = Own(u.id)'
      BY <1>1, <1>3 DEF IndexHolds, Own
  <2>4. \A t \in Signups : Holds(t)' => t # s /\ Holds(t)
      BY <1>2 DEF Holds
  <2>5. \A t \in Signups : Holds(t)' => ~Taken(email[t])'
      BY <1>1, <1>3, <2>4 DEF IndexHolds, Taken
  <2> QED
      BY <1>1, <2>2, <2>3, <2>4, <2>5 DEF IndexHolds
<1>6. ToldRight'
  <2>1. \A t \in Signups \ {s} : Own(t) # Own(s)
      BY DEF Own
  <2> QED
      BY <1>1, <1>2, <2>1 DEF ToldRight, Own, Taken
<1> QED
    BY <1>4, <1>5, <1>6

LEMMA NextSignupIInv == SignupIInv /\ [SignupNext]_signupVars => SignupIInv'
<1> SUFFICES ASSUME SignupIInv, [SignupNext]_signupVars PROVE SignupIInv'
    OBVIOUS
<1> USE DEF SignupIInv
<1>1. ASSUME NEW s \in Signups, LookUp(s) PROVE SignupIInv'
    BY <1>1, LookUpSignupIInv
<1>2. ASSUME NEW s \in Signups, InsertUser(s) PROVE SignupIInv'
    BY <1>2, InsertSignupIInv
<1>3. ASSUME NEW s \in Signups, ReplyCreated(s) PROVE SignupIInv'
  <2>1. SignupTypeOK'
      BY <1>3 DEF ReplyCreated, SignupTypeOK, Steps, Answers
  <2>2. /\ step'[s] = "replied" /\ answer'[s] = "CREATED" /\ step[s] = "inserted"
        /\ \A t \in Signups \ {s} : step'[t] = step[t] /\ answer'[t] = answer[t]
        /\ UNCHANGED <<user, email, signupFaults>>
      BY <1>3 DEF ReplyCreated, SignupTypeOK
  <2>3. IndexHolds'
      BY <2>2 DEF IndexHolds, Holds, Own, Taken
  <2>4. ToldRight'
      BY <2>2 DEF ToldRight, Own, Taken
  <2> QED
      BY <2>1, <2>3, <2>4
<1>4. ASSUME NEW s \in Signups, CommitUser(s) PROVE SignupIInv'
    BY <1>4, CommitSignupIInv
<1>5. ASSUME NEW s \in Signups, CommitUserError(s) PROVE SignupIInv'
  <2>1. SignupTypeOK'
      BY <1>5, RegistrationAssumption
      DEF RegistrationAssumption, CommitUserError, SignupFault, SessionEnds, EndWith,
          SignupTypeOK, Steps, Answers
  <2>2. /\ step'[s] = "done" /\ answer'[s] \in {"CREATED", "ERROR"}
        /\ step[s] # "done" /\ signupFaults' # 0
        /\ \A t \in Signups \ {s} : step'[t] = step[t] /\ answer'[t] = answer[t]
        /\ UNCHANGED <<user, email>>
      BY <1>5 DEF CommitUserError, SignupFault, SessionEnds, EndWith, SignupTypeOK
  <2>3. IndexHolds'
      BY <2>2 DEF IndexHolds, Holds, Own, Taken
  <2>4. Own(s) \notin user
      BY <2>2 DEF SignupTypeOK, Own
  <2>5. ToldRight'
      BY <2>2, <2>4 DEF ToldRight, Own, Taken
  <2> QED
      BY <2>1, <2>3, <2>5
<1>6. CASE SignupCrash
  <2>1. /\ \A t \in Signups : /\ step'[t] = IF step[t] = "idle" THEN "idle" ELSE "done"
                              /\ answer'[t] = IF step[t] # "idle" /\ answer[t] = "none"
                                              THEN "ERROR" ELSE answer[t]
        /\ signupFaults' # 0 /\ UNCHANGED <<user, email>>
      BY <1>6 DEF SignupCrash, SignupFault, SignupTypeOK
  <2>2. SignupTypeOK'
      BY <1>6, RegistrationAssumption
      DEF RegistrationAssumption, SignupCrash, SignupFault, SignupTypeOK, Steps, Answers
  <2>3. IndexHolds'
      BY <2>1 DEF IndexHolds, Holds, Own, Taken
  <2>4. \A t \in Signups : step[t] # "done" => Own(t) \notin user
      BY DEF SignupTypeOK, Own
  <2>5. ToldRight'
    <3> SUFFICES ASSUME NEW t \in Signups, step'[t] = "done"
                 PROVE  /\ answer'[t] = "CONFLICT" => Taken(email[t])
                        /\ answer'[t] = "ERROR" => Own(t) \notin user
        BY <2>1 DEF ToldRight, Own, Taken
    <3>1. CASE step[t] = "done"
        BY <2>1, <3>1 DEF ToldRight, SignupTypeOK
    <3>2. CASE step[t] = "replied"
        BY <2>1, <3>2 DEF ToldRight
    <3>3. CASE step[t] \in {"unique", "inserted"}
        BY <2>1, <2>4, <3>3 DEF SignupTypeOK
    <3> QED
        BY <2>1, <3>1, <3>2, <3>3 DEF SignupTypeOK, Steps
  <2> QED
      BY <2>2, <2>3, <2>5
<1>7. CASE UNCHANGED signupVars
    BY <1>7 DEF signupVars, SignupTypeOK, IndexHolds, ToldRight, Holds, Own, Taken
<1> QED
    BY <1>1, <1>2, <1>3, <1>4, <1>5, <1>6, <1>7 DEF SignupNext, Register

-----------------------------------------------------------------------------

(* No email ever has two rows, and every answer agrees with the table, for *)
(* any number of requests in any order and any failed commits and crashes. *)
THEOREM EmailsAreUnique == SignupSpec => []OneRowPerEmail
<1>1. SignupIInv => OneRowPerEmail
    BY DEF SignupIInv, IndexHolds, ToldRight, OneRowPerEmail, Own
<1> QED
    BY <1>1, InitSignupIInv, NextSignupIInv, PTL DEF SignupSpec

(* Every state of the registrations is well typed.                         *)
THEOREM SignupTypesHold == SignupSpec => []SignupTypeOK
<1>1. SignupIInv => SignupTypeOK
    BY DEF SignupIInv
<1> QED
    BY <1>1, InitSignupIInv, NextSignupIInv, PTL DEF SignupSpec

-----------------------------------------------------------------------------
(* Progress of registrations, the safety half of SignupsEnd.               *)

Way(place) == CASE place = "idle" -> 0 [] place = "unique" -> 1
                [] place = "inserted" -> 2 [] place = "replied" -> 3 [] OTHER -> 4

(* A registration moves forward, and a client is answered once.            *)
SignupAdvances(s) ==
    /\ step'[s] # step[s] => Way(step[s]) < Way(step'[s])
    /\ answer[s] # "none" => answer'[s] = answer[s]

(* The guards of its own steps, without a fault.                           *)
SignupGoesOn(s) ==
    \/ step[s] = "unique" /\ \A t \in Signups : Holds(t) => email[t] # email[s]
    \/ replyFirst /\ step[s] = "inserted"
    \/ SessionEnds(s)

(* The inductive invariant, with SignupIInv.                               *)
RepliesFirst == \A s \in Signups : step[s] = "replied" => replyFirst

LEMMA SignupStep ==
    ASSUME SignupIInv, RepliesFirst, [SignupNext]_signupVars
    PROVE  RepliesFirst' /\ user \subseteq user' /\ \A s \in Signups : SignupAdvances(s)
<1> USE DEF SignupIInv, SignupTypeOK, RepliesFirst, SignupAdvances, Way, Steps
<1>1. ASSUME NEW s \in Signups, LookUp(s) \/ InsertUser(s)
      PROVE  RepliesFirst' /\ user' = user /\ \A t \in Signups : SignupAdvances(t)
    BY <1>1 DEF LookUp, InsertUser, EndWith, Proceed
<1>2. ASSUME NEW s \in Signups, ReplyCreated(s)
      PROVE  RepliesFirst' /\ user' = user /\ \A t \in Signups : SignupAdvances(t)
    BY <1>2 DEF ReplyCreated
<1>3. ASSUME NEW s \in Signups, CommitUser(s) \/ CommitUserError(s)
      PROVE  RepliesFirst' /\ user \subseteq user' /\ \A t \in Signups : SignupAdvances(t)
  <2>1. step[s] = "replied" => answer[s] = "CREATED" /\ replyFirst
      BY DEF ToldRight
  <2> QED
      BY <1>3, <2>1 DEF CommitUser, CommitUserError, SessionEnds, EndWith
<1>4. CASE SignupCrash
    BY <1>4 DEF SignupCrash
<1>5. CASE UNCHANGED signupVars
    BY <1>5 DEF signupVars
<1> QED
    BY <1>1, <1>2, <1>3, <1>4, <1>5 DEF SignupNext, Register

LEMMA RepliesInvariant == SignupSpec => [](SignupIInv /\ RepliesFirst)
<1>1. SignupInit => RepliesFirst
    BY DEF SignupInit, RepliesFirst
<1>2. SignupIInv /\ RepliesFirst /\ [SignupNext]_signupVars => RepliesFirst'
    BY SignupStep
<1> QED
    BY <1>1, <1>2, InitSignupIInv, NextSignupIInv, PTL DEF SignupSpec

(* No step takes a registration back, changes an answer or deletes a row,  *)
(* through failed commits and crashes.                                     *)
THEOREM RegistrationsAdvance ==
    SignupSpec => [][user \subseteq user' /\ \A s \in Signups : SignupAdvances(s)]_signupVars
<1>1. SignupIInv /\ RepliesFirst /\ [SignupNext]_signupVars
          => [user \subseteq user' /\ \A s \in Signups : SignupAdvances(s)]_signupVars
    BY SignupStep
<1> QED
    BY <1>1, RepliesInvariant, PTL DEF SignupSpec

(* Rivals for an email do not wait in a circle: a registration on its way  *)
(* can go on, or waits for the index entry of the one session that holds   *)
(* its email, and that session can go on.                                  *)
THEOREM RivalsDoNotDeadlock ==
    SignupSpec => [](\A s \in Signups : step[s] \notin {"idle", "done"} =>
                        \/ SignupGoesOn(s)
                        \/ \E t \in Signups : /\ Holds(t) /\ email[t] = email[s]
                                              /\ SignupGoesOn(t)
                                              /\ \A u \in Signups \ {t} :
                                                    Holds(u) => email[u] # email[s])
<1>1. SignupIInv /\ RepliesFirst =>
          \A s \in Signups : step[s] \notin {"idle", "done"} =>
              \/ SignupGoesOn(s)
              \/ \E t \in Signups : /\ Holds(t) /\ email[t] = email[s]
                                    /\ SignupGoesOn(t)
                                    /\ \A u \in Signups \ {t} :
                                          Holds(u) => email[u] # email[s]
  <2> SUFFICES ASSUME SignupIInv, RepliesFirst, NEW s \in Signups,
                      step[s] \notin {"idle", "done"}, ~SignupGoesOn(s)
               PROVE  \E t \in Signups : /\ Holds(t) /\ email[t] = email[s]
                                         /\ SignupGoesOn(t)
                                         /\ \A u \in Signups \ {t} :
                                               Holds(u) => email[u] # email[s]
      OBVIOUS
  <2>1. \A t \in Signups : Holds(t) => SignupGoesOn(t)
      BY DEF RepliesFirst, Holds, SignupGoesOn, SessionEnds
  <2>2. step[s] = "unique"
      BY <2>1 DEF SignupIInv, SignupTypeOK, Steps, Holds
  <2>3. PICK t \in Signups : Holds(t) /\ email[t] = email[s]
      BY <2>2 DEF SignupGoesOn
  <2>4. \A u \in Signups \ {t} : Holds(u) => email[u] # email[s]
      BY <2>3 DEF SignupIInv, IndexHolds
  <2> QED
      BY <2>1, <2>3, <2>4
<1> QED
    BY <1>1, RepliesInvariant, PTL

-----------------------------------------------------------------------------
(* Search.                                                                 *)

(* The page of a query: the newest n listings of a finite set, the newest  *)
(* first, and all of them if there are no more than n.                     *)
LEMMA LatestIsNewest ==
    ASSUME NEW S \in SUBSET Nat, IsFiniteSet(S), NEW n \in Nat
    PROVE  /\ Latest(S, n) \in Seq(S)
           /\ Len(Latest(S, n)) = IF Cardinality(S) < n THEN Cardinality(S) ELSE n
           /\ \A i, j \in 1..Len(Latest(S, n)) : i < j => Latest(S, n)[i] > Latest(S, n)[j]
           /\ Cardinality(S) <= n =>
                 \A l \in S : \E i \in 1..Len(Latest(S, n)) : Latest(S, n)[i] = l
<1> DEFINE size == Cardinality(S)
           newer(l) == Cardinality({m \in S : m > l})
           k == IF size < n THEN size ELSE n
           p == [i \in 1..k |-> CHOOSE l \in S : newer(l) = i - 1]
<1>0. \A x \in S : x \in Nat
    OBVIOUS
<1>1. size \in Nat /\ k \in Nat /\ k <= size
    BY FS_CardinalityType
<1>2. \A l, m \in S : l < m => newer(m) < newer(l)
  <2> SUFFICES ASSUME NEW l \in S, NEW m \in S, l < m PROVE newer(m) < newer(l)
      OBVIOUS
  <2> DEFINE L == {x \in S : x > l}
             M == {x \in S : x > m}
  <2>1. M \subseteq L /\ m \in L /\ m \notin M /\ L \subseteq S
    <3>1. \A x \in S : x > m => x > l
        BY <1>0
    <3>2. ~(m > m)
        BY <1>0
    <3> QED
        BY <3>1, <3>2
  <2>2. IsFiniteSet(L) /\ IsFiniteSet(M)
      BY <2>1, FS_Subset
  <2>3. Cardinality(L) \in Nat /\ Cardinality(M) \in Nat
      BY <2>2, FS_CardinalityType
  <2>4. Cardinality(M) <= Cardinality(L) /\ Cardinality(M) # Cardinality(L)
    <3> HIDE DEF L, M
    <3> QED
      BY <2>1, <2>2, FS_Subset
  <2> QED
      BY <2>3, <2>4
<1>3. \A l \in S : newer(l) \in 0..size - 1
  <2> SUFFICES ASSUME NEW l \in S PROVE newer(l) \in 0..size - 1
      OBVIOUS
  <2> DEFINE L == {x \in S : x > l}
  <2>1. L \subseteq S /\ l \notin L
      BY <1>0
  <2>2. IsFiniteSet(L) /\ Cardinality(L) <= size /\ Cardinality(L) # size
    <3> HIDE DEF L
    <3> QED
      BY <2>1, FS_Subset
  <2>3. Cardinality(L) \in Nat
      BY <2>2, FS_CardinalityType
  <2> QED
      BY <1>1, <2>2, <2>3
<1> DEFINE rank == [l \in S |-> newer(l)]
<1>4. \A i \in 0..size - 1 : \E l \in S : newer(l) = i
  <2> HIDE DEF newer
  <2>1. rank \in [S -> 0..size - 1]
      BY <1>3
  <2>2. \A l, m \in S : rank[l] = rank[m] => l = m
    <3> SUFFICES ASSUME NEW l \in S, NEW m \in S, newer(l) = newer(m), l # m PROVE FALSE
        OBVIOUS
    <3>1. l < m \/ m < l
        BY <1>0
    <3>2. newer(l) \in Int /\ newer(m) \in Int
        BY <1>3
    <3> QED
        BY <1>2, <3>1, <3>2
  <2>3. rank \in Injection(S, 0..size - 1)
    <3> HIDE DEF rank
    <3> QED
        BY <2>1, <2>2, Fun_IsInj
  <2>4. IsFiniteSet(0..size - 1) /\ Cardinality(0..size - 1) = size
    <3>1. 0 \in Int /\ size - 1 \in Int
        BY <1>1
    <3> QED
        BY <1>1, <3>1, FS_Interval
  <2>5. rank \in Surjection(S, 0..size - 1)
    <3> HIDE DEF rank
    <3> QED
        BY <2>3, <2>4, FS_Injection
  <2> QED
      BY <2>5 DEF Surjection
<1>5. \A i \in 1..k : p[i] \in S /\ newer(p[i]) = i - 1
  <2> SUFFICES ASSUME NEW i \in 1..k PROVE p[i] \in S /\ newer(p[i]) = i - 1
      OBVIOUS
  <2> HIDE DEF newer
  <2>1. \E l \in S : newer(l) = i - 1
      BY <1>1, <1>4
  <2> QED
      BY <2>1
<1>6. \A i, j \in 1..k : i < j => p[i] > p[j]
  <2> SUFFICES ASSUME NEW i \in 1..k, NEW j \in 1..k, i < j, ~(p[i] > p[j]) PROVE FALSE
      OBVIOUS
  <2>1. newer(p[i]) = i - 1 /\ newer(p[j]) = j - 1 /\ p[i] \in S /\ p[j] \in S
      BY <1>5
  <2> HIDE DEF p, newer
  <2>2. p[i] \in Nat /\ p[j] \in Nat /\ p[i] # p[j]
    <3> DEFINE x == p[i]
               y == p[j]
    <3>1. x \in S /\ y \in S /\ newer(x) = i - 1 /\ newer(y) = j - 1
        BY <2>1
    <3>2. x \in Nat /\ y \in Nat
        BY <1>0, <3>1
    <3> HIDE DEF x, y
    <3>3. x # y
        BY <3>1
    <3> QED
        BY <3>2, <3>3 DEF x, y
  <2>3. p[i] < p[j]
      BY <2>2
  <2> QED
    <3>1. newer(p[j]) < newer(p[i])
        BY <1>2, <2>1, <2>3
    <3> QED
        BY <2>1, <3>1
<1>7. size <= n => \A l \in S : \E i \in 1..k : p[i] = l
  <2> SUFFICES ASSUME size <= n, NEW l \in S PROVE \E i \in 1..k : p[i] = l
      OBVIOUS
  <2> HIDE DEF newer
  <2>1. newer(l) + 1 \in 1..k
      BY <1>1, <1>3
  <2>2. p[newer(l) + 1] \in S /\ newer(p[newer(l) + 1]) = newer(l)
      BY <1>3, <1>5, <2>1
  <2> HIDE DEF p
  <2>3. p[newer(l) + 1] = l
    <3> DEFINE q == p[newer(l) + 1]
    <3>1. q \in S /\ newer(q) = newer(l) /\ newer(l) \in Int
        BY <1>3, <2>2
    <3> HIDE DEF q
    <3>2. q # l => q < l \/ l < q
        BY <1>0, <3>1
    <3>3. q = l
        BY <1>2, <3>1, <3>2
    <3> QED
        BY <3>3 DEF q
  <2> QED
      BY <2>1, <2>3
<1>8. p = Latest(S, n)
    BY DEF Latest
<1>9. p \in Seq(S) /\ Len(p) = k
  <2>1. p \in [1..k -> S]
      BY <1>5
  <2> HIDE DEF p
  <2> QED
      BY <1>1, <2>1
<1> QED
  <2> HIDE DEF p
  <2> QED
    BY <1>6, <1>7, <1>8, <1>9

-----------------------------------------------------------------------------
(* The inductive invariant.                                                *)

Rank(status) == CASE status = "absent" -> 0 [] status = "UPCOMING" -> 1
                  [] status = "ACTIVE" -> 2 [] OTHER -> 3

Present == {l \in Listings : table[l].status # "absent"}

(* Finitely many rows; one without an outcome has no price.                *)
RowsFit == /\ IsFiniteSet(Present)
           /\ \A l \in Listings : table[l].status \notin Final => table[l].price = 0

(* What was counted was in the state asked for, and may have moved on.     *)
CountedMoveOn ==
    \A l \in counted : Rank(table[l].status) >= Rank(StateAsked(ask))

(* So has what was shown.                                                  *)
FoundMoveOn ==
    \A i \in 1..Len(got) : Rank(got[i].status) <= Rank(table[got[i].listing].status)

FreshCount == fresh /\ phase # "idle" => counted = Matches(ask)

SearchIInv == /\ SearchTypeOK /\ RowsFit /\ CountedMoveOn /\ FoundMoveOn /\ FreshCount
              /\ SearchIsComplete /\ FoundStaysTrue

LEMMA InitSearchIInv == SearchInit => SearchIInv
<1> SUFFICES ASSUME SearchInit PROVE SearchIInv
    OBVIOUS
<1>1. SearchTypeOK
  <2>1. table \in [Listings -> Entries]
      BY DEF SearchInit, Entries
  <2>2. got \in Seq(Items) /\ Len(got) = 0
      BY DEF SearchInit
  <2> QED
      BY <2>1, <2>2 DEF SearchInit, SearchTypeOK
<1>2. RowsFit
  <2>1. Present = {}
      BY DEF SearchInit, Present
  <2> QED
      BY <2>1, FS_EmptySet DEF RowsFit, SearchInit
<1> QED
    BY <1>1, <1>2
    DEF SearchInit, SearchIInv, CountedMoveOn, FoundMoveOn, FreshCount, SearchIsComplete, FoundStaysTrue

(* A question that no row answers is CLOSED; none asks for an absent row.  *)
LEMMA AskedIsNotAbsent == \A q : StateAsked(q) # "absent"
    BY DEF StateAsked

(* What matches is finite, and in the table.                               *)
LEMMA MatchesAreRows ==
    ASSUME SearchTypeOK, RowsFit, NEW q \in Asks \cup {NoAsk}
    PROVE  /\ Matches(q) \in SUBSET Listings /\ Matches(q) \in SUBSET Nat
           /\ IsFiniteSet(Matches(q)) /\ Cardinality(Matches(q)) \in Nat
           /\ \A l \in Matches(q) : table[l].status = StateAsked(q) /\ Item(l) \in Items
<1>1. Matches(q) \subseteq Listings
  <2>1. q.among \subseteq Listings
    <3>1. CASE q \in Asks
      <4>1. q.among \in Filters
          BY <3>1 DEF Asks
      <4> QED
          BY <4>1, SearchAssumption DEF SearchAssumption
    <3>2. CASE q = NoAsk
        BY <3>2 DEF NoAsk
    <3> QED
        BY <3>1, <3>2
  <2> QED
      BY <2>1 DEF Matches
<1>2. Matches(q) \subseteq Present
    BY <1>1, AskedIsNotAbsent DEF Matches, Present
<1>3. IsFiniteSet(Matches(q))
    BY <1>2, FS_Subset DEF RowsFit
<1>4. ASSUME NEW l \in Matches(q)
      PROVE  table[l].status = StateAsked(q) /\ Item(l) \in Items
  <2>1. l \in Listings /\ table[l] \in Entries /\ table[l].status = StateAsked(q)
      BY <1>1, <1>4 DEF Matches, SearchTypeOK
  <2>2. table[l].status \in Running \cup Final
      BY <2>1, AskedIsNotAbsent DEF Entries
  <2>3. Listed(l) \in Nat
      BY <2>1, SearchAssumption DEF SearchAssumption, Listed, Entries
  <2> QED
      BY <2>1, <2>2, <2>3 DEF Item, Items
<1> QED
    BY <1>1, <1>3, <1>4, FS_CardinalityType, SearchAssumption DEF SearchAssumption

(* A row appears, opens or is settled.                                     *)
LEMMA CommitSearchIInv ==
    ASSUME SearchIInv, NEW l \in Listings, NEW from, NEW to \in Entries,
           Commit(l, from, to),
           from \in {"absent"} \cup Running, Rank(from) < Rank(to.status),
           to.status \notin Final => to.price = 0
    PROVE  SearchIInv'
<1> USE DEF SearchIInv
<1>1. /\ table[l].status = from /\ table'[l] = to
      /\ \A m \in Listings \ {l} : table'[m] = table[m]
      /\ fresh' = FALSE
      /\ UNCHANGED <<phase, ask, counted, got, more>>
    BY DEF Commit, askVars, SearchTypeOK
<1>2. SearchTypeOK'
    BY <1>1 DEF Commit, SearchTypeOK
<1>3. RowsFit'
  <2>1. Present' \subseteq Present \cup {l}
      BY <1>1 DEF Present
  <2>2. IsFiniteSet(Present \cup {l})
      BY FS_AddElement DEF RowsFit
  <2>3. IsFiniteSet(Present')
      BY <2>1, <2>2, FS_Subset
  <2> QED
      BY <1>1, <2>3 DEF RowsFit
<1>4. CountedMoveOn'
  <2> SUFFICES ASSUME NEW m \in counted
               PROVE  Rank(table'[m].status) >= Rank(StateAsked(ask))
      BY <1>1 DEF CountedMoveOn, StateAsked
  <2>1. m \in Listings /\ Rank(table[m].status) >= Rank(StateAsked(ask))
      BY DEF SearchTypeOK, CountedMoveOn
  <2>2. CASE m = l
      BY <1>1, <2>1, <2>2 DEF Rank
  <2> QED
      BY <1>1, <2>1, <2>2
<1>5. SearchIsComplete'
  <2>1. phase = "shown" /\ ~more => counted \cap Matches(ask)' \subseteq Found
    <3> SUFFICES ASSUME phase = "shown", ~more, NEW m \in counted, m \in Matches(ask)'
                 PROVE  m \in Found
        OBVIOUS
    <3>1. m \in Listings /\ table'[m].status = StateAsked(ask) /\ m \in ask.among
        BY <1>1 DEF SearchTypeOK, Matches, StateAsked
    <3>2. m # l
      <4> SUFFICES ASSUME m = l PROVE FALSE
          OBVIOUS
      <4>1. Rank(from) >= Rank(to.status)
          BY <1>1, <3>1 DEF CountedMoveOn
      <4> QED
          BY <4>1 DEF Rank
    <3>3. m \in Matches(ask)
        BY <1>1, <3>1, <3>2 DEF Matches, Listed, StateAsked
    <3> QED
        BY <3>3 DEF SearchIsComplete
  <2> QED
      BY <1>1, <2>1 DEF SearchIsComplete, Found
<1>6. \A i \in 1..Len(got) : got[i] \in Items /\ got[i].listing \in Listings
  <2>1. got \in Seq(Items)
      BY DEF SearchTypeOK
  <2>2. \A i \in 1..Len(got) : got[i] \in Items
      BY <2>1
  <2> QED
      BY <2>2 DEF Items
<1>7. FoundMoveOn'
  <2> SUFFICES ASSUME NEW i \in 1..Len(got)
               PROVE  Rank(got[i].status) <= Rank(table'[got[i].listing].status)
      BY <1>1 DEF FoundMoveOn
  <2>1. CASE got[i].listing = l
      BY <1>1, <2>1 DEF FoundMoveOn, Rank
  <2>2. CASE got[i].listing # l
      BY <1>1, <1>6, <2>2 DEF FoundMoveOn
  <2> QED
      BY <2>1, <2>2
<1>8. FoundStaysTrue'
  <2> SUFFICES ASSUME NEW i \in 1..Len(got)
               PROVE  LET item == got[i]
                          then == table'[item.listing]
                      IN  /\ item.status \in Final =>
                                /\ then.status = item.status
                                /\ then.price # 0 => item.price = then.price
                          /\ item.status \in Running => item.price = StartPrice
                          /\ item.status = "ACTIVE" => then.status # "UPCOMING"
      BY <1>1 DEF FoundStaysTrue
  <2>1. CASE got[i].listing = l
    <3>1. got[i].status \notin Final
        BY <1>1, <2>1 DEF FoundStaysTrue, Final, Running
    <3>2. got[i].status = "ACTIVE" => to.status # "UPCOMING"
        BY <1>1, <1>7, <2>1 DEF FoundMoveOn, Rank
    <3> QED
        BY <1>1, <2>1, <3>1, <3>2 DEF FoundStaysTrue
  <2> QED
      BY <1>1, <1>6, <2>1 DEF FoundStaysTrue
<1> QED
    BY <1>1, <1>2, <1>3, <1>4, <1>5, <1>7, <1>8 DEF FreshCount

(* The count query.                                                        *)
LEMMA CountSearchIInv == ASSUME SearchIInv, Count PROVE SearchIInv'
<1> USE DEF SearchIInv
<1>1. PICK q \in Asks : ask' = q /\ counted' = Matches(q)
    BY DEF Count
<1>2. /\ phase = "idle" /\ phase' = "counted" /\ fresh' = TRUE
      /\ UNCHANGED <<table, got, more>> /\ Len(got) = 0 /\ ~more
    BY DEF Count, SearchTypeOK
<1>3. /\ Matches(q) \subseteq Listings
      /\ \A l \in Matches(q) : table[l].status = StateAsked(q)
    BY MatchesAreRows
<1>4. SearchTypeOK'
    BY <1>1, <1>2, <1>3 DEF SearchTypeOK
<1>5. RowsFit'
    BY <1>2 DEF RowsFit, Present
<1>6. CountedMoveOn'
  <2> SUFFICES ASSUME NEW l \in Matches(q)
               PROVE  Rank(table[l].status) >= Rank(StateAsked(q))
      BY <1>1, <1>2 DEF CountedMoveOn, StateAsked
  <2>1. table[l].status = StateAsked(q)
      BY <1>3
  <2>2. Rank(StateAsked(q)) \in Nat
      BY DEF Rank
  <2> QED
      BY <2>1, <2>2
<1>7. Matches(q)' = Matches(q)
    BY <1>2 DEF Matches, Listed, StateAsked
<1>8. FreshCount'
    BY <1>1, <1>7 DEF FreshCount, Matches, StateAsked, Listed
<1>9. SearchIsComplete' /\ FoundStaysTrue' /\ FoundMoveOn'
    BY <1>2 DEF SearchIsComplete, FoundStaysTrue, FoundMoveOn
<1> QED
    BY <1>4, <1>5, <1>6, <1>8, <1>9

(* The page that the client receives.                                      *)
LEMMA FetchSearchIInv == ASSUME SearchIInv, FetchPage PROVE SearchIInv'
<1> USE DEF SearchIInv
<1> DEFINE M == Matches(ask)
           page == Latest(M, SearchLimit)
<1>1. /\ phase = "counted" /\ phase' = "shown"
      /\ got' = [i \in 1..Len(page) |-> Item(page[i])]
      /\ more' = (Cardinality(M) > SearchLimit)
      /\ UNCHANGED <<table, fresh, ask, counted>>
    BY DEF FetchPage, tableVars
<1>2. ask \in Asks \cup {NoAsk}
    BY DEF SearchTypeOK
<1>2a. more' <=> Cardinality(M) > SearchLimit
    BY <1>1
<1>3. /\ M \in SUBSET Listings /\ M \in SUBSET Nat /\ IsFiniteSet(M)
      /\ Cardinality(M) \in Nat
      /\ \A l \in M : table[l].status = StateAsked(ask) /\ Item(l) \in Items
    BY <1>2, MatchesAreRows
<1>4. SearchLimit \in Nat
    BY SearchAssumption DEF SearchAssumption
<1>5. /\ page \in Seq(M)
      /\ Len(page) = IF Cardinality(M) < SearchLimit THEN Cardinality(M) ELSE SearchLimit
      /\ \A i, j \in 1..Len(page) : i < j => page[i] > page[j]
      /\ Cardinality(M) <= SearchLimit =>
            \A l \in M : \E i \in 1..Len(page) : page[i] = l
  <2> HIDE DEF M
  <2> QED
      BY <1>3, <1>4, LatestIsNewest
<1> HIDE DEF M, page
<1>6. \A i \in 1..Len(page) : page[i] \in M
    BY <1>5
<1>7. /\ Len(page) \in Nat /\ Len(got') = Len(page) /\ got' \in Seq(Items)
      /\ \A i \in 1..Len(page) : got'[i] = Item(page[i])
  <2>1. Len(page) \in Nat
      BY <1>5
  <2>2. got' \in [1..Len(page) -> Items]
      BY <1>1, <1>3, <1>6
  <2> QED
      BY <1>1, <2>1, <2>2
<1>8. \A i \in 1..Len(page) : /\ got'[i].listing = page[i]
                              /\ got'[i].status = table[page[i]].status
                              /\ got'[i].price = Listed(page[i])
  <2> SUFFICES ASSUME NEW i \in 1..Len(page)
               PROVE  /\ got'[i].listing = page[i]
                      /\ got'[i].status = table[page[i]].status
                      /\ got'[i].price = Listed(page[i])
      OBVIOUS
  <2>1. got'[i] = Item(page[i])
      BY <1>7
  <2> QED
      BY <2>1 DEF Item
<1>9. SearchTypeOK'
    BY <1>1, <1>3, <1>4, <1>5, <1>7 DEF SearchTypeOK
<1>10. RowsFit' /\ CountedMoveOn'
    BY <1>1 DEF RowsFit, Present, CountedMoveOn, StateAsked
<1>11. M = Matches(ask)'
    BY <1>1 DEF M, Matches, Listed, StateAsked
<1>12. FreshCount'
    BY <1>1, <1>11 DEF FreshCount, M
<1>13. SearchIsComplete'
  <2>1. \A i, j \in 1..Len(got') : i < j => got'[i].listing > got'[j].listing
      BY <1>5, <1>7, <1>8
  <2>2. ~more' => counted' \cap Matches(ask)' \subseteq Found'
    <3> SUFFICES ASSUME ~more', NEW l \in M PROVE l \in Found'
        BY <1>11
    <3>1. Cardinality(M) <= SearchLimit
        BY <1>3, <1>4, <1>2a
    <3>2. PICK i \in 1..Len(page) : page[i] = l
        BY <1>5, <3>1
    <3> QED
        BY <1>7, <1>8, <3>2 DEF Found
  <2>3. fresh' => /\ Len(got') <= Cardinality(counted')
                  /\ more' <=> Len(got') < Cardinality(counted')
    <3> SUFFICES ASSUME fresh PROVE /\ Len(page) <= Cardinality(M)
                                    /\ more' <=> Len(page) < Cardinality(M)
        BY <1>1, <1>7 DEF FreshCount, M
    <3> QED
        BY <1>3, <1>4, <1>5, <1>2a
  <2> QED
      BY <2>1, <2>2, <2>3 DEF SearchIsComplete
<1>14. \A i \in 1..Len(page) : page[i] \in Listings
    BY <1>3, <1>6
<1>15. FoundMoveOn'
  <2> SUFFICES ASSUME NEW i \in 1..Len(page)
               PROVE  Rank(got'[i].status) <= Rank(table'[got'[i].listing].status)
      BY <1>7 DEF FoundMoveOn
  <2>1. Rank(table[page[i]].status) \in Nat
      BY DEF Rank
  <2> QED
      BY <1>1, <1>8, <2>1
<1>16. FoundStaysTrue'
  <2> SUFFICES ASSUME NEW i \in 1..Len(page)
               PROVE  LET now == table[page[i]]
                          price == Listed(page[i])
                      IN  /\ now.price # 0 => price = now.price
                          /\ now.status \in Running => price = StartPrice
      BY <1>1, <1>7, <1>8 DEF FoundStaysTrue
  <2>1. table[page[i]].status \in Running => table[page[i]].price = 0
      BY <1>14 DEF RowsFit, Final, Running
  <2> QED
      BY <2>1 DEF Listed
<1> QED
    BY <1>9, <1>10, <1>12, <1>13, <1>15, <1>16

LEMMA NextSearchIInv == SearchIInv /\ [SearchNext]_searchVars => SearchIInv'
<1> SUFFICES ASSUME SearchIInv, [SearchNext]_searchVars PROVE SearchIInv'
    OBVIOUS
<1>1. ASSUME NEW l \in Listings, ListingAppears(l) PROVE SearchIInv'
  <2>1. PICK s \in Running : Commit(l, "absent", [status |-> s, price |-> 0])
      BY <1>1 DEF ListingAppears
  <2>2. /\ [status |-> s, price |-> 0] \in Entries
        /\ Rank("absent") < Rank(s)
      BY DEF Entries, Running, Rank
  <2> QED
      BY <2>1, <2>2, CommitSearchIInv
<1>2. ASSUME NEW l \in Listings, ListingOpens(l) PROVE SearchIInv'
  <2>1. /\ [status |-> "ACTIVE", price |-> 0] \in Entries
        /\ Rank("UPCOMING") < Rank("ACTIVE") /\ "UPCOMING" \in Running
      BY DEF Entries, Running, Rank
  <2> QED
      BY <1>2, <2>1, CommitSearchIInv DEF ListingOpens
<1>3. ASSUME NEW l \in Listings, ListingSettles(l) PROVE SearchIInv'
  <2>1. PICK p \in FinalPrices, s \in Final : Commit(l, "ACTIVE", [status |-> s, price |-> p])
      BY <1>3 DEF ListingSettles
  <2>2. /\ [status |-> s, price |-> p] \in Entries
        /\ Rank("ACTIVE") < Rank(s) /\ "ACTIVE" \in Running
      BY SearchAssumption DEF SearchAssumption, Entries, Final, Running, Rank
  <2> QED
      BY <2>1, <2>2, CommitSearchIInv
<1>4. CASE Count
    BY <1>4, CountSearchIInv
<1>5. CASE FetchPage
    BY <1>5, FetchSearchIInv
<1>6. CASE FollowCursor
  <2>1. UNCHANGED <<table, fresh, ask, counted, got, more>> /\ phase' = "failed"
        /\ phase = "shown"
      BY <1>6 DEF FollowCursor, tableVars
  <2> QED
      BY <2>1 DEF SearchIInv, SearchTypeOK, RowsFit, Present, CountedMoveOn,
         StateAsked, FoundMoveOn, FreshCount, Matches, Listed, SearchIsComplete,
         FoundStaysTrue
<1>7. CASE EndSearch
  <2>1. /\ UNCHANGED table /\ phase' = "idle" /\ ask' = NoAsk /\ counted' = {}
        /\ got' = << >> /\ Len(got') = 0 /\ more' = FALSE /\ fresh' = FALSE
      BY <1>7 DEF EndSearch
  <2>2. SearchTypeOK'
    <3>1. table \in [Listings -> Entries] /\ got' \in Seq(Items)
        BY <2>1 DEF SearchIInv, SearchTypeOK
    <3> QED
        BY <2>1, <3>1 DEF SearchTypeOK
  <2> QED
      BY <2>1, <2>2 DEF SearchIInv, RowsFit, Present, CountedMoveOn, FoundMoveOn,
         FreshCount, SearchIsComplete, FoundStaysTrue
<1>8. CASE UNCHANGED searchVars
    BY <1>8 DEF searchVars, tableVars, askVars, SearchIInv, SearchTypeOK, RowsFit,
       Present, CountedMoveOn, StateAsked, FoundMoveOn, FreshCount, Matches, Listed,
       SearchIsComplete, Found, FoundStaysTrue
<1> QED
    BY <1>1, <1>2, <1>3, <1>4, <1>5, <1>6, <1>7, <1>8 DEF SearchNext

LEMMA AlwaysSearchIInv == SearchSpec => []SearchIInv
    BY InitSearchIInv, NextSearchIInv, PTL DEF SearchSpec

(* A search is well typed, and a page that is not the last is full.        *)
THEOREM SearchTypesHold == SearchSpec => []SearchTypeOK
<1>1. SearchIInv => SearchTypeOK
    BY DEF SearchIInv
<1> QED
    BY <1>1, AlwaysSearchIInv, PTL

(* A page without a next_cursor misses nothing that was counted and still  *)
(* matches, and without a commit in between total and page agree, for any  *)
(* table, limit, filter and price bounds.                                  *)
THEOREM SearchesAreComplete == SearchSpec => []SearchIsComplete
<1>1. SearchIInv => SearchIsComplete
    BY DEF SearchIInv
<1> QED
    BY <1>1, AlwaysSearchIInv, PTL

(* A final state and price that were listed stay true, and nothing listed  *)
(* goes back.                                                              *)
THEOREM FoundNeverGoesBack == SearchSpec => []FoundStaysTrue
<1>1. SearchIInv => FoundStaysTrue
    BY DEF SearchIInv
<1> QED
    BY <1>1, AlwaysSearchIInv, PTL

-----------------------------------------------------------------------------
(* The three parts side by side.                                           *)

(* A behavior of the composition is one of each part: what the theorems of *)
(* the parts say holds of what the run of MCClients checks.                *)
THEOREM PartsKeepTheirSpecs == ClientsSpec => Spec /\ SignupSpec /\ SearchSpec
<1>1. ClientsInit => Init /\ SignupInit /\ SearchInit
    BY DEF ClientsInit
<1>2. [ClientsNext]_clientsVars
          => [Next]_vars /\ [SignupNext]_signupVars /\ [SearchNext]_searchVars
    BY DEF ClientsNext, clientsVars
<1> QED
    BY <1>1, <1>2, PTL DEF ClientsSpec, Spec, SignupSpec, SearchSpec

(* Every state of every part is well typed, whichever of them moves.       *)
THEOREM ClientsTypesHold == ClientsSpec => []ClientsTypeOK
<1>1. TypeOK /\ SignupTypeOK /\ SearchTypeOK => ClientsTypeOK
    BY DEF ClientsTypeOK
<1> QED
    BY <1>1, PartsKeepTheirSpecs, FeedTypesHold, SignupTypesHold, SearchTypesHold, PTL

=============================================================================
