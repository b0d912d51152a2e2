----------------------- MODULE AuthorityExpiryProofs -----------------------
(***************************************************************************)
(* The properties of AuthorityExpiry for any set of requests, any clock    *)
(* and any number of commands.                                             *)
(***************************************************************************)
EXTENDS AuthorityExpiry, TLAPS

\* A request that authorize accepts is valid at the instant of the decision: it fails no
\* check, and the instant lies in its half-open interval.
LEMMA AuthorizedIsValid ==
  ASSUME NEW r \in Request, NEW t \in Nat, authorize(r, t) = "authorized"
  PROVE  Valid(r, t)
<1>0. r.notBefore \in Nat /\ r.expiresAt \in Nat /\ r.defects \subseteq Check
  BY AuthorityAssumption, SMTT(60)
<1>d. DOMAIN Checks = 1..6
  BY SMTT(60) DEF Checks
<1>1. Failed(r) \subseteq 1..6
  BY <1>d, SMTT(60) DEF Failed
<1>2. Failed(r) = {}
  <2> SUFFICES ASSUME Failed(r) # {} PROVE FALSE
    BY SMTT(60)
  <2> DEFINE F == Failed(r)
  <2>1. F \subseteq 1..6 /\ F # {}
    BY <1>1, SMTT(60)
  <2> HIDE DEF F
  <2>2. \E x \in F : \A y \in F : x <= y
    <3>1. CASE 1 \in F
      BY <2>1, <3>1, SMTT(60)
    <3>2. CASE 1 \notin F /\ 2 \in F
      BY <2>1, <3>2, SMTT(60)
    <3>3. CASE 1 \notin F /\ 2 \notin F /\ 3 \in F
      BY <2>1, <3>3, SMTT(60)
    <3>4. CASE 1 \notin F /\ 2 \notin F /\ 3 \notin F /\ 4 \in F
      BY <2>1, <3>4, SMTT(60)
    <3>5. CASE 1 \notin F /\ 2 \notin F /\ 3 \notin F /\ 4 \notin F /\ 5 \in F
      BY <2>1, <3>5, SMTT(60)
    <3>6. CASE 1 \notin F /\ 2 \notin F /\ 3 \notin F /\ 4 \notin F /\ 5 \notin F
      <4>1. \A y \in F : y = 6
        BY <2>1, <3>6, SMTT(60)
      <4>2. PICK y \in F : TRUE
        BY <2>1, ZenonT(120)
      <4>3. 6 \in F
        BY <4>1, <4>2, SMTT(60)
      <4> QED
        BY <4>1, <4>3, SMTT(60)
    <3> QED
      BY <3>1, <3>2, <3>3, <3>4, <3>5, <3>6, SMTT(60)
  <2>3. Min(F) \in 1..6
    BY <2>1, <2>2, ZenonT(120) DEF Min
  <2>4. Checks[Min(F)] # "authorized"
    <3> DEFINE m == Min(F)
    <3>1. m \in 1..6
      BY <2>3, SMTT(60)
    <3> HIDE DEF m
    <3>2. Checks[m] # "authorized"
      BY <3>1, SMTT(60) DEF Checks
    <3> QED
      BY <3>2, SMTT(60) DEF m
  <2>5. authorize(r, t) = Checks[Min(Failed(r))]
    BY SMTT(60) DEF authorize
  <2> QED
    BY <2>4, <2>5, SMTT(60) DEF F
<1>3. r.notBefore <= t /\ t < r.expiresAt
  BY <1>0, <1>2, SMTT(60) DEF authorize
<1>4. \A c \in Check : c \notin r.defects
  <2> SUFFICES ASSUME NEW i \in 1..6 PROVE Checks[i] \notin r.defects
    BY <1>d, SMTT(60) DEF Check
  <2>1. i \notin Failed(r)
    BY <1>2, SMTT(60)
  <2>2. Checks[i] = "authority" => ~Malformed(r)
    BY <2>1, <1>d, SMTT(60) DEF Failed
  <2>3. Checks[i] # "authority" => Checks[i] \notin r.defects
    BY <2>1, <1>d, SMTT(60) DEF Failed
  <2> QED
    BY <2>2, <2>3, SMTT(60) DEF Malformed
<1> QED
  BY <1>0, <1>3, <1>4, SMTT(60) DEF Valid
\* Before the first command the files are empty and nothing was accepted.
LEMMA InitInv == Init => IInv
<1> SUFFICES ASSUME Init PROVE IInv
  BY SMTT(60)
<1>1. TypeOK
  <2>1. now \in Nat /\ during \subseteq Nat /\ invocations \in Nat
    BY AuthorityAssumption, SMTT(60) DEF Init
  <2>2. worker \in Worker
    BY SMTT(60) DEF Init, NoWorker, Worker
  <2>3. accepted \in [Request -> Nat] /\ performed \in [Request -> Nat]
    BY SMTT(60) DEF Init
  <2> QED
    BY <2>1, <2>2, <2>3, Zenon DEF Init, TypeOK
<1>2. StepInv
  BY SMTT(60) DEF Init, StepInv
<1>3. CreditInv
  BY AuthorityAssumption, SMTT(60) DEF Init, CreditInv, Weight, Executing
<1> QED
  BY <1>1, <1>2, <1>3, SMTT(60) DEF IInv, Init, OutcomeIsTruthful

\* Every step keeps the types.
LEMMA TypeStep == IInv /\ [Next]_vars => TypeOK'
<1> SUFFICES ASSUME TypeOK, StepInv, [Next]_vars PROVE TypeOK'
  BY SMTT(60) DEF IInv
<1>1. ASSUME NEW c \in {"attempt", "request"}, NEW r \in Request, run(c, r) PROVE TypeOK'
  <2>1. invocations' \in Nat /\ during' \subseteq Nat
    BY <1>1, SMTT(60) DEF run, TypeOK
  <2> QED
    BY <1>1, <2>1, Zenon DEF run, files, TypeOK
<1>2. CASE run("execute-pending", NoRequest)
  <2>1. invocations' \in Nat /\ during' \subseteq Nat
    BY <1>2, SMTT(60) DEF run, TypeOK
  <2> QED
    BY <1>2, <2>1, Zenon DEF run, files, TypeOK
<1>3. CASE Decide
  <2>1. accepted' \in [Request -> Nat]
    BY <1>3, SMTT(60) DEF Decide, TypeOK
  <2> QED
    BY <1>3, <2>1, SMTT(60) DEF Decide, Goto, Report, files, TypeOK
<1>4. CASE Lstat
  BY <1>4, SMTT(60) DEF Lstat, Goto, Report, files, history, TypeOK, StepInv, Worker
<1>5. CASE ReadPending
  BY <1>5, SMTT(60) DEF ReadPending, Report, files, history, TypeOK, StepInv, Worker
<1>6. CASE Consume
  BY <1>6, SMTT(60) DEF Consume, Goto, Report, history, TypeOK, StepInv, Worker
<1>7. CASE ExecutionDecision
  BY <1>7, SMTT(60) DEF ExecutionDecision, Goto, Report, files, history, TypeOK, StepInv, Worker
<1>8. CASE OpenTmp
  <2>1. tmp' \subseteq {"pending", "worker"}
    BY <1>8, ZenonT(120) DEF OpenTmp, Target, TypeOK
  <2> QED
    BY <1>8, <2>1, SMTT(60) DEF OpenTmp, Goto, Report, history, TypeOK
<1>9. CASE WriteFails
  BY <1>9, ZenonT(120) DEF WriteFails, Report, history, TypeOK, StepInv, Worker
<1>10. CASE Rename
  <2>1. tmp' \subseteq {"pending", "worker"} /\ req \in Request
    BY <1>10, SMTT(60) DEF Rename, Target, TypeOK, StepInv
  <2>2. worker' \in Worker
    BY <1>10, <2>1, SMTT(60) DEF Rename, TypeOK, Worker
  <2>3. accepted' \in [Request -> Nat] /\ performed' \in [Request -> Nat]
    BY <1>10, <2>1, SMTT(60) DEF Rename, TypeOK
  <2> QED
    BY <1>10, <2>1, <2>2, <2>3, ZenonT(120) DEF Rename, Goto, TypeOK
<1>11. CASE SyncDirectory
  BY <1>11, SMTT(60) DEF SyncDirectory, Report, files, history, TypeOK, StepInv, Worker
<1>12. CASE Kill
  BY <1>12, SMTT(60) DEF Kill, Report, files, history, TypeOK, StepInv, Worker
<1>13. CASE Tick
  BY <1>13, SMTT(60) DEF Tick, files, command, TypeOK, StepInv, Worker
<1>14. CASE ClockSet
  BY <1>14, SMTT(60) DEF ClockSet, files, command, history, TypeOK, StepInv, Worker
<1>15. CASE UNCHANGED vars
  BY <1>15, SMTT(60) DEF vars, files, command, history, TypeOK, StepInv, Worker
<1> QED
  BY <1>1, <1>2, <1>3, <1>4, <1>5, <1>6, <1>7, <1>8, <1>9, <1>10, <1>11,
     <1>12, <1>13, <1>14, <1>15, SMTT(60) DEF Next

\* Every step keeps the files and the command consistent.
LEMMA StepStep == IInv /\ [Next]_vars => StepInv'
<1> SUFFICES ASSUME TypeOK, StepInv, [Next]_vars PROVE StepInv'
  BY SMTT(60) DEF IInv
<1>1. ASSUME NEW c \in {"attempt", "request"}, NEW r \in Request, run(c, r) PROVE StepInv'
  BY <1>1, SMTT(60) DEF run, files, TypeOK, StepInv, Target
<1>2. CASE run("execute-pending", NoRequest)
  BY <1>2, SMTT(60) DEF run, files, TypeOK, StepInv, Target
<1>3. CASE Decide
  <2>1. CASE authorize(req, now) # "authorized"
    BY <1>3, <2>1, SMTT(60) DEF Decide, Report, files, TypeOK, StepInv, Target
  <2>2. CASE authorize(req, now) = "authorized"
    BY <1>3, <2>2, SMTT(60) DEF Decide, Goto, files, TypeOK, StepInv, Target
  <2> QED
    BY <2>1, <2>2, SMTT(60)
<1>4. CASE Lstat
  BY <1>4, SMTT(60) DEF Lstat, Goto, Report, files, history, TypeOK, StepInv, Target
<1>5. CASE ReadPending
  BY <1>5, SMTT(60) DEF ReadPending, Report, files, history, TypeOK, StepInv, Target
<1>6. CASE Consume
  BY <1>6, SMTT(60) DEF Consume, Goto, Report, history, TypeOK, StepInv, Target
<1>7. CASE ExecutionDecision
  <2>1. CASE pc' = "open"
    <3>1. req \in Request /\ now \in Nat /\ now \in during
      BY <1>7, SMTT(60) DEF ExecutionDecision, TypeOK, StepInv
    <3>2. authorize(req, now) = "authorized"
      BY <1>7, <2>1, SMTT(60) DEF ExecutionDecision, Report
    <3>3. \E t \in during : Valid(req, t)
      BY <3>1, <3>2, AuthorizedIsValid, SMTT(60)
    <3> QED
      BY <1>7, <2>1, <3>3, SMTT(60) DEF ExecutionDecision, Goto, Report, files, history, TypeOK,
         StepInv,
                               Target, Valid
  <2>2. CASE pc' = "idle"
    BY <1>7, <2>2, SMTT(60) DEF ExecutionDecision, Goto, Report, files, history, TypeOK, StepInv,
       Target
  <2> QED
    BY <1>7, <2>1, <2>2, SMTT(60) DEF ExecutionDecision, Goto, Report
<1>8. CASE OpenTmp
  BY <1>8, ZenonT(120) DEF OpenTmp, Goto, Report, history, TypeOK, StepInv, Target
<1>9. CASE WriteFails
  BY <1>9, SMTT(60) DEF WriteFails, Report, history, TypeOK, StepInv, Target
<1>10. CASE Rename
  BY <1>10, ZenonT(120) DEF Rename, Goto, TypeOK, StepInv, Target
<1>11. CASE SyncDirectory
  BY <1>11, SMTT(60) DEF SyncDirectory, Report, files, history, TypeOK, StepInv, Target
<1>12. CASE Kill
  BY <1>12, SMTT(60) DEF Kill, Report, files, history, TypeOK, StepInv, Target
<1>13. CASE Tick
  BY <1>13, SMTT(60) DEF Tick, files, command, TypeOK, StepInv, Target
<1>14. CASE ClockSet
  BY <1>14, SMTT(60) DEF ClockSet, files, command, history, TypeOK, StepInv, Target
<1>15. CASE UNCHANGED vars
  BY <1>15, SMTT(60) DEF vars, files, command, history, TypeOK, StepInv, Target
<1> QED
  BY <1>1, <1>2, <1>3, <1>4, <1>5, <1>6, <1>7, <1>8, <1>9, <1>10, <1>11,
     <1>12, <1>13, <1>14, <1>15, SMTT(60) DEF Next

\* No step spends an acceptance twice.
LEMMA CreditStep == IInv /\ [Next]_vars => CreditInv'
<1> USE SMTT(60)
<1> SUFFICES ASSUME TypeOK, StepInv, CreditInv, [Next]_vars PROVE CreditInv'
  BY DEF IInv
<1>1. ASSUME NEW c \in {"attempt", "request"}, NEW r \in Request, run(c, r) PROVE CreditInv'
  BY <1>1 DEF run, files, TypeOK, StepInv, CreditInv, Weight, Executing
<1>2. CASE run("execute-pending", NoRequest)
  BY <1>2 DEF run, files, TypeOK, StepInv, CreditInv, Weight, Executing
<1>3. CASE Decide
  <2>1. CASE authorize(req, now) # "authorized"
    BY <1>3, <2>1 DEF Decide, Report, files, TypeOK, StepInv, CreditInv, Weight, Executing
  <2>2. CASE authorize(req, now) = "authorized"
    BY <1>3, <2>2 DEF Decide, Goto, files, TypeOK, StepInv, CreditInv, Weight, Executing
  <2> QED
    BY <2>1, <2>2
<1>4. CASE Lstat
  BY <1>4 DEF Lstat, Goto, Report, files, history, TypeOK, StepInv,
              CreditInv, Weight, Executing
<1>5. CASE ReadPending
  BY <1>5 DEF ReadPending, Report, files, history, TypeOK, StepInv,
              CreditInv, Weight, Executing
<1>6. CASE Consume
  BY <1>6, AuthorityAssumption
     DEF Consume, Goto, Report, history, TypeOK, StepInv, CreditInv, Weight, Executing
<1>7. CASE ExecutionDecision
  BY <1>7 DEF ExecutionDecision, Goto, Report, files, history, TypeOK, StepInv,
              CreditInv, Weight, Executing
<1>8. CASE OpenTmp
  BY <1>8 DEF OpenTmp, Goto, Report, history, TypeOK, StepInv, CreditInv, Weight, Executing
<1>9. CASE WriteFails
  BY <1>9 DEF WriteFails, Report, history, TypeOK, StepInv, CreditInv, Weight, Executing
<1>10. CASE Rename
  BY <1>10 DEF Rename, Goto, TypeOK, StepInv, CreditInv, Weight, Executing
<1>11. CASE SyncDirectory
  BY <1>11 DEF SyncDirectory, Report, files, history, TypeOK, StepInv,
              CreditInv, Weight, Executing
<1>12. CASE Kill
  BY <1>12 DEF Kill, Report, files, history, TypeOK, StepInv, CreditInv, Weight, Executing
<1>13. CASE Tick
  BY <1>13 DEF Tick, files, command, TypeOK, StepInv, CreditInv, Weight, Executing
<1>14. CASE ClockSet
  BY <1>14 DEF ClockSet, files, command, history, TypeOK, StepInv, CreditInv, Weight, Executing
<1>15. CASE UNCHANGED vars
  BY <1>15 DEF vars, files, command, history, TypeOK, StepInv, CreditInv, Weight, Executing
<1> QED
  BY <1>1, <1>2, <1>3, <1>4, <1>5, <1>6, <1>7, <1>8, <1>9, <1>10, <1>11,
     <1>12, <1>13, <1>14, <1>15 DEF Next

\* A report agrees with what the command did.
LEMMA OutcomeStep == IInv /\ [Next]_vars => OutcomeIsTruthful'
<1> SUFFICES ASSUME TypeOK, StepInv, OutcomeIsTruthful, [Next]_vars PROVE OutcomeIsTruthful'
  BY SMTT(60) DEF IInv
<1>1. ASSUME NEW c \in {"attempt", "request"}, NEW r \in Request, run(c, r) PROVE OutcomeIsTruthful'
  BY <1>1, SMTT(60) DEF run, files, StepInv, OutcomeIsTruthful
<1>2. CASE run("execute-pending", NoRequest)
  BY <1>2, SMTT(60) DEF run, files, StepInv, OutcomeIsTruthful
<1>3. CASE Decide
  BY <1>3, SMTT(60) DEF Decide, Goto, Report, StepInv, OutcomeIsTruthful
<1>4. CASE Lstat
  BY <1>4, SMTT(60) DEF Lstat, Goto, Report, files, history, StepInv, OutcomeIsTruthful
<1>5. CASE ReadPending
  BY <1>5, SMTT(60) DEF ReadPending, Report, files, history, StepInv, OutcomeIsTruthful
<1>6. CASE Consume
  BY <1>6, SMTT(60) DEF Consume, Goto, Report, history, StepInv, OutcomeIsTruthful
<1>7. CASE ExecutionDecision
  BY <1>7, SMTT(60) DEF ExecutionDecision, Goto, Report, files, history, StepInv,
     OutcomeIsTruthful
<1>8. CASE OpenTmp
  BY <1>8, SMTT(60) DEF OpenTmp, Goto, Report, history, StepInv, OutcomeIsTruthful
<1>9. CASE WriteFails
  BY <1>9, SMTT(60) DEF WriteFails, Report, history, StepInv, OutcomeIsTruthful
<1>10. CASE Rename
  BY <1>10, SMTT(60) DEF Rename, Goto, StepInv, OutcomeIsTruthful
<1>11. CASE SyncDirectory
  BY <1>11, ZenonT(120) DEF SyncDirectory, Report, files, history, StepInv, OutcomeIsTruthful
<1>12. CASE Kill
  BY <1>12, SMTT(60) DEF Kill, Report, files, history, StepInv, OutcomeIsTruthful
<1>13. CASE Tick
  BY <1>13, SMTT(60) DEF Tick, files, command, StepInv, OutcomeIsTruthful
<1>14. CASE ClockSet
  BY <1>14, SMTT(60) DEF ClockSet, files, command, history, StepInv, OutcomeIsTruthful
<1>15. CASE UNCHANGED vars
  BY <1>15, SMTT(60) DEF vars, files, command, history, StepInv, OutcomeIsTruthful
<1> QED
  BY <1>1, <1>2, <1>3, <1>4, <1>5, <1>6, <1>7, <1>8, <1>9, <1>10, <1>11,
     <1>12, <1>13, <1>14, <1>15, SMTT(60) DEF Next

\* The inductive invariant holds for every set of requests and every bound.
THEOREM Invariance == Spec => []IInv
<1>1. IInv /\ [Next]_vars => IInv'
  BY TypeStep, StepStep, CreditStep, OutcomeStep, SMTT(60) DEF IInv
<1> QED
  BY InitInv, <1>1, PTL DEF Spec

\* An accepted request restarts the worker at most once, wherever commands are killed.
THEOREM ExecutedAtMostOnce == Spec => []AtMostOnce
<1>1. IInv => AtMostOnce
  <2> SUFFICES ASSUME IInv, NEW r \in Request PROVE performed[r] <= accepted[r]
    BY SMTT(60) DEF AtMostOnce
  <2> QED
    BY SMTT(60) DEF IInv, TypeOK, CreditInv, Weight
<1> QED
  BY Invariance, <1>1, PTL

\* What a command reports about the restart is what happened.
THEOREM ReportsTruth == Spec => []OutcomeIsTruthful
<1>1. IInv => OutcomeIsTruthful
  BY SMTT(60) DEF IInv
<1> QED
  BY Invariance, <1>1, PTL

\* A leftover stays: no step of a later command removes it.
LEMMA LeftoverStep == IInv /\ [Next]_vars => LeftBehind \subseteq LeftBehind'
<1> SUFFICES ASSUME TypeOK, StepInv, [Next]_vars, NEW f \in LeftBehind PROVE f \in LeftBehind'
  BY ZenonT(120) DEF IInv
<1>0. f \in tmp /\ ~(pc = "rename" /\ f = Target)
  BY ZenonT(120) DEF LeftBehind
<1>1. CASE pc # "rename" /\ tmp' = tmp /\ pc' # "rename"
  BY <1>0, <1>1, ZenonT(120) DEF LeftBehind
<1>2. CASE OpenTmp
  BY <1>0, <1>2, ZenonT(120) DEF OpenTmp, Report, Goto, Target, LeftBehind
<1>3. CASE WriteFails
  BY <1>0, <1>3, ZenonT(120) DEF WriteFails, Report, Target, LeftBehind
<1>4. CASE Rename
  BY <1>0, <1>4, ZenonT(120) DEF Rename, Goto, Target, LeftBehind
<1>5. CASE Kill
  BY <1>0, <1>5, ZenonT(120) DEF Kill, Report, files, LeftBehind
<1>6. CASE Tick \/ UNCHANGED vars
  BY <1>0, <1>6, ZenonT(120) DEF Tick, vars, files, command, Target, LeftBehind
<1>7. \/ OpenTmp \/ WriteFails \/ Rename \/ Kill \/ Tick \/ UNCHANGED vars
      \/ pc # "rename" /\ tmp' = tmp /\ pc' # "rename"
  BY SMTT(60) DEF Next, files, command, Report, Goto, run, Decide, Lstat, ReadPending, Consume,
         ExecutionDecision, SyncDirectory, ClockSet
<1> QED
  BY <1>1, <1>2, <1>3, <1>4, <1>5, <1>6, <1>7, ZenonT(120)

\* A temporary file left behind is never taken over, and blocks every later write.
THEOREM LeftoverIsSafe == Spec => LeftoverBlocks
<1> DEFINE W == "worker" \in LeftBehind =>
                  worker' = worker /\ (result' = "performed" => result = "performed")
           P == "pending" \in LeftBehind =>
                  /\ pending' \in {pending, NoRequest}
                  /\ result' = "accepted" => result = "accepted"
<1>1. IInv /\ [Next]_vars => W
  <2> SUFFICES ASSUME TypeOK, StepInv, [Next]_vars, "worker" \in LeftBehind,
                      ~(worker' = worker /\ (result' = "performed" => result = "performed"))
               PROVE  FALSE
    BY ZenonT(120) DEF IInv
  <2>1. (Rename \/ SyncDirectory) /\ cmd # "request"
    BY SMTT(60) DEF Next, vars, files, history, command, Report, Goto, run, Decide, Lstat,
           ReadPending, Consume, ExecutionDecision, OpenTmp, WriteFails, Rename, SyncDirectory,
           Kill, Tick, ClockSet
  <2> QED
    BY <2>1, ZenonT(120) DEF Rename, SyncDirectory, StepInv, LeftBehind, Target
<1>2. IInv /\ [Next]_vars => P
  <2> SUFFICES ASSUME TypeOK, StepInv, [Next]_vars, "pending" \in LeftBehind,
                      ~(/\ pending' \in {pending, NoRequest}
                        /\ result' = "accepted" => result = "accepted")
               PROVE  FALSE
    BY ZenonT(120) DEF IInv
  <2>1. (Rename \/ SyncDirectory) /\ cmd = "request"
    BY SMTT(60) DEF Next, vars, files, history, command, Report, Goto, run, Decide, Lstat,
           ReadPending, Consume, ExecutionDecision, OpenTmp, WriteFails, Rename, SyncDirectory,
           Kill, Tick, ClockSet
  <2> QED
    BY <2>1, ZenonT(120) DEF Rename, SyncDirectory, StepInv, LeftBehind, Target
<1>3. IInv /\ [Next]_vars => [LeftBehind \subseteq LeftBehind' /\ W /\ P]_vars
  BY LeftoverStep, <1>1, <1>2, ZenonT(120)
<1> QED
  BY Invariance, <1>3, PTL DEF Spec, LeftoverBlocks

\* Every restart of the worker was authorized within the command that performs it.
THEOREM RestartIsAuthorized == Spec => EffectIsAuthorized
<1> DEFINE A == performed' # performed => \E t \in during : Valid(req, t)
<1>1. IInv /\ [Next]_vars => [A]_vars
  <2> SUFFICES ASSUME IInv, [Next]_vars, performed' # performed
               PROVE  \E t \in during : Valid(req, t)
    BY ZenonT(120) DEF vars
  <2>1. Rename /\ cmd # "request"
    BY SMTT(60) DEF Next, vars, files, history, command, run, Decide, Lstat, ReadPending, Consume,
           ExecutionDecision, OpenTmp, WriteFails, Rename, SyncDirectory, Kill, Tick, ClockSet
  <2> QED
    BY <2>1, SMTT(60) DEF IInv, StepInv, Rename
<1> QED
  BY Invariance, <1>1, PTL DEF Spec, EffectIsAuthorized

\* A pending request is removed by execute-pending and never overwritten.
THEOREM PendingSafe == Spec => PendingIsKept
<1> DEFINE A == pending # NoRequest /\ pending' # pending =>
                  cmd = "execute-pending" /\ pending' = NoRequest
<1>1. IInv /\ [Next]_vars => [A]_vars
  <2> SUFFICES ASSUME IInv, [Next]_vars, pending # NoRequest, pending' # pending
               PROVE  cmd = "execute-pending" /\ pending' = NoRequest
    BY ZenonT(120) DEF vars
  <2>1. Consume \/ (Rename /\ cmd = "request")
    BY SMTT(60) DEF Next, vars, files, history, command, run, Decide, Lstat, ReadPending, Consume,
           ExecutionDecision, OpenTmp, WriteFails, Rename, SyncDirectory, Kill, Tick, ClockSet
  <2> QED
    BY <2>1, SMTT(60) DEF IInv, StepInv, Consume, Rename
<1> QED
  BY Invariance, <1>1, PTL DEF Spec, PendingIsKept
=============================================================================
