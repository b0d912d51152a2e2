--------------------------- MODULE IncidentProofs ---------------------------
(***************************************************************************)
(* The demo's restart ledger for any number of clients, authorities,       *)
(* workers and connections.  A step changes the entries of one client;     *)
(* most leave the tables alone, and for those KeptRows carries everything  *)
(* that is said about records.                                             *)
(***************************************************************************)
EXTENDS Incident, FiniteSetTheorems, TLAPS

Ended == {"final", "done", "error"}
Same(d) == UNCHANGED <<pc[d], sel[d], t0[d], t1[d], first[d], second[d], snap[d], out[d]>>

\* Evaluate returns an authorization or one of the denials of a check.
LEMMA EvaluateType ==
  ASSUME NEW t, NEW time, NEW w
  PROVE  Evaluate(t, time, w) \in CheckDenial \cup {"AUTHORIZED"}
BY ZenonT(120) DEF Evaluate, CheckDenial

\* An authorization implies every condition that Evaluate looks at.
LEMMA EvaluateAuthorized ==
  ASSUME NEW t \in Tokens, NEW time \in Times, NEW w, Evaluate(t, time, w) = "AUTHORIZED"
  PROVE  t.form = "signed" /\ t.subject /\ t.scope /\ t.resource = w /\ InForce(t, time)
<1>1. t \in Token
  BY IncidentAssumption, ZenonT(120)
<1>2. t.form \in {"signed", "forged", "malformed"} /\ t.nbf \in Nat /\ t.exp \in Nat /\ time \in Nat
  BY <1>1, IncidentAssumption, SMTT(60) DEF Token, Times
<1> QED BY <1>2, SMTT(60) DEF Evaluate, InForce

\* The initial state satisfies the invariant.
LEMMA InitIInv == Init => IInv
<1> SUFFICES ASSUME Init PROVE IInv
  BY ZenonT(120)
<1> USE IncidentAssumption DEF Init
<1>1. TypeOK
  BY SMTT(60) DEF TypeOK, Reading, InTx, Holding, Decision, NoAnswer, Times
<1>2. TxInv
  BY ZenonT(120) DEF TxInv, TxOf, Apart, Holding, Consumed, Replayed
<1>3. CheckInv
  BY ZenonT(120) DEF CheckInv, CheckOf, InTx, Holding
<1>4. PaidInv /\ RowInv
  BY FS_EmptySet, ZenonT(120) DEF PaidInv, RowInv, Effects
<1>5. OutInv
  BY ZenonT(120) DEF OutInv, OutOf, Answered, NoAnswer
<1>6. LedgerBalances
  <2>1. \A w \in Workers : {r \in Effects : r.resource = w} = {}
    BY ZenonT(120) DEF Effects
  <2>2. Effects = {}
    BY ZenonT(120) DEF Effects
  <2>3. \A w \in Workers : count[w] = Cardinality({r \in Effects : r.resource = w})
    BY <2>1, FS_EmptySet, ZenonT(120)
  <2> QED BY <2>2, <2>3, ZenonT(120) DEF LedgerBalances
<1> QED BY <1>1, <1>2, <1>3, <1>4, <1>5, <1>6, ZenonT(120) DEF IInv

\* A step that leaves the tables alone, and the entries of clients with records.
LEMMA KeptRows ==
  ASSUME IInv, UNCHANGED <<token, count, used, audit>>,
         \A d \in Clients : pc[d] \in Ended =>
           /\ pc'[d] \in Ended /\ sel'[d] = sel[d] /\ out'[d] = out[d]
           /\ t0'[d] = t0[d] /\ t1'[d] = t1[d]
  PROVE  PaidInv' /\ RowInv' /\ LedgerBalances'
<1>1. \A r \in audit : r.client \in Clients /\ pc[r.client] \in Ended
  BY ZenonT(120) DEF IInv, TypeOK, AuditRow, RowInv, Ended
<1>2. Effects' = Effects /\ \A r \in Effects : r \in audit
  BY ZenonT(120) DEF Effects
<1>3. PaidInv'
  BY <1>1, <1>2, ZenonT(120) DEF IInv, PaidInv, BothPassed, Passed
<1>4. RowInv'
  BY <1>1, <1>2, SMTT(60), Z3T(60) DEF IInv, RowInv, Ended, Jti
<1>5. LedgerBalances'
  <2>1. LedgerBalances
    BY ZenonT(120) DEF IInv
  <2> QED BY <1>2, <2>1, ZenonT(120) DEF LedgerBalances, Jti
<1> QED BY <1>3, <1>4, <1>5, ZenonT(120)

\* A step of one client's that leaves the tables alone: the others' entries stay, so
\* that the client's own conjuncts and its distance from the others are all there is
\* to show.
LEMMA LocalStep ==
  ASSUME IInv, NEW c \in Clients, TypeOK', UNCHANGED <<token, count, used, audit>>,
         \A d \in Clients \ {c} : Same(d) /\ Apart(c, d)',
         pc[c] \in Ended => pc'[c] \in Ended /\ UNCHANGED <<sel[c], out[c], t0[c], t1[c]>>,
         TxOf(c)', CheckOf(c)', OutOf(c)'
  PROVE  IInv'
<1>1. PaidInv' /\ RowInv' /\ LedgerBalances'
  BY KeptRows, ZenonT(120) DEF Same
<1>2. ASSUME NEW d \in Clients PROVE TxOf(d)' /\ CheckOf(d)' /\ OutOf(d)'
  <2>1. CASE d = c
    BY <2>1, ZenonT(120)
  <2>2. CASE d # c
    <3>1. TxOf(d) /\ CheckOf(d) /\ OutOf(d) /\ Same(d)
      BY <2>2, ZenonT(120) DEF IInv, TxInv, CheckInv, OutInv
    <3>2. TxOf(d)'
      BY <3>1, ZenonT(120) DEF Same, TxOf, Jti
    <3>3. CheckOf(d)'
      BY <3>1, ZenonT(120) DEF Same, CheckOf, BothPassed, Passed, Denial
    <3>4. OutOf(d)'
      BY <3>1, ZenonT(120) DEF Same, OutOf, Answered, Row
    <3> QED BY <3>2, <3>3, <3>4, ZenonT(120)
  <2> QED BY <2>1, <2>2, ZenonT(120)
<1>3. ASSUME NEW d \in Clients, NEW e \in Clients \ {d} PROVE Apart(d, e)'
  <2>1. Apart(d, e) /\ Apart(e, d)
    BY ZenonT(120) DEF IInv, TxInv
  <2>2. CASE d # c /\ e # c
    BY <2>1, <2>2, ZenonT(120) DEF Same, Apart, Jti
  <2>3. CASE d = c \/ e = c
    <3>1. (d = c => Apart(c, e)') /\ (e = c => Apart(c, d)')
      BY ZenonT(120)
    <3> QED BY <2>3, <3>1, ZenonT(120) DEF Apart
  <2> QED BY <2>2, <2>3, ZenonT(120)
<1> QED BY <1>1, <1>2, <1>3, ZenonT(120) DEF IInv, TxInv, CheckInv, OutInv

\* The passes of agent.Run and the two checks of worker_restart, up to the transaction.
LEMMA WorkflowStep ==
  ASSUME IInv, NEW c \in Clients,
         List(c) \/ Inspect(c) \/ Status(c) \/ Check(c) \/ ReadBefore(c) \/ Execute(c) \/ Reread(c) \/ Final(c) \/ Fails(c)
  PROVE  IInv'
<1>1. TypeOK /\ TxOf(c) /\ CheckOf(c) /\ OutOf(c) /\ \A d \in Clients \ {c} : Apart(c, d)
  BY ZenonT(120) DEF IInv, TxInv, CheckInv, OutInv
<1>2. /\ DOMAIN pc = Clients /\ DOMAIN sel = Clients /\ DOMAIN t0 = Clients /\ DOMAIN t1 = Clients
      /\ DOMAIN first = Clients /\ DOMAIN second = Clients /\ DOMAIN snap = Clients /\ DOMAIN out = Clients
  BY <1>1, ZenonT(120) DEF TypeOK
<1>3. CASE List(c)
  <2>1. TypeOK'
    BY <1>1, <1>3, ZenonT(120) DEF List, Goto, Statement, tables, input, checks, TypeOK, TxOf,
       Reading, InTx,
       Holding, Decision
  <2>2. UNCHANGED <<token, count, used, audit>> /\ \A d \in Clients \ {c} : Same(d)
    BY <1>2, <1>3, ZenonT(120) DEF List, Goto, Statement, Same, tables, input, checks
  <2>3. /\ pc[c] = "list" /\ pc'[c] \in {"inspect", "done"}
        /\ UNCHANGED <<sel[c], t0[c], t1[c], first[c], second[c], snap[c], out[c]>>
    BY <1>2, <1>3, ZenonT(120) DEF List, Goto, Statement, tables, input, checks
  <2>4. \A d \in Clients \ {c} : Apart(c, d)'
    BY <1>1, <2>2, <2>3, ZenonT(120) DEF Same, Apart, Holding, Consumed, Jti
  <2>5. TxOf(c)'
    BY <1>1, <2>2, <2>3, ZenonT(120) DEF TxOf, Holding, Consumed, Replayed, Jti
  <2>6. CheckOf(c)'
    BY <1>1, <2>2, <2>3, ZenonT(120) DEF CheckOf, InTx, Holding, BothPassed, Passed, Denial
  <2>7. OutOf(c)'
    BY <1>1, <2>2, <2>3, ZenonT(120) DEF OutOf, Answered, Row
  <2> QED BY <2>1, <2>2, <2>3, <2>4, <2>5, <2>6, <2>7, LocalStep, ZenonT(120) DEF Ended
<1>4. CASE Inspect(c)
  <2>1. TypeOK'
    <3>1. CASE Unhealthy = {} /\ Goto(c, "done") /\ UNCHANGED sel
      BY <1>1, <1>4, <3>1, ZenonT(120) DEF Inspect, Goto, tables, input, checks, TypeOK
    <3>2. ASSUME NEW w \in Unhealthy, Goto(c, "status"), sel' = [sel EXCEPT ![c] = w]
          PROVE  TypeOK'
      BY <1>1, <1>4, <3>2, ZenonT(120) DEF Inspect, Goto, Unhealthy, tables, input, checks,
         TypeOK, Reading
    <3> QED BY <1>4, <3>1, <3>2, ZenonT(120) DEF Inspect
  <2>2. UNCHANGED <<token, count, used, audit>> /\ \A d \in Clients \ {c} : Same(d)
    BY <1>2, <1>4, ZenonT(120) DEF Inspect, Goto, Statement, Unhealthy, Same, tables, input,
       checks
  <2>3. /\ pc[c] = "inspect" /\ pc'[c] \in {"status", "done"}
        /\ UNCHANGED <<t0[c], t1[c], first[c], second[c], snap[c], out[c]>>
        /\ pc'[c] = "status" => sel'[c] \in Workers
    BY <1>2, <1>4, ZenonT(120) DEF Inspect, Goto, Statement, Unhealthy, tables, input, checks
  <2>4. \A d \in Clients \ {c} : Apart(c, d)'
    BY <1>1, <2>2, <2>3, ZenonT(120) DEF Same, Apart, Holding, Consumed, Jti
  <2>5. TxOf(c)'
    BY <1>1, <2>2, <2>3, ZenonT(120) DEF TxOf, Holding, Consumed, Replayed, Jti
  <2>6. CheckOf(c)'
    BY <1>1, <2>2, <2>3, ZenonT(120) DEF CheckOf, InTx, Holding, BothPassed, Passed, Denial
  <2>7. OutOf(c)'
    BY <1>1, <2>2, <2>3, ZenonT(120) DEF OutOf, Answered, Row
  <2> QED BY <2>1, <2>2, <2>3, <2>4, <2>5, <2>6, <2>7, LocalStep, ZenonT(120) DEF Ended
<1>5. CASE Status(c)
  <2>1. TypeOK'
    BY <1>1, <1>5, ZenonT(120) DEF Status, Goto, Statement, tables, input, checks, TypeOK, TxOf,
       Reading, InTx,
       Holding, Decision
  <2>2. UNCHANGED <<token, count, used, audit>> /\ \A d \in Clients \ {c} : Same(d)
    BY <1>2, <1>5, ZenonT(120) DEF Status, Goto, Statement, Same, tables, input, checks
  <2>3. /\ pc[c] = "status" /\ pc'[c] \in {"check", "done"}
        /\ UNCHANGED <<sel[c], t0[c], t1[c], first[c], second[c], snap[c], out[c]>>
    BY <1>2, <1>5, ZenonT(120) DEF Status, Goto, Statement, tables, input, checks
  <2>4. \A d \in Clients \ {c} : Apart(c, d)'
    BY <1>1, <2>2, <2>3, ZenonT(120) DEF Same, Apart, Holding, Consumed, Jti
  <2>5. TxOf(c)'
    BY <1>1, <2>2, <2>3, ZenonT(120) DEF TxOf, Holding, Consumed, Replayed, Jti
  <2>6. CheckOf(c)'
    BY <1>1, <2>2, <2>3, ZenonT(120) DEF CheckOf, InTx, Holding, BothPassed, Passed, Denial
  <2>7. OutOf(c)'
    BY <1>1, <2>2, <2>3, ZenonT(120) DEF OutOf, Answered, Row
  <2> QED BY <2>1, <2>2, <2>3, <2>4, <2>5, <2>6, <2>7, LocalStep, ZenonT(120) DEF Ended
<1>6. CASE Check(c)
  <2>1. TypeOK'
    BY <1>1, <1>6, EvaluateType, SMTT(60) DEF Check, Goto, tables, input, checks, TypeOK, TxOf,
       Reading,
       InTx, Holding, Decision
  <2>2. UNCHANGED <<token, count, used, audit>> /\ \A d \in Clients \ {c} : Same(d)
    BY <1>2, <1>6, ZenonT(120) DEF Check, Goto, Same, tables, input, checks
  <2>3. /\ pc[c] = "check" /\ pc'[c] = "before"
        /\ UNCHANGED <<sel[c], t1[c], second[c], snap[c], out[c]>>
        /\ t0'[c] = now /\ first'[c] = Evaluate(token[c], now, sel[c])
    BY <1>2, <1>6, ZenonT(120) DEF Check, Goto, tables, input, checks
  <2>4. \A d \in Clients \ {c} : Apart(c, d)'
    BY <1>1, <2>2, <2>3, ZenonT(120) DEF Same, Apart, Holding, Consumed, Jti
  <2>5. TxOf(c)'
    BY <1>1, <2>2, <2>3, ZenonT(120) DEF TxOf, Holding, Consumed, Replayed, Jti
  <2>6. CheckOf(c)'
    BY <1>1, <2>2, <2>3, EvaluateType, ZenonT(120) DEF CheckOf, InTx, Holding, BothPassed, Passed,
       Denial
  <2>7. OutOf(c)'
    BY <1>1, <2>2, <2>3, ZenonT(120) DEF OutOf, Answered, Row
  <2> QED BY <2>1, <2>2, <2>3, <2>4, <2>5, <2>6, <2>7, LocalStep, ZenonT(120) DEF Ended
<1>7. CASE ReadBefore(c)
  <2>1. TypeOK'
    BY <1>1, <1>7, ZenonT(120) DEF ReadBefore, Goto, Statement, Answer, tables, input, checks,
       TypeOK, TxOf,
       Reading, InTx, Holding, Decision
  <2>2. UNCHANGED <<token, count, used, audit>> /\ \A d \in Clients \ {c} : Same(d)
    BY <1>2, <1>7, ZenonT(120) DEF ReadBefore, Goto, Statement, Answer, Same, tables, input,
       checks
  <2>3. /\ pc[c] = "before" /\ pc'[c] = IF first[c] = "AUTHORIZED" THEN "delay" ELSE "deny"
        /\ UNCHANGED <<sel[c], t0[c], t1[c], first[c], second[c], snap[c]>>
        /\ out'[c].decision = "none" /\ ~out'[c].applied
    BY <1>2, <1>7, ZenonT(120) DEF ReadBefore, Goto, Statement, Answer, tables, input, checks
  <2>4. \A d \in Clients \ {c} : Apart(c, d)'
    BY <1>1, <2>2, <2>3, ZenonT(120) DEF Same, Apart, Holding, Consumed, Jti
  <2>5. TxOf(c)'
    BY <1>1, <2>2, <2>3, ZenonT(120) DEF TxOf, Holding, Consumed, Replayed, Jti
  <2>6. CheckOf(c)'
    BY <1>1, <2>2, <2>3, EvaluateType, SMTT(60) DEF CheckOf, InTx, Holding, BothPassed, Passed,
       Denial
  <2>7. OutOf(c)'
    BY <1>1, <2>2, <2>3, ZenonT(120) DEF OutOf, Answered, Row
  <2> QED BY <2>1, <2>2, <2>3, <2>4, <2>5, <2>6, <2>7, LocalStep, ZenonT(120) DEF Ended
<1>8. CASE Execute(c)
  <2>1. TypeOK'
    BY <1>1, <1>8, EvaluateType, SMTT(60) DEF Execute, Goto, tables, input, checks, TypeOK, TxOf,
       Reading,
       InTx, Holding, Decision
  <2>2. UNCHANGED <<token, count, used, audit>> /\ \A d \in Clients \ {c} : Same(d)
    BY <1>2, <1>8, ZenonT(120) DEF Execute, Goto, Same, tables, input, checks
  <2>3. /\ pc[c] = "delay" /\ pc'[c] = IF now < t0[c] THEN "error" ELSE IF second'[c] = "AUTHORIZED" THEN "begin" ELSE "reread"
        /\ UNCHANGED <<sel[c], t0[c], first[c], snap[c], out[c]>>
        /\ t1'[c] = now /\ second'[c] = Evaluate(token[c], now, sel[c])
    BY <1>2, <1>8, ZenonT(120) DEF Execute, Goto, tables, input, checks
  <2>4. \A d \in Clients \ {c} : Apart(c, d)'
    BY <1>1, <2>2, <2>3, ZenonT(120) DEF Same, Apart, Holding, Consumed, Jti
  <2>5. TxOf(c)'
    BY <1>1, <2>2, <2>3, ZenonT(120) DEF TxOf, Holding, Consumed, Replayed, Jti
  <2>6. CheckOf(c)'
    BY <1>1, <2>2, <2>3, EvaluateType, IncidentAssumption, SMTT(60) DEF CheckOf, InTx, Holding,
       BothPassed,
       Passed, Denial, TypeOK, Times
  <2>7. OutOf(c)'
    BY <1>1, <2>2, <2>3, ZenonT(120) DEF OutOf, Answered, Row
  <2> QED BY <2>1, <2>2, <2>3, <2>4, <2>5, <2>6, <2>7, LocalStep, ZenonT(120) DEF Ended
<1>9. CASE Reread(c)
  <2>1. TypeOK'
    <3>1. count[sel[c]] \in Nat
      BY <1>1, <1>9, ZenonT(120) DEF Reread, Statement, TypeOK, TxOf
    <3>2. out' \in [Clients -> [decision : Decision, applied : BOOLEAN, before : Nat, after : Nat]]
      BY <1>1, <1>9, <3>1, ZenonT(120) DEF Reread, TypeOK
    <3> QED BY <1>1, <1>9, <3>2, ZenonT(120) DEF Reread, Goto, tables, input, checks, TypeOK,
               Reading
  <2>2. UNCHANGED <<token, count, used, audit>> /\ \A d \in Clients \ {c} : Same(d)
    BY <1>2, <1>9, ZenonT(120) DEF Reread, Goto, Statement, Same, tables, input, checks
  <2>3. /\ pc[c] = "reread" /\ pc'[c] = "deny"
        /\ UNCHANGED <<sel[c], t0[c], t1[c], first[c], second[c], snap[c]>>
        /\ out'[c].decision = out[c].decision /\ out'[c].applied = out[c].applied
    BY <1>2, <1>9, SMTT(60) DEF Reread, Goto, Statement, tables, input, checks
  <2>4. \A d \in Clients \ {c} : Apart(c, d)'
    BY <1>1, <2>2, <2>3, ZenonT(120) DEF Same, Apart, Holding, Consumed, Jti
  <2>5. TxOf(c)'
    BY <1>1, <2>2, <2>3, ZenonT(120) DEF TxOf, Holding, Consumed, Replayed, Jti
  <2>6. CheckOf(c)'
    BY <1>1, <2>2, <2>3, ZenonT(120) DEF CheckOf, InTx, Holding, BothPassed, Passed, Denial
  <2>7. OutOf(c)'
    BY <1>1, <2>2, <2>3, ZenonT(120) DEF OutOf, Answered, Row
  <2> QED BY <2>1, <2>2, <2>3, <2>4, <2>5, <2>6, <2>7, LocalStep, ZenonT(120) DEF Ended
<1>10. CASE Final(c)
  <2>1. TypeOK'
    BY <1>1, <1>10, ZenonT(120) DEF Final, Goto, Statement, InTable, tables, input, checks,
       TypeOK, TxOf, Reading, InTx, Holding, Decision
  <2>2. UNCHANGED <<token, count, used, audit>> /\ \A d \in Clients \ {c} : Same(d)
    BY <1>2, <1>10, ZenonT(120) DEF Final, Goto, Statement, InTable, Same, tables, input, checks
  <2>3. /\ pc[c] = "final" /\ pc'[c] = "done"
        /\ UNCHANGED <<sel[c], t0[c], t1[c], first[c], second[c], snap[c], out[c]>>
    BY <1>2, <1>10, ZenonT(120) DEF Final, Goto, Statement, InTable, tables, input, checks
  <2>4. \A d \in Clients \ {c} : Apart(c, d)'
    BY <1>1, <2>2, <2>3, ZenonT(120) DEF Same, Apart, Holding, Consumed, Jti
  <2>5. TxOf(c)'
    BY <1>1, <2>2, <2>3, ZenonT(120) DEF TxOf, Holding, Consumed, Replayed, Jti
  <2>6. CheckOf(c)'
    BY <1>1, <2>2, <2>3, ZenonT(120) DEF CheckOf, InTx, Holding, BothPassed, Passed, Denial
  <2>7. OutOf(c)'
    BY <1>1, <2>2, <2>3, ZenonT(120) DEF OutOf, Answered, Row
  <2> QED BY <2>1, <2>2, <2>3, <2>4, <2>5, <2>6, <2>7, LocalStep, ZenonT(120) DEF Ended
<1>11. CASE Fails(c)
  <2>1. TypeOK'
    BY <1>1, <1>11, ZenonT(120) DEF Fails, Goto, InTable, tables, input, checks, TypeOK, TxOf,
       Reading, InTx,
       Holding, Decision
  <2>2. UNCHANGED <<token, count, used, audit>> /\ \A d \in Clients \ {c} : Same(d)
    BY <1>2, <1>11, ZenonT(120) DEF Fails, Goto, InTable, Same, tables, input, checks
  <2>3. /\ pc[c] \notin {"done", "error", "check"} /\ pc'[c] = "error"
        /\ UNCHANGED <<sel[c], t0[c], t1[c], first[c], second[c], snap[c], out[c]>>
    BY <1>2, <1>11, ZenonT(120) DEF Fails, Goto, Reading, InTx, Holding, InTable, tables, input,
       checks
  <2>4. \A d \in Clients \ {c} : Apart(c, d)'
    BY <1>1, <2>2, <2>3, ZenonT(120) DEF Same, Apart, Holding, Consumed, Jti
  <2>5. TxOf(c)'
    BY <1>1, <2>2, <2>3, ZenonT(120) DEF TxOf, Holding, Consumed, Replayed, Jti
  <2>6. CheckOf(c)'
    BY <1>1, <2>2, <2>3, ZenonT(120) DEF CheckOf, InTx, Holding, BothPassed, Passed, Denial
  <2>7. OutOf(c)'
    BY <1>1, <2>2, <2>3, ZenonT(120) DEF OutOf, Answered, Row
  <2> QED BY <2>1, <2>2, <2>3, <2>4, <2>5, <2>6, <2>7, LocalStep, ZenonT(120) DEF Ended
<1> QED BY <1>3, <1>4, <1>5, <1>6, <1>7, <1>8, <1>9, <1>10, <1>11, ZenonT(120)

\* The transaction's steps before its commit.
LEMMA TransactionStep ==
  ASSUME IInv, NEW c \in Clients,
         Begin(c) \/ Snapshot(c) \/ LockRow(c) \/ Consume(c) \/ Update(c) \/ InsertAudit(c)
  PROVE  IInv'
<1>1. TypeOK /\ TxOf(c) /\ CheckOf(c) /\ OutOf(c) /\ \A d \in Clients \ {c} : Apart(c, d)
  BY ZenonT(120) DEF IInv, TxInv, CheckInv, OutInv
<1>2. /\ DOMAIN pc = Clients /\ DOMAIN sel = Clients /\ DOMAIN t0 = Clients /\ DOMAIN t1 = Clients
      /\ DOMAIN first = Clients /\ DOMAIN second = Clients /\ DOMAIN snap = Clients /\ DOMAIN out = Clients
  BY <1>1, ZenonT(120) DEF TypeOK
<1>3. CASE Begin(c)
  <2>1. TypeOK'
    BY <1>1, <1>3, ZenonT(120) DEF Begin, Goto, Statement, InTable, tables, input, checks, TypeOK,
       TxOf,
       Reading, InTx, Holding, Decision
  <2>2. UNCHANGED <<token, count, used, audit>> /\ \A d \in Clients \ {c} : Same(d)
    BY <1>2, <1>3, ZenonT(120) DEF Begin, Goto, Statement, InTable, Same, tables, input, checks
  <2>3. /\ pc[c] = "begin" /\ pc'[c] = "snapshot"
        /\ UNCHANGED <<sel[c], t0[c], t1[c], first[c], second[c], snap[c], out[c]>>
    BY <1>2, <1>3, ZenonT(120) DEF Begin, Goto, Statement, InTable, tables, input, checks
  <2>4. \A d \in Clients \ {c} : Apart(c, d)'
    BY <1>1, <2>2, <2>3, ZenonT(120) DEF Same, Apart, Holding, Consumed, Jti
  <2>5. TxOf(c)'
    BY <1>1, <2>2, <2>3, ZenonT(120) DEF TxOf, Holding, Consumed, Replayed, Jti
  <2>6. CheckOf(c)'
    BY <1>1, <2>2, <2>3, ZenonT(120) DEF CheckOf, InTx, Holding, BothPassed, Passed, Denial
  <2>7. OutOf(c)'
    BY <1>1, <2>2, <2>3, ZenonT(120) DEF OutOf, Answered, Row
  <2> QED BY <2>1, <2>2, <2>3, <2>4, <2>5, <2>6, <2>7, LocalStep, ZenonT(120) DEF Ended
<1>4. CASE Snapshot(c)
  <2>1. TypeOK'
    BY <1>1, <1>4, ZenonT(120) DEF Snapshot, Goto, InTable, tables, input, checks, TypeOK, TxOf,
       Reading, InTx,
       Holding, Decision
  <2>2. UNCHANGED <<token, count, used, audit>> /\ \A d \in Clients \ {c} : Same(d)
    BY <1>2, <1>4, ZenonT(120) DEF Snapshot, Goto, InTable, Same, tables, input, checks
  <2>3. /\ pc[c] = "snapshot" /\ pc'[c] = "lock"
        /\ UNCHANGED <<sel[c], t0[c], t1[c], first[c], second[c], out[c]>>
        /\ snap'[c].used = used
    BY <1>2, <1>4, ZenonT(120) DEF Snapshot, Goto, InTable, tables, input, checks
  <2>4. \A d \in Clients \ {c} : Apart(c, d)'
    BY <1>1, <2>2, <2>3, ZenonT(120) DEF Same, Apart, Holding, Consumed, Jti
  <2>5. TxOf(c)'
    BY <1>1, <2>2, <2>3, ZenonT(120) DEF TxOf, Holding, Consumed, Replayed, Jti
  <2>6. CheckOf(c)'
    BY <1>1, <2>2, <2>3, ZenonT(120) DEF CheckOf, InTx, Holding, BothPassed, Passed, Denial
  <2>7. OutOf(c)'
    BY <1>1, <2>2, <2>3, ZenonT(120) DEF OutOf, Answered, Row
  <2> QED BY <2>1, <2>2, <2>3, <2>4, <2>5, <2>6, <2>7, LocalStep, ZenonT(120) DEF Ended
<1>5. CASE LockRow(c)
  <2>1. TypeOK'
    BY <1>1, <1>5, ZenonT(120) DEF LockRow, Goto, InTable, tables, input, checks, TypeOK, TxOf,
       Reading, InTx,
       Holding, Decision
  <2>2. UNCHANGED <<token, count, used, audit>> /\ \A d \in Clients \ {c} : Same(d)
    BY <1>2, <1>5, ZenonT(120) DEF LockRow, Goto, InTable, Same, tables, input, checks
  <2>3. /\ pc[c] = "lock" /\ pc'[c] = IF count[sel[c]] = snap[c].count THEN "consume" ELSE "error"
        /\ UNCHANGED <<sel[c], t0[c], t1[c], first[c], second[c], snap[c], out[c]>>
    BY <1>2, <1>5, ZenonT(120) DEF LockRow, Goto, InTable, tables, input, checks
  <2>4. \A d \in Clients \ {c} : Apart(c, d)'
    BY <1>1, <1>5, <2>2, <2>3, ZenonT(120) DEF LockRow, Same, Apart, Holding, Consumed, Jti
  <2>5. TxOf(c)'
    BY <1>1, <2>2, <2>3, ZenonT(120) DEF TxOf, Holding, Consumed, Replayed, Jti
  <2>6. CheckOf(c)'
    BY <1>1, <2>2, <2>3, ZenonT(120) DEF CheckOf, InTx, Holding, BothPassed, Passed, Denial
  <2>7. OutOf(c)'
    BY <1>1, <2>2, <2>3, ZenonT(120) DEF OutOf, Answered, Row
  <2> QED BY <2>1, <2>2, <2>3, <2>4, <2>5, <2>6, <2>7, LocalStep, ZenonT(120) DEF Ended
<1>6. CASE Consume(c)
  <2>1. TypeOK'
    BY <1>1, <1>6, ZenonT(120) DEF Consume, Goto, InTable, tables, input, checks, TypeOK, TxOf,
       Reading, InTx,
       Holding, Decision
  <2>2. UNCHANGED <<token, count, used, audit>> /\ \A d \in Clients \ {c} : Same(d)
    BY <1>2, <1>6, ZenonT(120) DEF Consume, Goto, InTable, Same, tables, input, checks
  <2>3. /\ pc[c] = "consume" /\ pc'[c] = IF Jti(c) \notin used THEN "update" ELSE IF Jti(c) \in snap[c].used THEN "replay" ELSE "error"
        /\ UNCHANGED <<sel[c], t0[c], t1[c], first[c], second[c], snap[c], out[c]>>
    BY <1>2, <1>6, ZenonT(120) DEF Consume, Goto, InTable, tables, input, checks
  <2>4. \A d \in Clients \ {c} : Apart(c, d)'
    BY <1>1, <1>6, <2>2, <2>3, ZenonT(120) DEF Consume, Same, Apart, Holding, Consumed, Jti
  <2>5. TxOf(c)'
    BY <1>1, <2>2, <2>3, ZenonT(120) DEF TxOf, Holding, Consumed, Replayed, Jti
  <2>6. CheckOf(c)'
    BY <1>1, <2>2, <2>3, ZenonT(120) DEF CheckOf, InTx, Holding, BothPassed, Passed, Denial
  <2>7. OutOf(c)'
    BY <1>1, <2>2, <2>3, ZenonT(120) DEF OutOf, Answered, Row
  <2> QED BY <2>1, <2>2, <2>3, <2>4, <2>5, <2>6, <2>7, LocalStep, ZenonT(120) DEF Ended
<1>7. CASE Update(c)
  <2>1. TypeOK'
    BY <1>1, <1>7, SMTT(60) DEF Update, Goto, InTable, Answer, tables, input, checks, TypeOK,
       TxOf, Reading,
       InTx, Holding, Decision
  <2>2. UNCHANGED <<token, count, used, audit>> /\ \A d \in Clients \ {c} : Same(d)
    BY <1>2, <1>7, ZenonT(120) DEF Update, Goto, InTable, Answer, Same, tables, input, checks
  <2>3. /\ pc[c] = "update" /\ pc'[c] = "audit"
        /\ UNCHANGED <<sel[c], t0[c], t1[c], first[c], second[c], snap[c]>>
        /\ out'[c].decision = "AUTHORIZED" /\ out'[c].applied /\ out'[c].before = snap[c].count /\ out'[c].after = count[sel[c]] + 1
    BY <1>2, <1>7, ZenonT(120) DEF Update, Goto, InTable, Answer, tables, input, checks
  <2>4. \A d \in Clients \ {c} : Apart(c, d)'
    BY <1>1, <2>2, <2>3, SMTT(60) DEF Same, Apart, Holding, Consumed, Jti
  <2>5. TxOf(c)'
    BY <1>1, <2>2, <2>3, ZenonT(120) DEF TxOf, Holding, Consumed, Replayed, Jti
  <2>6. CheckOf(c)'
    BY <1>1, <2>2, <2>3, ZenonT(120) DEF CheckOf, InTx, Holding, BothPassed, Passed, Denial
  <2>7. OutOf(c)'
    BY <1>1, <2>2, <2>3, ZenonT(120) DEF OutOf, Answered, Row, TxOf, Holding
  <2> QED BY <2>1, <2>2, <2>3, <2>4, <2>5, <2>6, <2>7, LocalStep, ZenonT(120) DEF Ended
<1>8. CASE InsertAudit(c)
  <2>1. TypeOK'
    <3>1. pc' \in [Clients -> Reading \cup InTx \cup {"check", "delay", "done", "error"}]
      BY <1>1, <1>8, ZenonT(120) DEF InsertAudit, Goto, TypeOK, InTx, Holding
    <3>2. snap[c].count \in Nat
      BY <1>1, ZenonT(120) DEF TypeOK
    <3>3. out' \in [Clients -> [decision : Decision, applied : BOOLEAN, before : Nat, after : Nat]]
      <4>1. /\ out \in [Clients -> [decision : Decision, applied : BOOLEAN, before : Nat, after : Nat]]
            /\ "DENY_REPLAYED_AUTHORITY" \in Decision
        BY <1>1, ZenonT(120) DEF TypeOK, Decision
      <4>2. \/ out' = out
            \/ out' = [out EXCEPT ![c] = [decision |-> "DENY_REPLAYED_AUTHORITY", applied |-> FALSE,
                                          before |-> snap[c].count, after |-> snap[c].count]]
        BY <1>8, ZenonT(120) DEF InsertAudit, Answer
      <4>3. FALSE \in BOOLEAN
        BY ZenonT(120)
      <4>4. [decision |-> "DENY_REPLAYED_AUTHORITY", applied |-> FALSE,
             before |-> snap[c].count, after |-> snap[c].count]
            \in [decision : Decision, applied : BOOLEAN, before : Nat, after : Nat]
        BY <3>2, <4>1, <4>3, ZenonT(120)
      <4> QED BY <4>1, <4>2, <4>4, ZenonT(120)
    <3> QED BY <1>1, <1>8, <3>1, <3>3, ZenonT(120) DEF InsertAudit, InTable, tables, input,
               checks, TypeOK
  <2>2. UNCHANGED <<token, count, used, audit>> /\ \A d \in Clients \ {c} : Same(d)
    BY <1>2, <1>8, ZenonT(120) DEF InsertAudit, Goto, InTable, Answer, Same, tables, input, checks
  <2>3. /\ pc[c] \in {"audit", "replay"} /\ pc'[c] = IF pc[c] = "audit" THEN "commit" ELSE "commitReplay"
        /\ UNCHANGED <<sel[c], t0[c], t1[c], first[c], second[c], snap[c]>>
        /\ (pc[c] = "audit" => out'[c] = out[c]) /\ (pc[c] = "replay" => out'[c].decision = "DENY_REPLAYED_AUTHORITY" /\ ~out'[c].applied)
    BY <1>2, <1>8, SMTT(60) DEF InsertAudit, Goto, InTable, Answer, tables, input, checks
  <2>4. \A d \in Clients \ {c} : Apart(c, d)'
    BY <1>1, <2>2, <2>3, ZenonT(120) DEF Same, Apart, Holding, Consumed, Jti
  <2>5. TxOf(c)'
    BY <1>1, <2>2, <2>3, ZenonT(120) DEF TxOf, Holding, Consumed, Replayed, Jti
  <2>6. CheckOf(c)'
    BY <1>1, <2>2, <2>3, ZenonT(120) DEF CheckOf, InTx, Holding, BothPassed, Passed, Denial
  <2>7. OutOf(c)'
    BY <1>1, <2>2, <2>3, ZenonT(120) DEF OutOf, Answered, Row, TxOf, Holding
  <2> QED BY <2>1, <2>2, <2>3, <2>4, <2>5, <2>6, <2>7, LocalStep, ZenonT(120) DEF Ended
<1> QED BY <1>3, <1>4, <1>5, <1>6, <1>7, <1>8, ZenonT(120)

\* A new record of a client that had none: what RowInv says of one record and of two.
LEMMA NewRow ==
  ASSUME IInv, NEW c \in Clients, pc[c] \in {"deny", "commit", "commitReplay"},
         NEW dec \in Decision, NEW eff \in BOOLEAN,
         audit' = audit \cup {Row(c, dec, eff)}
  PROVE  /\ Row(c, dec, eff) \in AuditRow /\ Row(c, dec, eff) \notin audit
         /\ \A r \in audit : r.client \in Clients /\ r.client # c
         /\ IsFiniteSet(audit')
<1>1. sel[c] \in Workers
  BY ZenonT(120) DEF IInv, TxInv, TxOf
<1>2. Row(c, dec, eff) \in AuditRow /\ Row(c, dec, eff).client = c
  BY <1>1, ZenonT(120) DEF Row, AuditRow
<1>3. \A r \in audit : r.client \in Clients /\ r.client # c
  BY ZenonT(120) DEF IInv, TypeOK, AuditRow, RowInv
<1>4. IsFiniteSet(audit')
  BY FS_AddElement, ZenonT(120) DEF IInv, RowInv
<1> QED BY <1>2, <1>3, <1>4, ZenonT(120)

\* A record without a side effect leaves the ledger as it is.
LEMMA DenialStep ==
  ASSUME IInv, NEW c \in Clients,
         Deny(c) \/ (Commit(c) /\ pc[c] = "commitReplay")
  PROVE  IInv'
<1> DEFINE dec == IF pc[c] = "deny" THEN Denial(c) ELSE "DENY_REPLAYED_AUTHORITY"
<1>1. pc[c] \in {"deny", "commitReplay"} /\ UNCHANGED <<now, token, critical, count, health, used, sel, t0, t1, first, second, snap>>
  BY ZenonT(120) DEF Deny, Statement, Commit, CommitReplayed, input, checks
<1>2. pc'[c] \in {"final", "error"} /\ \A d \in Clients \ {c} : pc'[d] = pc[d]
  BY ZenonT(120) DEF Deny, Commit, Goto, IInv, TypeOK
<1>3. audit' = audit \cup {Row(c, dec, FALSE)}
  BY ZenonT(120) DEF Deny, Statement, Commit, CommitReplayed
<1>4. dec \in CheckDenial \cup {"DENY_REPLAYED_AUTHORITY"}
  BY <1>1, ZenonT(120) DEF IInv, CheckInv, CheckOf
<1>5. /\ pc[c] = "deny" => out' = [out EXCEPT ![c].decision = dec]
      /\ pc[c] = "commitReplay" => out' = out
  BY ZenonT(120) DEF Deny, Statement, Commit
<1>6. /\ out' \in [Clients -> [decision : Decision, applied : BOOLEAN, before : Nat, after : Nat]]
      /\ out'[c].decision = dec /\ out'[c].applied = FALSE
      /\ \A d \in Clients \ {c} : out'[d] = out[d]
  <2>1. /\ out \in [Clients -> [decision : Decision, applied : BOOLEAN, before : Nat, after : Nat]]
        /\ dec \in Decision
    BY <1>4, ZenonT(120) DEF IInv, TypeOK, Decision
  <2>2. out[c].applied = FALSE
    BY <1>1, <2>1, ZenonT(120) DEF IInv, OutInv, OutOf
  <2>3. pc[c] = "commitReplay" => out[c].decision = dec
    BY ZenonT(120) DEF IInv, OutInv, OutOf
  <2> HIDE DEF dec
  <2>4. CASE pc[c] = "deny"
    BY <1>5, <2>1, <2>2, <2>4, ZenonT(120)
  <2>5. CASE pc[c] = "commitReplay"
    BY <1>5, <2>1, <2>2, <2>3, <2>5, ZenonT(120)
  <2> QED BY <1>1, <2>4, <2>5, ZenonT(120)
<1>7. dec \in Decision /\ dec # "AUTHORIZED" /\ dec # "none"
  BY <1>4, ZenonT(120) DEF Decision, CheckDenial
<1>8. dec = "DENY_REPLAYED_AUTHORITY" => Jti(c) \in used
  BY <1>1, ZenonT(120) DEF IInv, CheckInv, CheckOf, TxInv, TxOf, Replayed, CheckDenial
<1> DEFINE row == Row(c, dec, FALSE)
<1>9. /\ row \in AuditRow /\ row \notin audit /\ \A r \in audit : r.client \in Clients /\ r.client # c
      /\ IsFiniteSet(audit')
  BY <1>1, <1>3, <1>7, NewRow, ZenonT(120)
<1>10. /\ row.client = c /\ row.resource = sel[c] /\ row.decision = dec /\ row.effect = FALSE
  BY ZenonT(120) DEF Row
<1> HIDE DEF dec, row
<1>11. Effects' = Effects
  BY <1>3, <1>10, ZenonT(120) DEF Effects, row
<1>12. TypeOK'
  <2>1. pc' \in [Clients -> Reading \cup InTx \cup {"check", "delay", "done", "error"}]
    BY ZenonT(120) DEF Deny, Commit, Goto, IInv, TypeOK, Reading
  <2>2. audit' \subseteq AuditRow
    BY <1>3, <1>9, ZenonT(120) DEF row, IInv, TypeOK
  <2> QED BY <1>1, <1>6, <2>1, <2>2, ZenonT(120) DEF IInv, TypeOK
<1>13. TxInv'
  BY <1>1, <1>2, ZenonT(120) DEF IInv, TxInv, TxOf, Apart, Holding, Consumed, Replayed, Jti
<1>14. CheckInv'
  BY <1>1, <1>2, ZenonT(120) DEF IInv, CheckInv, CheckOf, InTx, Holding, BothPassed, Passed,
     Denial
<1>15. PaidInv'
  BY <1>1, <1>11, ZenonT(120) DEF IInv, PaidInv, BothPassed, Passed
<1>16. OutInv'
  <2>1. \A d \in Clients \ {c} : Answered(d)' => Row(d, out[d].decision, out[d].applied)' \in audit'
    BY <1>1, <1>2, <1>3, <1>6, ZenonT(120) DEF IInv, OutInv, OutOf, Answered, Row
  <2>2. Row(c, out[c].decision, out[c].applied)' \in audit'
    BY <1>1, <1>3, <1>6, ZenonT(120) DEF Row, row
  <2> QED BY <1>1, <1>2, <1>6, <2>1, <2>2, ZenonT(120) DEF IInv, OutInv, OutOf, Row
<1>17. RowInv'
  <2>1. \A r \in audit' : r \in audit \/ r = row
    BY <1>3, ZenonT(120) DEF row
  <2>2. \A r \in audit' :
          /\ pc'[r.client] \in {"final", "done", "error"} /\ r.resource = sel'[r.client]
          /\ out'[r.client].decision = r.decision /\ out'[r.client].applied = r.effect
          /\ r.effect <=> r.decision = "AUTHORIZED"
          /\ r.decision = "DENY_REPLAYED_AUTHORITY" => Jti(r.client)' \in used'
    <3> SUFFICES ASSUME NEW r \in audit'
                 PROVE  /\ pc'[r.client] \in {"final", "done", "error"} /\ r.resource = sel'[r.client]
                        /\ out'[r.client].decision = r.decision /\ out'[r.client].applied = r.effect
                        /\ r.effect <=> r.decision = "AUTHORIZED"
                        /\ r.decision = "DENY_REPLAYED_AUTHORITY" => Jti(r.client)' \in used'
      BY ZenonT(120)
    <3>1. CASE r \in audit
      BY <1>1, <1>2, <1>6, <1>9, <3>1, SMTT(60) DEF IInv, RowInv, Jti
    <3>2. CASE r = row
      BY <1>1, <1>2, <1>6, <1>7, <1>8, <1>10, <3>2, ZenonT(120) DEF Jti
    <3> QED BY <2>1, <3>1, <3>2, ZenonT(120)
  <2>3. \A r, s \in audit' : r.client = s.client => r = s
    BY <1>9, <1>10, <2>1, ZenonT(120) DEF IInv, RowInv
  <2>4. \A r \in Effects : r \in audit /\ out'[r.client] = out[r.client]
    BY <1>6, <1>9, ZenonT(120) DEF Effects
  <2>5. \A r \in Effects' : /\ out'[r.client].after = out'[r.client].before + 1
                            /\ out'[r.client].after <= count'[r.resource]
    BY <1>1, <1>11, <2>4, ZenonT(120) DEF IInv, RowInv
  <2>6. \A r, s \in Effects' :
          r.resource = s.resource /\ out'[r.client].after = out'[s.client].after => r = s
    BY <1>11, <2>4, SMTT(60) DEF IInv, RowInv
  <2> QED BY <1>9, <2>2, <2>3, <2>5, <2>6, ZenonT(120) DEF RowInv
<1>18. LedgerBalances'
  BY <1>1, <1>11, ZenonT(120) DEF IInv, LedgerBalances, Jti
<1> QED BY <1>12, <1>13, <1>14, <1>15, <1>16, <1>17, <1>18, ZenonT(120) DEF IInv

\* The commit of a restart: one more restart, one more record, one more spent authority.
LEMMA EffectStep ==
  ASSUME IInv, NEW c \in Clients, Commit(c), pc[c] = "commit"
  PROVE  IInv'
<1> DEFINE row == Row(c, "AUTHORIZED", TRUE)
<1>1. UNCHANGED <<now, token, critical, sel, t0, t1, first, second, snap, out>>
  BY ZenonT(120) DEF Commit, input, checks
<1>2. pc'[c] \in {"final", "error"} /\ \A d \in Clients \ {c} : pc'[d] = pc[d]
  BY ZenonT(120) DEF Commit, Goto, IInv, TypeOK
<1>3. /\ count' = [count EXCEPT ![sel[c]] = @ + 1] /\ health' = [health EXCEPT ![sel[c]] = "healthy"]
      /\ used' = used \cup {Jti(c)} /\ audit' = audit \cup {row}
  BY ZenonT(120) DEF Commit, TakeEffect
<1>4. sel[c] \in Workers /\ Jti(c) \notin used /\ Jti(c) \in Jtis
  BY ZenonT(120) DEF IInv, TypeOK, TxInv, TxOf, Apart, Consumed, Jti, Jtis
<1>5. /\ row \in AuditRow /\ row \notin audit /\ \A r \in audit : r.client \in Clients /\ r.client # c
      /\ IsFiniteSet(audit')
  BY <1>3, NewRow, ZenonT(120) DEF Decision
<1>6. row.client = c /\ row.resource = sel[c] /\ row.decision = "AUTHORIZED" /\ row.effect = TRUE
  BY ZenonT(120) DEF Row
<1>7. /\ out[c].decision = "AUTHORIZED" /\ out[c].applied /\ out[c].before = count[sel[c]]
      /\ out[c].after = count[sel[c]] + 1 /\ BothPassed(c)
  BY ZenonT(120) DEF IInv, OutInv, OutOf, CheckInv, CheckOf, InTx, Holding
<1>8. Row(c, out[c].decision, out[c].applied) = row
  BY <1>7, ZenonT(120) DEF IInv, TypeOK, OutInv, OutOf, Row
<1> HIDE DEF row
<1>9. Effects' = Effects \cup {row}
  BY <1>3, <1>6, ZenonT(120) DEF Effects
<1>10. \A w \in Workers : count[w] \in Nat /\ count'[w] = IF w = sel[c] THEN count[w] + 1 ELSE count[w]
  BY <1>3, <1>4, ZenonT(120) DEF IInv, TypeOK
<1>11. TypeOK'
  <2>1. pc' \in [Clients -> Reading \cup InTx \cup {"check", "delay", "done", "error"}]
    BY ZenonT(120) DEF Commit, Goto, IInv, TypeOK, Reading
  <2>2. audit' \subseteq AuditRow /\ used' \subseteq Jtis
    BY <1>3, <1>4, <1>5, ZenonT(120) DEF IInv, TypeOK
  <2>3. count' \in [Workers -> Nat] /\ health' \in [Workers -> {"healthy", "unhealthy"}]
    BY <1>3, <1>4, SMTT(60) DEF IInv, TypeOK
  <2> QED BY <1>1, <2>1, <2>2, <2>3, ZenonT(120) DEF IInv, TypeOK
<1>12. TxInv'
  <2>1. ASSUME NEW d \in Clients, NEW e \in Clients \ {d} PROVE Apart(d, e)'
    <3>1. Apart(d, e)
      BY ZenonT(120) DEF IInv, TxInv
    <3> QED BY <1>1, <1>2, <3>1, ZenonT(120) DEF Apart, Jti, Holding, Consumed
  <2>2. ASSUME NEW d \in Clients PROVE TxOf(d)'
    <3>1. TxOf(d) /\ (d # c => Apart(d, c))
      BY ZenonT(120) DEF IInv, TxInv
    <3>2. CASE d = c
      BY <1>1, <1>2, <1>3, <1>4, <3>1, <3>2, ZenonT(120) DEF TxOf, Holding, Consumed, Replayed,
         Jti
    <3>3. CASE d # c
      <4>1. pc'[d] = pc[d] /\ (pc[d] \in Holding => sel[d] # sel[c]) /\ (pc[d] \in Consumed => Jti(d) # Jti(c))
        BY <1>2, <3>1, <3>3, ZenonT(120) DEF Apart, Holding, Consumed
      <4>2. pc[d] \in Holding => count'[sel[d]] = count[sel[d]]
        BY <1>10, <3>1, <4>1, ZenonT(120) DEF TxOf, Holding
      <4> QED BY <1>1, <1>3, <3>1, <4>1, <4>2, ZenonT(120) DEF TxOf, Jti
    <3> QED BY <3>2, <3>3, ZenonT(120)
  <2> QED BY <2>1, <2>2, ZenonT(120) DEF TxInv
<1>13. CheckInv'
  BY <1>1, <1>2, ZenonT(120) DEF IInv, CheckInv, CheckOf, InTx, Holding, BothPassed, Passed,
     Denial
<1>14. PaidInv'
  BY <1>1, <1>6, <1>7, <1>9, ZenonT(120) DEF IInv, PaidInv, BothPassed, Passed
<1>15. OutInv'
  <2>1. \A d \in Clients \ {c} : pc'[d] \in {"audit", "commit"} => sel[d] # sel[c] /\ sel[d] \in Workers
    BY <1>2, ZenonT(120) DEF IInv, TxInv, TxOf, Apart, Holding
  <2>2. \A d \in Clients \ {c} : pc'[d] \in {"audit", "commit"} => count'[sel[d]] = count[sel[d]]
    BY <1>10, <2>1, ZenonT(120)
  <2>3. \A d \in Clients : Answered(d)' => Row(d, out[d].decision, out[d].applied)' \in audit'
    BY <1>1, <1>2, <1>3, <1>8, ZenonT(120) DEF IInv, OutInv, OutOf, Answered, Row
  <2> QED BY <1>1, <1>2, <2>2, <2>3, ZenonT(120) DEF IInv, OutInv, OutOf
<1>16. RowInv'
  <2>1. \A r \in audit' : r \in audit \/ r = row
    BY <1>3, ZenonT(120)
  <2>2. \A r \in audit' :
          /\ pc'[r.client] \in {"final", "done", "error"} /\ r.resource = sel'[r.client]
          /\ out'[r.client].decision = r.decision /\ out'[r.client].applied = r.effect
          /\ r.effect <=> r.decision = "AUTHORIZED"
          /\ r.decision = "DENY_REPLAYED_AUTHORITY" => Jti(r.client)' \in used'
    <3> SUFFICES ASSUME NEW r \in audit'
                 PROVE  /\ pc'[r.client] \in {"final", "done", "error"} /\ r.resource = sel'[r.client]
                        /\ out'[r.client].decision = r.decision /\ out'[r.client].applied = r.effect
                        /\ r.effect <=> r.decision = "AUTHORIZED"
                        /\ r.decision = "DENY_REPLAYED_AUTHORITY" => Jti(r.client)' \in used'
      BY ZenonT(120)
    <3>1. CASE r \in audit
      BY <1>1, <1>2, <1>3, <1>5, <3>1, ZenonT(120) DEF IInv, RowInv, Jti
    <3>2. CASE r = row
      <4>1. out[c].applied = TRUE
        BY <1>7, ZenonT(120) DEF IInv, TypeOK
      <4> QED BY <1>1, <1>2, <1>6, <1>7, <3>2, <4>1, ZenonT(120)
    <3> QED BY <2>1, <3>1, <3>2, ZenonT(120)
  <2>3. \A r, s \in audit' : r.client = s.client => r = s
    BY <1>5, <1>6, <2>1, ZenonT(120) DEF IInv, RowInv
  <2>4. \A r \in Effects : r.resource \in Workers /\ out[r.client].after \in Nat /\ out[r.client].after <= count[r.resource]
    BY <1>5, ZenonT(120) DEF IInv, TypeOK, AuditRow, Effects, RowInv
  <2>5. \A r \in Effects' : /\ out'[r.client].after = out'[r.client].before + 1
                            /\ out'[r.client].after <= count'[r.resource]
    <3>1. \A r \in Effects : out[r.client].after = out[r.client].before + 1
      BY ZenonT(120) DEF IInv, RowInv
    <3> QED BY <1>1, <1>4, <1>6, <1>7, <1>9, <1>10, <2>4, <3>1, SMTT(60)
  <2>6. \A r \in Effects : r.resource = sel[c] => out[r.client].after # out[c].after
    BY <1>4, <1>7, <1>10, <2>4, SMTT(60)
  <2>7. \A r, s \in Effects' :
          r.resource = s.resource /\ out'[r.client].after = out'[s.client].after => r = s
    <3>1. \A r, s \in Effects :
            r.resource = s.resource /\ out[r.client].after = out[s.client].after => r = s
      BY ZenonT(120) DEF IInv, RowInv
    <3> QED BY <1>1, <1>6, <1>9, <2>6, <3>1, SMTT(60)
  <2> QED BY <1>5, <2>2, <2>3, <2>5, <2>7, ZenonT(120) DEF RowInv
<1>17. LedgerBalances'
  <2> DEFINE Of(w) == {r \in Effects : r.resource = w}
  <2>1. \A w \in Workers : IsFiniteSet(Of(w)) /\ row \notin Of(w)
    BY <1>5, FS_Subset, ZenonT(120) DEF IInv, RowInv, Effects
  <2>2. Of(sel[c])' = Of(sel[c]) \cup {row}
    BY <1>1, <1>6, <1>9, ZenonT(120)
  <2>3. \A w \in Workers : w # sel[c] => Of(w)' = Of(w)
    BY <1>6, <1>9, ZenonT(120)
  <2>4. \A w \in Workers : count[w] = Cardinality(Of(w))
    BY ZenonT(120) DEF IInv, LedgerBalances
  <2>5. Cardinality(Of(sel[c])') = Cardinality(Of(sel[c])) + 1
    BY <1>4, <2>1, <2>2, FS_AddElement, ZenonT(120)
  <2>6. \A w \in Workers : count'[w] = Cardinality(Of(w)')
    BY <1>1, <1>4, <1>10, <2>3, <2>4, <2>5, ZenonT(120)
  <2>7. used = {Jti(r.client) : r \in Effects}
    BY ZenonT(120) DEF IInv, LedgerBalances
  <2>8. used' = {Jti(r.client)' : r \in Effects'}
    BY <1>1, <1>3, <1>6, <1>9, <2>7, ZenonT(120) DEF Jti
  <2>9. \A r, s \in Effects' : Jti(r.client)' = Jti(s.client)' => r = s
    BY <1>1, <1>4, <1>6, <1>9, <2>7, SMTT(60) DEF IInv, LedgerBalances, Jti
  <2> QED BY <2>6, <2>8, <2>9, ZenonT(120) DEF LedgerBalances
<1> QED BY <1>11, <1>12, <1>13, <1>14, <1>15, <1>16, <1>17, ZenonT(120) DEF IInv

\* The clock is no part of what the invariant says.
LEMMA IdleStep ==
  ASSUME IInv, SetClock \/ UNCHANGED vars
  PROVE  IInv'
<1>1. /\ now' \in Times
      /\ UNCHANGED <<token, critical, count, health, used, audit, pc, sel, t0, t1, first, second,
                     snap, out>>
  BY ZenonT(120) DEF SetClock, vars, input, tables, checks, IInv, TypeOK
<1>2. TypeOK'
  BY <1>1, ZenonT(120) DEF IInv, TypeOK
<1>3. TxInv' /\ CheckInv'
  BY <1>1, ZenonT(120) DEF IInv, TxInv, TxOf, Apart, CheckInv, CheckOf, Jti, BothPassed, Passed,
     Denial
<1>4. OutInv'
  BY <1>1, ZenonT(120) DEF IInv, OutInv, OutOf, Answered, Row
<1>5. PaidInv' /\ RowInv' /\ LedgerBalances'
  BY <1>1, KeptRows, ZenonT(120)
<1> QED BY <1>2, <1>3, <1>4, <1>5, ZenonT(120) DEF IInv

\* The invariant is inductive for any set of clients, authorities and workers.
THEOREM RestartInvariant == Spec => []IInv
<1>1. IInv /\ [Next]_vars => IInv'
  <2> SUFFICES ASSUME IInv, [Next]_vars PROVE IInv'
    BY ZenonT(120)
  <2>1. CASE SetClock \/ UNCHANGED vars
    BY <2>1, IdleStep, ZenonT(120)
  <2>2. ASSUME NEW c \in Clients, Works(c) \/ Fails(c) PROVE IInv'
    <3>1. CASE Commit(c)
      <4>1. pc[c] \in {"commit", "commitReplay"}
        BY <3>1, ZenonT(120) DEF Commit
      <4> QED BY <3>1, <4>1, DenialStep, EffectStep, ZenonT(120)
    <3> QED BY <2>2, <3>1, WorkflowStep, TransactionStep, DenialStep, ZenonT(120) DEF Works
  <2> QED BY <2>1, <2>2, ZenonT(120) DEF Next
<1> QED BY InitIInv, <1>1, PTL DEF Spec

\* Restart counters, audit records and spent authorities agree, for any number of
\* concurrent, repeated and interrupted calls.
THEOREM LedgerHolds == Spec => []LedgerBalances
<1>1. IInv => LedgerBalances
  BY ZenonT(120) DEF IInv
<1> QED BY <1>1, RestartInvariant, PTL

\* Every restart was authorized at both checks.
THEOREM EffectsAuthorized == Spec => []EffectWasAuthorized
<1>1. IInv => EffectWasAuthorized
  <2> SUFFICES ASSUME IInv, NEW r \in Effects
               PROVE  LET c == r.client  t == token[c] IN
                        /\ t.form = "signed" /\ t.subject /\ t.scope /\ t.resource = r.resource
                        /\ t0[c] <= t1[c] /\ InForce(t, t0[c]) /\ InForce(t, t1[c])
    BY ZenonT(120) DEF EffectWasAuthorized
  <2>1. r.client \in Clients /\ r.resource = sel[r.client] /\ BothPassed(r.client)
    <3>1. audit \subseteq AuditRow /\ RowInv /\ PaidInv /\ r \in audit
      BY ZenonT(120) DEF IInv, TypeOK, Effects
    <3> QED BY <3>1, ZenonT(120) DEF AuditRow, RowInv, PaidInv
  <2>2. token[r.client] \in Tokens /\ t0[r.client] \in Times /\ t1[r.client] \in Times
    BY <2>1, ZenonT(120) DEF IInv, TypeOK
  <2> QED BY <2>1, <2>2, EvaluateAuthorized, ZenonT(120) DEF BothPassed, Passed
<1> QED BY <1>1, RestartInvariant, PTL

\* Answers are true and on record.
THEOREM AnswersHold == Spec => []AnswersAreTrue
<1>1. IInv => AnswersAreTrue
  <2> SUFFICES ASSUME IInv, NEW c \in Clients, Answered(c)
               PROVE  /\ Row(c, out[c].decision, out[c].applied) \in audit
                      /\ out[c].applied <=> out[c].decision = "AUTHORIZED"
                      /\ ~out[c].applied => ~(\E r \in Effects : r.client = c)
                      /\ out[c].decision = "DENY_REPLAYED_AUTHORITY" => Jti(c) \in used
                      /\ out[c].applied =>
                           /\ out[c].after = out[c].before + 1 /\ out[c].after <= count[sel[c]]
                           /\ \A d \in Clients \ {c} :
                                Answered(d) /\ out[d].applied /\ sel[d] = sel[c] =>
                                  out[d].after # out[c].after
    BY ZenonT(120) DEF AnswersAreTrue
  <2> DEFINE R(d) == Row(d, out[d].decision, out[d].applied)
  <2>1. \A d \in Clients : Answered(d) => R(d) \in audit
    BY ZenonT(120) DEF IInv, OutInv, OutOf
  <2>2. \A d \in Clients : /\ R(d).client = d /\ R(d).resource = sel[d]
                           /\ R(d).decision = out[d].decision /\ R(d).effect = out[d].applied
    BY ZenonT(120) DEF Row
  <2> HIDE DEF R
  <2>3. /\ out[c].applied <=> out[c].decision = "AUTHORIZED"
        /\ out[c].decision = "DENY_REPLAYED_AUTHORITY" => Jti(c) \in used
    BY <2>1, <2>2, SMTT(60) DEF IInv, RowInv
  <2>4. \A d \in Clients : Answered(d) /\ out[d].applied => R(d) \in Effects
    BY <2>1, <2>2, ZenonT(120) DEF Effects
  <2>5. ~out[c].applied => ~(\E r \in Effects : r.client = c)
    BY ZenonT(120) DEF IInv, RowInv, Effects
  <2>6. out[c].applied => out[c].after = out[c].before + 1 /\ out[c].after <= count[sel[c]]
    BY <2>2, <2>4, SMTT(60) DEF IInv, RowInv
  <2>7. out[c].applied => \A d \in Clients \ {c} :
          Answered(d) /\ out[d].applied /\ sel[d] = sel[c] => out[d].after # out[c].after
    BY <2>2, <2>4, SMTT(60) DEF IInv, RowInv
  <2> QED BY <2>1, <2>3, <2>5, <2>6, <2>7, ZenonT(120) DEF R
<1> QED BY <1>1, RestartInvariant, PTL
=============================================================================
