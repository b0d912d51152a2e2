------------------------------ MODULE Incident ------------------------------
(***************************************************************************)
(* The incident-response demo: agents that work through an incident        *)
(* (internal/agent), the tool server's checks of the delegated authority   *)
(* (internal/tools, internal/authority) and the restart transaction        *)
(* (internal/postgres/store.go).                                           *)
(*                                                                         *)
(* A client makes one pass of agent.Run.  Two clients that hold one token  *)
(* stand for a tool call that is made again.  Statements are steps; the    *)
(* restart's run in one SERIALIZABLE transaction, whose snapshot is that   *)
(* of its first statement.  Every statement may fail, and a commit may     *)
(* take effect although its answer is lost.  The guest's wall clock is set *)
(* at will, also in the middle of a call.                                  *)
(*                                                                         *)
(* Worker identifiers are numbers, so that their order is the agent's.     *)
(***************************************************************************)
EXTENDS Naturals, FiniteSets

CONSTANTS
  Clients,   \* passes of agent.Run
  Tokens,    \* authorities: what the issuer signed, or something else
  Workers,   \* worker identifiers
  MaxConns,  \* connections of the pool (4)
  MaxTime    \* bound on the wall clock

Times == 0..MaxTime

\* jti is the authority's identifier; subject and scope: as the server expects them.
Token == [jti : {t.jti : t \in Tokens}, form : {"signed", "forged", "malformed"},
          subject : BOOLEAN, scope : BOOLEAN, resource : Workers, nbf : Times, exp : Times]

ASSUME IncidentAssumption ==
  /\ Workers \subseteq Nat \ {0} /\ MaxTime \in Nat /\ MaxConns \in Nat \ {0}
  /\ IsFiniteSet(Clients) /\ Tokens \subseteq Token

VARIABLES
  now,      \* the guest's wall clock
  token,    \* each client's authority
  critical, \* the incidents table has an active critical one
  count,    \* workers.restart_count
  health,   \* workers.health
  used,     \* authority_uses
  audit,    \* tool_audit
  pc,       \* where each client is
  sel,      \* the worker it selected, or 0
  t0, t1,   \* the times of its two checks
  first, second, \* and their decisions
  snap,     \* its transaction's snapshot
  out       \* the answer to its worker_restart

tables == <<count, health, used, audit>>
input  == <<token, critical>>
checks == <<t0, t1, first, second>>
vars   == <<now, input, tables, pc, sel, checks, snap, out>>

NoAnswer == [decision |-> "none", applied |-> FALSE, before |-> 0, after |-> 0]

Init ==
  /\ now \in Times /\ token \in [Clients -> Tokens] /\ critical \in BOOLEAN
  /\ count = [w \in Workers |-> 0] /\ health \in [Workers -> {"healthy", "unhealthy"}]
  /\ used = {} /\ audit = {}
  /\ pc = [c \in Clients |-> "list"] /\ sel = [c \in Clients |-> 0]
  /\ t0 = [c \in Clients |-> 0] /\ t1 = [c \in Clients |-> 0]
  /\ first = [c \in Clients |-> "none"] /\ second = [c \in Clients |-> "none"]
  /\ snap = [c \in Clients |-> [count |-> 0, used |-> {}]]
  /\ out = [c \in Clients |-> NoAnswer]

-----------------------------------------------------------------------------
(* Validator.Evaluate: the first objection, in the code's order.           *)

Evaluate(t, time, w) ==
  IF t.form = "malformed" THEN "DENY_MALFORMED_AUTHORITY"
  ELSE IF t.form = "forged" THEN "DENY_INVALID_SIGNATURE"
  ELSE IF t.nbf >= t.exp THEN "DENY_MALFORMED_AUTHORITY"
  ELSE IF ~t.subject THEN "DENY_SUBJECT_MISMATCH"
  ELSE IF ~t.scope THEN "DENY_SCOPE_MISMATCH"
  ELSE IF t.resource # w THEN "DENY_RESOURCE_MISMATCH"
  ELSE IF time < t.nbf THEN "DENY_NOT_YET_VALID"
  ELSE IF time >= t.exp THEN "DENY_EXPIRED"
  ELSE "AUTHORIZED"

-----------------------------------------------------------------------------
(* The connection pool and the clients' control.                           *)

Holding == {"consume", "replay", "update", "audit", "commit", "commitReplay"}
InTx    == {"snapshot", "lock"} \cup Holding
Reading == {"list", "inspect", "status", "before", "reread", "deny", "begin", "final"}

\* A transaction keeps its connection; other statements need one for a moment.
PoolFree == Cardinality({d \in Clients : pc[d] \in InTx}) < MaxConns

Goto(c, next) == pc' = [pc EXCEPT ![c] = next]
Jti(c)        == token[c].jti

\* A statement of the pool's, with a connection to run on.
Statement(c, at) == pc[c] = at /\ PoolFree

-----------------------------------------------------------------------------
(* agent.Run up to the restart.                                            *)

List(c) ==
  /\ Statement(c, "list")
  /\ Goto(c, IF critical THEN "inspect" ELSE "done")
  /\ UNCHANGED <<now, input, tables, sel, checks, snap, out>>

Unhealthy == {w \in Workers : health[w] = "unhealthy"}

Inspect(c) ==
  /\ Statement(c, "inspect")
  /\ \/ Unhealthy = {} /\ Goto(c, "done") /\ UNCHANGED sel
     \/ \E w \in Unhealthy : /\ \A v \in Unhealthy : w <= v
                            /\ Goto(c, "status") /\ sel' = [sel EXCEPT ![c] = w]
  /\ UNCHANGED <<now, input, tables, checks, snap, out>>

Status(c) ==
  /\ Statement(c, "status")
  /\ Goto(c, IF health[sel[c]] = "unhealthy" THEN "check" ELSE "done")
  /\ UNCHANGED <<now, input, tables, sel, checks, snap, out>>

-----------------------------------------------------------------------------
(* worker_restart: two checks around a delay.                              *)

Check(c) ==
  /\ pc[c] = "check"
  /\ t0' = [t0 EXCEPT ![c] = now]
  /\ first' = [first EXCEPT ![c] = Evaluate(token[c], now, sel[c])]
  /\ Goto(c, "before")
  /\ UNCHANGED <<now, input, tables, sel, t1, second, snap, out>>

Answer(c, decision, applied, before, after) ==
  out' = [out EXCEPT ![c] = [decision |-> decision, applied |-> applied,
                             before |-> before, after |-> after]]

\* The transition that a denial reports is what this reads.
ReadBefore(c) ==
  /\ Statement(c, "before")
  /\ Answer(c, "none", FALSE, count[sel[c]], count[sel[c]])
  /\ Goto(c, IF first[c] = "AUTHORIZED" THEN "delay" ELSE "deny")
  /\ UNCHANGED <<now, input, tables, sel, checks, snap>>

\* Faulty variant: the authority is not validated again after the delay.
ExecuteUnchecked(c) ==
  /\ pc[c] = "delay"
  /\ t1' = [t1 EXCEPT ![c] = now]
  /\ second' = [second EXCEPT ![c] = "AUTHORIZED"]
  /\ Goto(c, IF now < t0[c] THEN "error" ELSE "begin")
  /\ UNCHANGED <<now, input, tables, sel, t0, first, snap, out>>

\* A clock that went backwards ends the call.
Execute(c) ==
  /\ pc[c] = "delay"
  /\ t1' = [t1 EXCEPT ![c] = now]
  /\ second' = [second EXCEPT ![c] = Evaluate(token[c], now, sel[c])]
  /\ Goto(c, IF now < t0[c] THEN "error"
             ELSE IF second'[c] = "AUTHORIZED" THEN "begin" ELSE "reread")
  /\ UNCHANGED <<now, input, tables, sel, t0, first, snap, out>>

Reread(c) ==
  /\ Statement(c, "reread")
  /\ out' = [out EXCEPT ![c].after = count[sel[c]]]
  /\ Goto(c, "deny")
  /\ UNCHANGED <<now, input, tables, sel, checks, snap>>

Row(c, decision, effect) ==
  [client |-> c, resource |-> sel[c], decision |-> decision, effect |-> effect]

Denial(c) == IF first[c] = "AUTHORIZED" THEN second[c] ELSE first[c]

\* Faulty variant: a denial is answered without its audit record.
DenyUnrecorded(c) ==
  /\ Statement(c, "deny")
  /\ out' = [out EXCEPT ![c].decision = Denial(c)]
  /\ Goto(c, "final")
  /\ UNCHANGED <<now, input, tables, sel, checks, snap>>

\* The record may be written although the answer is lost.
Deny(c) ==
  /\ Statement(c, "deny")
  /\ audit' = audit \cup {Row(c, Denial(c), FALSE)}
  /\ out' = [out EXCEPT ![c].decision = Denial(c)]
  /\ \E next \in {"final", "error"} : Goto(c, next)
  /\ UNCHANGED <<now, input, count, health, used, sel, checks, snap>>

-----------------------------------------------------------------------------
(* RestartWorker: one serializable transaction.                            *)

InTable == <<now, input, tables, sel, checks>>

Begin(c) ==
  /\ Statement(c, "begin")
  /\ Goto(c, "snapshot")
  /\ UNCHANGED <<InTable, snap, out>>

\* The first statement fixes what the transaction sees.
Snapshot(c) ==
  /\ pc[c] = "snapshot"
  /\ snap' = [snap EXCEPT ![c] = [count |-> count[sel[c]], used |-> used]]
  /\ Goto(c, "lock")
  /\ UNCHANGED <<InTable, out>>

\* SELECT ... FOR UPDATE waits for the row, and fails when its holder has updated it.
LockRow(c) ==
  /\ pc[c] = "lock"
  /\ ~(\E d \in Clients \ {c} : pc[d] \in Holding /\ sel[d] = sel[c])
  /\ Goto(c, IF count[sel[c]] = snap[c].count THEN "consume" ELSE "error")
  /\ UNCHANGED <<InTable, snap, out>>

\* INSERT ... ON CONFLICT DO NOTHING: waits for a transaction that inserted the same
\* identifier, and fails when its row is there but not in the snapshot.
Consume(c) ==
  /\ pc[c] = "consume"
  /\ ~(\E d \in Clients \ {c} : pc[d] \in {"update", "audit", "commit"} /\ Jti(d) = Jti(c))
  /\ Goto(c, IF Jti(c) \notin used THEN "update"
             ELSE IF Jti(c) \in snap[c].used THEN "replay" ELSE "error")
  /\ UNCHANGED <<InTable, snap, out>>

\* UPDATE ... RETURNING
Update(c) ==
  /\ pc[c] = "update"
  /\ Answer(c, "AUTHORIZED", TRUE, snap[c].count, count[sel[c]] + 1)
  /\ Goto(c, "audit")
  /\ UNCHANGED <<InTable, snap>>

\* Faulty variant: the record is written through the pool, on a second connection.
InsertAuditPooled(c) ==
  /\ PoolFree
  /\ \/ pc[c] = "audit" /\ Goto(c, "commit") /\ UNCHANGED out
     \/ /\ pc[c] = "replay" /\ Goto(c, "commitReplay")
        /\ Answer(c, "DENY_REPLAYED_AUTHORITY", FALSE, snap[c].count, snap[c].count)
  /\ UNCHANGED <<InTable, snap>>

InsertAudit(c) ==
  /\ \/ pc[c] = "audit" /\ Goto(c, "commit") /\ UNCHANGED out
     \/ /\ pc[c] = "replay" /\ Goto(c, "commitReplay")
        /\ Answer(c, "DENY_REPLAYED_AUTHORITY", FALSE, snap[c].count, snap[c].count)
  /\ UNCHANGED <<InTable, snap>>

\* Faulty variant: the restart does not consume the authority.
TakeEffectUnconsumed(c) ==
  /\ count' = [count EXCEPT ![sel[c]] = @ + 1]
  /\ health' = [health EXCEPT ![sel[c]] = "healthy"]
  /\ audit' = audit \cup {Row(c, "AUTHORIZED", TRUE)}
  /\ UNCHANGED used

TakeEffect(c) ==
  /\ count' = [count EXCEPT ![sel[c]] = @ + 1]
  /\ health' = [health EXCEPT ![sel[c]] = "healthy"]
  /\ used' = used \cup {Jti(c)}
  /\ audit' = audit \cup {Row(c, "AUTHORIZED", TRUE)}

CommitReplayed(c) ==
  /\ audit' = audit \cup {Row(c, "DENY_REPLAYED_AUTHORITY", FALSE)}
  /\ UNCHANGED <<count, health, used>>

\* The answer of a commit that took effect may be lost.
Commit(c) ==
  /\ \/ pc[c] = "commit" /\ TakeEffect(c)
     \/ pc[c] = "commitReplay" /\ CommitReplayed(c)
  /\ \E next \in {"final", "error"} : Goto(c, next)
  /\ UNCHANGED <<now, input, sel, checks, snap, out>>

-----------------------------------------------------------------------------
(* The end of the pass, failures, and the clock.                           *)

\* agent.Run's last worker_status.
Final(c) ==
  /\ Statement(c, "final")
  /\ Goto(c, "done")
  /\ UNCHANGED <<InTable, snap, out>>

\* A statement fails, the delay is cut short or the call is cancelled: the transaction,
\* if there is one, is rolled back.
Fails(c) ==
  /\ pc[c] \in Reading \cup InTx \cup {"delay"}
  /\ Goto(c, "error")
  /\ UNCHANGED <<InTable, snap, out>>

SetClock ==
  /\ now' \in Times
  /\ UNCHANGED <<input, tables, pc, sel, checks, snap, out>>

Works(c) ==
  \/ List(c) \/ Inspect(c) \/ Status(c) \/ Check(c) \/ ReadBefore(c) \/ Execute(c)
  \/ Reread(c) \/ Deny(c) \/ Begin(c) \/ Snapshot(c) \/ LockRow(c) \/ Consume(c)
  \/ Update(c) \/ InsertAudit(c) \/ Commit(c) \/ Final(c)

Next == SetClock \/ \E c \in Clients : Works(c) \/ Fails(c)

Spec == Init /\ [][Next]_vars

\* A statement that has what it waits for returns; nothing obliges one to fail.
FairSpec == Spec /\ \A c \in Clients : WF_vars(Works(c))

-----------------------------------------------------------------------------
(* Properties.                                                             *)

CheckDenial == {"DENY_MALFORMED_AUTHORITY", "DENY_INVALID_SIGNATURE", "DENY_SUBJECT_MISMATCH",
                "DENY_SCOPE_MISMATCH", "DENY_RESOURCE_MISMATCH", "DENY_NOT_YET_VALID",
                "DENY_EXPIRED"}
Decision    == CheckDenial \cup {"none", "AUTHORIZED", "DENY_REPLAYED_AUTHORITY"}
Jtis        == {t.jti : t \in Tokens}
AuditRow    == [client : Clients, resource : Workers, decision : Decision, effect : BOOLEAN]
Effects     == {r \in audit : r.effect}

TypeOK ==
  /\ now \in Times /\ token \in [Clients -> Tokens] /\ critical \in BOOLEAN
  /\ count \in [Workers -> Nat] /\ health \in [Workers -> {"healthy", "unhealthy"}]
  /\ used \subseteq Jtis /\ audit \subseteq AuditRow
  /\ pc \in [Clients -> Reading \cup InTx \cup {"check", "delay", "done", "error"}]
  /\ sel \in [Clients -> Workers \cup {0}]
  /\ t0 \in [Clients -> Times] /\ t1 \in [Clients -> Times]
  /\ first \in [Clients -> Decision] /\ second \in [Clients -> Decision]
  /\ snap \in [Clients -> [count : Nat, used : SUBSET Jtis]]
  /\ out \in [Clients -> [decision : Decision, applied : BOOLEAN, before : Nat, after : Nat]]

\* The three tables agree after every commit, and with every commit whose answer was
\* lost: a worker's restarts are its audit records with a side effect, each paid with
\* an authority of its own that is spent.
LedgerBalances ==
  /\ \A w \in Workers : count[w] = Cardinality({r \in Effects : r.resource = w})
  /\ used = {Jti(r.client) : r \in Effects}
  /\ \A r, s \in Effects : Jti(r.client) = Jti(s.client) => r = s

InForce(t, time) == t.nbf <= time /\ time < t.exp

\* A worker was restarted only under a signed authority for this agent, action and
\* worker, in force when the call came and again when its delay was over, however the
\* clock was set in between.
EffectWasAuthorized ==
  \A r \in Effects :
    LET c == r.client  t == token[c] IN
      /\ t.form = "signed" /\ t.subject /\ t.scope /\ t.resource = r.resource
      /\ t0[c] <= t1[c] /\ InForce(t, t0[c]) /\ InForce(t, t1[c])

Answered(c) == pc[c] \in {"final", "done"} /\ out[c].decision # "none"

\* An answer is true and on record: an applied restart reports the one step that it
\* made of the counter, which no other answer reports; a denial has its record and had
\* no effect, and an authority denied as replayed is spent.
AnswersAreTrue ==
  \A c \in Clients : Answered(c) =>
    /\ Row(c, out[c].decision, out[c].applied) \in audit
    /\ out[c].applied <=> out[c].decision = "AUTHORIZED"
    /\ ~out[c].applied => ~(\E r \in Effects : r.client = c)
    /\ out[c].decision = "DENY_REPLAYED_AUTHORITY" => Jti(c) \in used
    /\ out[c].applied =>
         /\ out[c].after = out[c].before + 1 /\ out[c].after <= count[sel[c]]
         /\ \A d \in Clients \ {c} :
              Answered(d) /\ out[d].applied /\ sel[d] = sel[c] => out[d].after # out[c].after

\* Every pass ends: the row lock, the wait for a concurrent use of the authority and
\* the bounded pool never wait for one another.
PassesEnd == \A c \in Clients : <>(pc[c] \in {"done", "error"})

-----------------------------------------------------------------------------
(* The inductive invariant.                                                *)

Consumed == {"update", "audit", "commit"}
Replayed == {"replay", "commitReplay"}

\* What the transaction of a client relies on.
TxOf(c) ==
  /\ pc[c] \notin {"list", "inspect", "done", "error"} => sel[c] \in Workers
  /\ pc[c] \in Holding => snap[c].count = count[sel[c]]
  /\ pc[c] \in Consumed => Jti(c) \notin used
  /\ pc[c] \in Replayed => Jti(c) \in used
  /\ snap[c].used \subseteq used

\* Whoever holds a worker's row holds it alone, and whoever has inserted an authority's
\* identifier is alone with it.
Apart(c, d) ==
  /\ ~(pc[c] \in Holding /\ pc[d] \in Holding /\ sel[c] = sel[d])
  /\ ~(pc[c] \in Consumed /\ pc[d] \in Consumed /\ Jti(c) = Jti(d))

TxInv ==
  /\ \A c \in Clients : TxOf(c)
  /\ \A c \in Clients : \A d \in Clients \ {c} : Apart(c, d)

Passed(c, time) == Evaluate(token[c], time, sel[c]) = "AUTHORIZED"
BothPassed(c)   == Passed(c, t0[c]) /\ Passed(c, t1[c]) /\ t0[c] <= t1[c]

\* What a client's place says about its two checks.
CheckOf(c) ==
  /\ pc[c] \in {"delay", "reread"} => first[c] = "AUTHORIZED" /\ Passed(c, t0[c])
  /\ pc[c] = "before" => first[c] = Evaluate(token[c], t0[c], sel[c])
  /\ pc[c] = "reread" => second[c] \in CheckDenial
  /\ pc[c] = "deny" => Denial(c) \in CheckDenial
  /\ pc[c] \in {"begin"} \cup InTx => BothPassed(c)

CheckInv == \A c \in Clients : CheckOf(c)

PaidInv == \A r \in Effects : BothPassed(r.client)

\* What its place says about its answer.
OutOf(c) ==
  /\ pc[c] \notin {"audit", "commit", "commitReplay", "final", "done", "error"} =>
       out[c].decision = "none" /\ ~out[c].applied
  /\ pc[c] \in {"audit", "commit"} =>
       /\ out[c].decision = "AUTHORIZED" /\ out[c].applied
       /\ out[c].before = count[sel[c]] /\ out[c].after = count[sel[c]] + 1
  /\ pc[c] = "commitReplay" => out[c].decision = "DENY_REPLAYED_AUTHORITY" /\ ~out[c].applied
  /\ Answered(c) => Row(c, out[c].decision, out[c].applied) \in audit

OutInv == \A c \in Clients : OutOf(c)

\* A client leaves one record, which says what it was answered, and the steps of a
\* counter are reported once each.
RowInv ==
  /\ IsFiniteSet(audit)
  /\ \A r \in audit :
       /\ pc[r.client] \in {"final", "done", "error"} /\ r.resource = sel[r.client]
       /\ out[r.client].decision = r.decision /\ out[r.client].applied = r.effect
       /\ r.effect <=> r.decision = "AUTHORIZED"
       /\ r.decision = "DENY_REPLAYED_AUTHORITY" => Jti(r.client) \in used
  /\ \A r, s \in audit : r.client = s.client => r = s
  /\ \A r \in Effects : /\ out[r.client].after = out[r.client].before + 1
                        /\ out[r.client].after <= count[r.resource]
  /\ \A r, s \in Effects :
       r.resource = s.resource /\ out[r.client].after = out[s.client].after => r = s

IInv == TypeOK /\ TxInv /\ CheckInv /\ PaidInv /\ OutInv /\ RowInv /\ LedgerBalances
=============================================================================
