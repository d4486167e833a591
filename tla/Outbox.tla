---- MODULE Outbox ----
(***************************************************************************)
(* The texts the core sends through WhatsApp: SendText (sender.go) leaves  *)
(* a row in outbox_messages, the outbox worker (outbox_processor.go,       *)
(* cmd/outbox-worker) sends what is due every five seconds, and the        *)
(* support may ask for another try (super-admin.service.ts).               *)
(*                                                                         *)
(* What is left of a prepaid wallet is not counted: where the code asks    *)
(* for it, both answers are possible.                                      *)
(***************************************************************************)
EXTENDS Naturals, Sequences, FiniteSets, SequencesExt

CONSTANTS
  Outs,         \* rows, numbered by created_at
  Processors,   \* processes of the outbox worker
  NoOut,
  MaxAttempts,  \* max_attempts of a row
  MaxFaults     \* bound: faults and interventions of the support

ASSUME OutsNumbered == Outs \subseteq Nat /\ NoOut \notin Outs /\ MaxAttempts \in Nat \ {0}

ASSUME FaultsBounded == MaxFaults \in Nat

VARIABLES
  outbox,       \* the rows
  sending,      \* of each processor: what is left of its batch, as it read it, and where it is
  support,      \* the row the support has found unsent
  got,          \* times each text reached the phone
  unclear,      \* rows of which a processor could not know whether they were sent
  faults

outVars == <<outbox, sending, support, got, unclear>>

Row == [status: {"NONE", "WAITING", "SENT"}, attempts: 0..MaxAttempts, due: BOOLEAN]

NewRow == [status |-> "NONE", attempts |-> 0, due |-> FALSE]

NoBatch == [pc |-> "idle", batch |-> {}]

OutTypeOK ==
  /\ outbox \in [Outs -> Row]
  /\ sending \in [Processors -> [pc: {"idle", "next", "sent", "failed"}, batch: SUBSET [id: Outs, row: Row]]]
  /\ \A p \in Processors : sending[p].pc = "idle" <=> sending[p].batch = {}
  /\ support \in Outs \cup {NoOut}
  /\ got \in [Outs -> Nat] /\ unclear \subseteq Outs
  /\ faults \in 0..MaxFaults

OutInit ==
  /\ outbox = [o \in Outs |-> NewRow]
  /\ sending = [p \in Processors |-> NoBatch]
  /\ support = NoOut
  /\ got = [o \in Outs |-> 0] /\ unclear = {}

Fault == faults < MaxFaults /\ faults' = faults + 1

--------------------------------------------------------------------------------
\* SendText: the next row.
Free == {o \in Outs : outbox[o].status = "NONE"}

SendText ==
  /\ Free # {}
  /\ outbox' = [outbox EXCEPT ![CHOOSE o \in Free : \A q \in Free : o <= q] =
                  [NewRow EXCEPT !.status = "WAITING", !.due = TRUE]]
  /\ UNCHANGED <<sending, support, got, unclear>>

PendingOrSent(row) == row.status # "NONE" /\ row.attempts < MaxAttempts /\ row.due

\* What ProcessPending selects.
Pending(row) == row.status = "WAITING" /\ row.attempts < MaxAttempts /\ row.due

Select(p) ==
  LET due == {o \in Outs : Pending(outbox[o])}
  IN /\ sending[p].pc = "idle" /\ due # {}
     /\ sending' = [sending EXCEPT ![p] = [pc |-> "next", batch |-> {[id |-> o, row |-> outbox[o]] : o \in due}]]
     /\ UNCHANGED <<outbox, support, got, unclear, faults>>

\* The message at hand, the oldest of the batch, as it was read.
At(p) == CHOOSE r \in sending[p].batch : \A q \in sending[p].batch : r.id <= q.id

\* With one more attempt.
Tried(row) == [row EXCEPT !.attempts = @ + 1]

Rest(p) == LET rest == sending[p].batch \ {At(p)}
           IN [pc |-> IF rest = {} THEN "idle" ELSE "next", batch |-> rest]

\* processMessage without credits: the attempts are used up.
NoCredits(p) ==
  /\ sending[p].pc = "next"
  /\ outbox' = [outbox EXCEPT ![At(p).id] = [At(p).row EXCEPT !.attempts = MaxAttempts]]
  /\ sending' = [sending EXCEPT ![p] = Rest(p)]
  /\ UNCHANGED <<support, got, unclear, faults>>

\* The call of the API: sent, refused, or sent without an answer.
Call(p) ==
  /\ sending[p].pc = "next"
  /\ \/ /\ got' = [got EXCEPT ![At(p).id] = @ + 1]
        /\ sending' = [sending EXCEPT ![p].pc = "sent"]
        /\ UNCHANGED <<unclear, faults>>
     \/ /\ sending' = [sending EXCEPT ![p].pc = "failed"]
        /\ UNCHANGED <<got, unclear, faults>>
     \/ /\ Fault
        /\ got' = [got EXCEPT ![At(p).id] = @ + 1]
        /\ unclear' = unclear \cup {At(p).id}
        /\ sending' = [sending EXCEPT ![p].pc = "failed"]
  /\ UNCHANGED <<outbox, support>>

\* Save(msg) writes every column of the row; only a failure that is tried
\* again has to wait.
Save(p) ==
  /\ sending[p].pc \in {"sent", "failed"}
  /\ outbox' = [outbox EXCEPT ![At(p).id] =
                  [Tried(At(p).row) EXCEPT
                     !.status = IF sending[p].pc = "sent" THEN "SENT" ELSE @,
                     !.due = sending[p].pc = "sent" \/ At(p).row.attempts + 1 = MaxAttempts]]
  /\ sending' = [sending EXCEPT ![p] = Rest(p)]
  /\ UNCHANGED <<support, got, unclear, faults>>

\* next_retry_at passes.
Rested(row) == row.status = "WAITING" /\ ~row.due

ComesDue(o) ==
  /\ Rested(outbox[o])
  /\ outbox' = [outbox EXCEPT ![o].due = TRUE]
  /\ UNCHANGED <<sending, support, got, unclear, faults>>

\* The process ends; what it called for is not written.
ProcessorDies(p) ==
  /\ Fault
  /\ sending[p].pc # "idle"
  /\ sending' = [sending EXCEPT ![p] = NoBatch]
  /\ unclear' = IF sending[p].pc \in {"sent", "failed"} THEN unclear \cup {At(p).id} ELSE unclear
  /\ UNCHANGED <<outbox, support, got>>

\* retryOutboxMessage: refused for a sent message; the update comes later.
SupportFinds(o) ==
  /\ Fault
  /\ support = NoOut /\ outbox[o].status = "WAITING"
  /\ support' = o
  /\ UNCHANGED <<outbox, sending, got, unclear>>

SupportResets ==
  /\ support # NoOut
  /\ outbox' = [outbox EXCEPT ![support] =
                  [status |-> "WAITING", due |-> TRUE,
                   attempts |-> IF @.attempts >= MaxAttempts THEN MaxAttempts - 1 ELSE @.attempts]]
  /\ unclear' = IF \/ outbox[support].status = "SENT"
                   \/ \E p \in Processors : \E r \in sending[p].batch : r.id = support
                THEN unclear \cup {support} ELSE unclear
  /\ support' = NoOut
  /\ UNCHANGED <<sending, got, faults>>

Work(p) == Select(p) \/ NoCredits(p) \/ Call(p) \/ Save(p)

OutNext ==
  \/ \E p \in Processors : Work(p) \/ ProcessorDies(p)
  \/ \E o \in Outs : ComesDue(o) \/ SupportFinds(o)
  \/ SupportResets

\* The ticker goes on, time passes, and a support request under way ends.
OutFair ==
  /\ \A p \in Processors : WF_<<outVars, faults>>(Work(p))
  /\ \A o \in Outs : WF_<<outVars, faults>>(ComesDue(o))

--------------------------------------------------------------------------------
(* A text reaches the phone once although it is tried several times,       *)
(* unless a processor could not know whether it was sent (the call had no  *)
(* answer, or the process ended before the row was saved) or the support   *)
(* asked for it again while it was being sent (processMessage).            *)
SentOnce == \A o \in Outs \ unclear : got[o] <= 1

(* Every text comes to an end: it is sent, or its attempts are used up     *)
(* (ProcessPending, the delays of processMessage).                         *)
OutboxSettles ==
  \A o \in Outs : outbox[o].status = "WAITING" ~> (outbox[o].status = "SENT" \/ outbox[o].attempts = MaxAttempts)
================================================================================
