------------------------ MODULE Conversation_proofs ------------------------
(***************************************************************************)
(* Proofs about the conversation of a guest and the outbox it leaves its   *)
(* texts in (modules Conversation and Outbox), for any messages, rows,     *)
(* bounds and number of faults.                                            *)
(***************************************************************************)
EXTENDS Conversation, WellFoundedInduction, TLAPS

-----------------------------------------------------------------------------
(* The outbox.  A batch has each row once, as it was read: unsent, with    *)
(* attempts left.                                                          *)
Batches ==
  \A p \in Processors : \A r \in sending[p].batch :
    /\ r.row.status = "WAITING" /\ r.row.attempts < MaxAttempts
    /\ \A q \in sending[p].batch : q.id = r.id => q = r

InFlight(p, o) == sending[p].pc = "sent" /\ At(p).id = o

\* A text that reached the phone is the one at hand, or its row says so; no
\* batch has it as one still to be sent.
Account(o) ==
  /\ got[o] <= 1
  /\ got[o] = 1 =>
       /\ outbox[o].status = "SENT" \/ \E p \in Processors : InFlight(p, o)
       /\ \A p \in Processors : \A r \in sending[p].batch : r.id = o => InFlight(p, o)

Accounted == \A o \in Outs \ unclear : Account(o)

\* What a step of the conversation does to the outbox: nothing, or a new text.
Leaves ==
  /\ SendText \/ UNCHANGED outVars
  /\ Fault \/ UNCHANGED faults

OutStep == OutNext \/ Leaves

LEMMA NextOutStep == Next => OutStep
<1> SUFFICES ASSUME Next PROVE OutStep
  OBVIOUS
<1>1. CASE OutNext /\ UNCHANGED convVars
  BY <1>1 DEF OutStep
<1>2. ASSUME NEW m \in Messages, Webhook(m) \/ SupportRetries(m) PROVE Leaves
  BY <1>2 DEF Webhook, SupportRetries, Leaves
<1>3. ASSUME NEW m \in Messages \cup {Nobody}, Publish(m) \/ PublishFails(m) PROVE Leaves
  BY <1>3 DEF Publish, PublishFails, Leaves
<1>4. ASSUME NEW i \in Inputs, Write(i) PROVE Leaves
  BY <1>4 DEF Write, Leaves
<1>5. CASE \/ Take \/ TakeFails \/ Unknown \/ TakeInput \/ MarkAsProcessed \/ MarkFails
           \/ WorkerDies \/ ConnectionLost \/ WorkerRestarts
  BY <1>5 DEF Take, TakeFails, Unknown, TakeInput, MarkAsProcessed, MarkFails, WorkerDies, ConnectionLost,
              WorkerRestarts, Leaves, OutStep
<1>6. ASSUME NEW c \in Channels, SaveSession(c) \/ AnswerFails(c) PROVE Leaves
  BY <1>6 DEF SaveSession, AnswerFails, Sends, Leaves, outVars
<1>7. ASSUME NEW answer \in {"APPROVE", "REJECT"}, AnswerRequest(answer) PROVE Leaves
  BY <1>7 DEF AnswerRequest, Leaves
<1>8. CASE TakeAnswer \/ TellAnswer \/ CloseTab \/ ReleaseSession \/ ReleaseFails
  BY <1>8 DEF TakeAnswer, TellAnswer, CloseTab, ReleaseSession, ReleaseFails, Sends, Leaves, outVars, OutStep
<1> QED BY <1>1, <1>2, <1>3, <1>4, <1>5, <1>6, <1>7, <1>8 DEF Next, ConvNext, OutStep

LEMMA StutterOutStep == UNCHANGED vars => OutStep
BY DEF vars, OutStep, Leaves

-----------------------------------------------------------------------------
(* Every batch has an oldest row, and SendText a next one.                 *)
LEMMA LeastNumber ==
  ASSUME NEW T, T \subseteq Nat, T # {}
  PROVE  \E n \in T : \A k \in T : n <= k
<1>1. PICK n \in T : \A k \in T : ~(<<k, n>> \in OpToRel(<, Nat))
  BY NatLessThanWellFounded, WFMin
<1>2. \A k \in T : ~(k < n)
  BY <1>1 DEF OpToRel
<1> QED BY <1>2

LEMMA AtInBatch ==
  ASSUME OutTypeOK, NEW p \in Processors, sending[p].pc # "idle"
  PROVE  At(p) \in sending[p].batch
<1> DEFINE batch == sending[p].batch
           ids == {r.id : r \in batch}
<1>1. batch \in SUBSET [id: Outs, row: Row] /\ batch # {}
  BY DEF OutTypeOK
<1>2. ids \subseteq Nat /\ ids # {}
  BY <1>1, OutsNumbered
<1>3. PICK n \in ids : \A k \in ids : n <= k
  BY <1>2, LeastNumber
<1>4. PICK r \in batch : r.id = n
  BY <1>3
<1>5. \A q \in batch : r.id <= q.id
  BY <1>3, <1>4
<1> QED BY <1>4, <1>5 DEF At

LEMMA NextFree ==
  ASSUME Free # {}
  PROVE  (CHOOSE o \in Free : \A q \in Free : o <= q) \in Free
<1>1. Free \subseteq Nat
  BY OutsNumbered DEF Free
<1> QED BY <1>1, LeastNumber

-----------------------------------------------------------------------------
(* The outbox keeps its types, and its batches what they hold.             *)
OutInv == OutTypeOK /\ Batches

LEMMA OutInitOK == OutInit /\ faults = 0 => OutInv
BY OutsNumbered, FaultsBounded
   DEF OutInit, OutInv, OutTypeOK, Batches, Row, NewRow, NoBatch

LEMMA AtRow ==
  ASSUME OutInv, NEW p \in Processors, sending[p].pc # "idle"
  PROVE  /\ At(p) \in sending[p].batch /\ At(p).id \in Outs /\ At(p).row \in Row
         /\ At(p).row.status = "WAITING" /\ At(p).row.attempts < MaxAttempts
<1>1. At(p) \in sending[p].batch /\ sending[p].batch \in SUBSET [id: Outs, row: Row]
  BY AtInBatch DEF OutInv, OutTypeOK
<1> QED BY <1>1 DEF OutInv, Batches

\* A processor goes on with a batch that is a part of the one it had.
LEMMA SendingKept ==
  ASSUME OutInv, NEW p \in Processors, NEW b \in [pc: {"idle", "next", "sent", "failed"}, batch: SUBSET [id: Outs, row: Row]],
         b.batch \subseteq sending[p].batch, b.pc = "idle" <=> b.batch = {},
         sending' = [sending EXCEPT ![p] = b]
  PROVE  /\ sending' \in [Processors -> [pc: {"idle", "next", "sent", "failed"}, batch: SUBSET [id: Outs, row: Row]]]
         /\ \A q \in Processors : sending'[q].pc = "idle" <=> sending'[q].batch = {}
         /\ Batches'
<1>1. sending' \in [Processors -> [pc: {"idle", "next", "sent", "failed"}, batch: SUBSET [id: Outs, row: Row]]]
  BY DEF OutInv, OutTypeOK
<1>2. \A q \in Processors : sending'[q] = IF q = p THEN b ELSE sending[q]
  BY DEF OutInv, OutTypeOK
<1>3. \A q \in Processors : sending'[q].pc = "idle" <=> sending'[q].batch = {}
  BY <1>2 DEF OutInv, OutTypeOK
<1>4. \A q \in Processors : sending'[q].batch \subseteq sending[q].batch
  BY <1>2
<1>5. Batches'
  BY <1>4 DEF OutInv, Batches
<1> QED BY <1>1, <1>3, <1>5

LEMMA RestOK ==
  ASSUME OutInv, NEW p \in Processors, sending[p].pc # "idle"
  PROVE  /\ Rest(p) \in [pc: {"idle", "next", "sent", "failed"}, batch: SUBSET [id: Outs, row: Row]]
         /\ Rest(p).batch = sending[p].batch \ {At(p)}
         /\ Rest(p).pc = "idle" <=> Rest(p).batch = {}
         /\ Rest(p).pc \in {"idle", "next"}
BY DEF Rest, OutInv, OutTypeOK

\* Most steps write one row, or count one text.
LEMMA RowKept ==
  ASSUME OutInv, NEW o \in Outs, NEW row \in Row, outbox' = [outbox EXCEPT ![o] = row]
  PROVE  outbox' \in [Outs -> Row]
BY DEF OutInv, OutTypeOK

LEMMA FaultOK ==
  ASSUME OutInv, Fault \/ UNCHANGED faults
  PROVE  faults' \in 0..MaxFaults
BY FaultsBounded DEF OutInv, OutTypeOK, Fault

LEMMA SendTextOK ==
  ASSUME OutInv, SendText, Fault \/ UNCHANGED faults
  PROVE  OutInv'
<1> DEFINE next == CHOOSE o \in Free : \A q \in Free : o <= q
           row == [NewRow EXCEPT !.status = "WAITING", !.due = TRUE]
<1>1. next \in Outs
  BY NextFree DEF SendText, Free
<1>2. row \in Row
  <2>1. NewRow \in Row
    BY OutsNumbered DEF NewRow, Row
  <2> QED BY <2>1 DEF Row
<1>3. outbox' = [outbox EXCEPT ![next] = row]
  BY DEF SendText
<1>4. outbox' \in [Outs -> Row]
  BY <1>1, <1>2, <1>3, RowKept
<1> QED BY <1>4, FaultOK DEF OutInv, OutTypeOK, SendText, Batches

LEMMA SelectOK ==
  ASSUME OutInv, NEW p \in Processors, Select(p)
  PROVE  OutInv'
<1> DEFINE due == {o \in Outs : Pending(outbox[o])}
           b == [pc |-> "next", batch |-> {[id |-> o, row |-> outbox[o]] : o \in due}]
<1>1. sending' = [sending EXCEPT ![p] = b]
  BY DEF Select
<1>2. b.pc = "next" /\ b.batch \in SUBSET [id: Outs, row: Row] /\ b.batch # {}
  <2>1. due # {}
    BY DEF Select
  <2>2. \A o \in Outs : outbox[o] \in Row
    BY DEF OutInv, OutTypeOK
  <2>3. \A o \in due : [id |-> o, row |-> outbox[o]] \in [id: Outs, row: Row]
    BY <2>2
  <2>4. PICK o \in due : TRUE
    BY <2>1
  <2>5. [id |-> o, row |-> outbox[o]] \in b.batch
    OBVIOUS
  <2> QED BY <2>3, <2>5
<1>3. \A r \in b.batch : r.id \in due /\ r = [id |-> r.id, row |-> outbox[r.id]]
  OBVIOUS
<1>4. \A r \in b.batch : /\ r.row.status = "WAITING" /\ r.row.attempts < MaxAttempts
                         /\ \A q \in b.batch : q.id = r.id => q = r
  BY <1>3 DEF Pending
<1> HIDE DEF b
<1>5. \A q \in Processors : sending'[q] = IF q = p THEN b ELSE sending[q]
  BY <1>1 DEF OutInv, OutTypeOK
<1>6. b \in [pc: {"idle", "next", "sent", "failed"}, batch: SUBSET [id: Outs, row: Row]]
  BY <1>2 DEF b
<1>7. sending' \in [Processors -> [pc: {"idle", "next", "sent", "failed"}, batch: SUBSET [id: Outs, row: Row]]]
  BY <1>1, <1>6 DEF OutInv, OutTypeOK
<1>8. \A q \in Processors : sending'[q].pc = "idle" <=> sending'[q].batch = {}
  BY <1>2, <1>5 DEF OutInv, OutTypeOK
<1>9. Batches'
  BY <1>4, <1>5 DEF OutInv, Batches
<1> QED BY <1>7, <1>8, <1>9 DEF OutInv, OutTypeOK, Select

LEMMA NoCreditsOK ==
  ASSUME OutInv, NEW p \in Processors, NoCredits(p)
  PROVE  OutInv'
<1> DEFINE row == [At(p).row EXCEPT !.attempts = MaxAttempts]
<1>1. row \in Row /\ At(p).id \in Outs
  BY AtRow, OutsNumbered DEF NoCredits, Row
<1>2. outbox' \in [Outs -> Row]
  BY <1>1, RowKept DEF NoCredits
<1>3. sending' = [sending EXCEPT ![p] = Rest(p)] /\ Rest(p).batch \subseteq sending[p].batch
  BY RestOK DEF NoCredits
<1> QED BY <1>2, <1>3, RestOK, SendingKept DEF NoCredits, OutInv, OutTypeOK

LEMMA CallOK ==
  ASSUME OutInv, NEW p \in Processors, Call(p)
  PROVE  OutInv'
<1>1. PICK pc \in {"sent", "failed"} : sending' = [sending EXCEPT ![p].pc = pc]
  BY DEF Call
<1> DEFINE b == [sending[p] EXCEPT !.pc = pc]
<1>2. sending' = [sending EXCEPT ![p] = b]
  BY <1>1
<1>3. b \in [pc: {"idle", "next", "sent", "failed"}, batch: SUBSET [id: Outs, row: Row]]
  BY DEF OutInv, OutTypeOK
<1>4. b.batch = sending[p].batch /\ (b.pc = "idle" <=> b.batch = {})
  BY DEF Call, OutInv, OutTypeOK
<1>5. At(p).id \in Outs
  BY AtRow DEF Call
<1>6. got' \in [Outs -> Nat] /\ unclear' \subseteq Outs
  BY <1>5 DEF Call, OutInv, OutTypeOK
<1>7. faults' \in 0..MaxFaults
  BY FaultOK DEF Call
<1> HIDE DEF b
<1>8. /\ sending' \in [Processors -> [pc: {"idle", "next", "sent", "failed"}, batch: SUBSET [id: Outs, row: Row]]]
      /\ \A q \in Processors : sending'[q].pc = "idle" <=> sending'[q].batch = {}
      /\ Batches'
  BY <1>2, <1>3, <1>4, SendingKept
<1> QED BY <1>6, <1>7, <1>8 DEF OutInv, OutTypeOK, Call

LEMMA SaveOK ==
  ASSUME OutInv, NEW p \in Processors, Save(p)
  PROVE  OutInv'
<1> DEFINE old == At(p).row
           sent == sending[p].pc = "sent"
           row == [Tried(old) EXCEPT !.status = IF sent THEN "SENT" ELSE @,
                                     !.due = sent \/ old.attempts + 1 = MaxAttempts]
<1>1. sending[p].pc # "idle"
  BY DEF Save
<1>2. old \in Row /\ old.attempts < MaxAttempts /\ At(p).id \in Outs
  BY <1>1, AtRow
<1>3. old.attempts + 1 \in 0..MaxAttempts
  BY <1>2, OutsNumbered DEF Row
<1>4. Tried(old) \in Row
  BY <1>2, <1>3 DEF Tried, Row
<1>5. (sent \/ old.attempts + 1 = MaxAttempts) \in BOOLEAN
  OBVIOUS
<1>6. row \in Row
  BY <1>4, <1>5 DEF Row
<1>7. outbox' = [outbox EXCEPT ![At(p).id] = row]
  BY DEF Save
<1>8. outbox' \in [Outs -> Row]
  BY <1>2, <1>6, <1>7, RowKept
<1>9. sending' = [sending EXCEPT ![p] = Rest(p)] /\ Rest(p).batch \subseteq sending[p].batch
  BY <1>1, RestOK DEF Save
<1> QED BY <1>1, <1>8, <1>9, RestOK, SendingKept DEF Save, OutInv, OutTypeOK

LEMMA ComesDueOK ==
  ASSUME OutInv, NEW o \in Outs, ComesDue(o)
  PROVE  OutInv'
<1>1. outbox[o] \in Row
  BY DEF OutInv, OutTypeOK
<1>2. [outbox[o] EXCEPT !.due = TRUE] \in Row
  BY <1>1 DEF Row
<1>3. outbox' = [outbox EXCEPT ![o] = [outbox[o] EXCEPT !.due = TRUE]]
  BY DEF ComesDue
<1>4. outbox' \in [Outs -> Row]
  BY <1>2, <1>3, RowKept
<1> QED BY <1>4 DEF ComesDue, OutInv, OutTypeOK, Batches

LEMMA ProcessorDiesOK ==
  ASSUME OutInv, NEW p \in Processors, ProcessorDies(p)
  PROVE  OutInv'
<1>1. NoBatch \in [pc: {"idle", "next", "sent", "failed"}, batch: SUBSET [id: Outs, row: Row]]
  BY DEF NoBatch
<1>2. NoBatch.batch = {} /\ NoBatch.pc = "idle"
  BY DEF NoBatch
<1>3. /\ sending' \in [Processors -> [pc: {"idle", "next", "sent", "failed"}, batch: SUBSET [id: Outs, row: Row]]]
      /\ \A q \in Processors : sending'[q].pc = "idle" <=> sending'[q].batch = {}
      /\ Batches'
  BY <1>1, <1>2, SendingKept DEF ProcessorDies
<1>4. At(p).id \in Outs
  BY AtRow DEF ProcessorDies
<1>5. unclear' \subseteq Outs
  BY <1>4 DEF ProcessorDies, OutInv, OutTypeOK
<1> QED BY <1>3, <1>5, FaultOK DEF ProcessorDies, OutInv, OutTypeOK

LEMMA SupportOK ==
  ASSUME OutInv, SupportResets \/ \E o \in Outs : SupportFinds(o)
  PROVE  OutInv'
<1>1. CASE SupportResets
  <2>1. support \in Outs
    BY <1>1 DEF SupportResets, OutInv, OutTypeOK
  <2> DEFINE row == [status |-> "WAITING", due |-> TRUE,
                     attempts |-> IF outbox[support].attempts >= MaxAttempts THEN MaxAttempts - 1
                                  ELSE outbox[support].attempts]
  <2>2. outbox[support] \in Row
    BY <2>1 DEF OutInv, OutTypeOK
  <2>3. row \in Row
    BY <2>2, OutsNumbered DEF Row
  <2>4. outbox' \in [Outs -> Row]
    BY <1>1, <2>1, <2>3, RowKept DEF SupportResets
  <2>5. unclear' \subseteq Outs
    BY <1>1, <2>1 DEF SupportResets, OutInv, OutTypeOK
  <2> QED BY <1>1, <2>4, <2>5 DEF SupportResets, OutInv, OutTypeOK, Batches
<1>2. ASSUME NEW o \in Outs, SupportFinds(o) PROVE OutInv'
  BY <1>2, FaultOK DEF SupportFinds, OutInv, OutTypeOK, Batches
<1> QED BY <1>1, <1>2

LEMMA OutStepOK == OutInv /\ OutStep => OutInv'
<1> SUFFICES ASSUME OutInv, OutStep PROVE OutInv'
  OBVIOUS
<1>1. CASE OutNext
  <2>1. ASSUME NEW p \in Processors, Work(p) \/ ProcessorDies(p) PROVE OutInv'
    BY <2>1, SelectOK, NoCreditsOK, CallOK, SaveOK, ProcessorDiesOK DEF Work
  <2> QED BY <1>1, <2>1, ComesDueOK, SupportOK DEF OutNext
<1>2. CASE Leaves
  <2>1. CASE SendText
    BY <1>2, <2>1, SendTextOK DEF Leaves
  <2>2. CASE UNCHANGED outVars
    BY <1>2, <2>2, FaultOK DEF Leaves, outVars, OutInv, OutTypeOK, Batches
  <2> QED BY <1>2, <2>1, <2>2 DEF Leaves
<1> QED BY <1>1, <1>2 DEF OutStep

-----------------------------------------------------------------------------
(* A text leaves once, as long as one process works on the outbox: two     *)
(* would read the same rows.                                               *)
OneProcessor == \A p, q \in Processors : p = q

\* Between two texts, what reached the phone is written, and is not in the batch.
LEMMA NoneInFlight ==
  ASSUME OneProcessor, Accounted, NEW p \in Processors, sending[p].pc # "sent",
         NEW o \in Outs \ unclear, got[o] = 1
  PROVE  /\ outbox[o].status = "SENT"
         /\ \A q \in Processors : \A r \in sending[q].batch : r.id # o
BY DEF OneProcessor, Accounted, Account, InFlight

LEMMA AccountSendText ==
  ASSUME OutInv, Accounted, SendText
  PROVE  Accounted'
<1> DEFINE next == CHOOSE o \in Free : \A q \in Free : o <= q
<1>1. next \in Outs /\ outbox[next].status = "NONE"
  BY NextFree DEF SendText, Free
<1>2. \A o \in Outs : o # next => outbox'[o] = outbox[o]
  BY DEF SendText, OutInv, OutTypeOK
<1> HIDE DEF next
<1>3. \A o \in Outs : outbox[o].status = "SENT" => outbox'[o].status = "SENT"
  BY <1>1, <1>2
<1>4. UNCHANGED <<sending, got, unclear>>
  BY DEF SendText
<1> QED BY <1>3, <1>4 DEF Accounted, Account, InFlight, At

LEMMA AccountSelect ==
  ASSUME OneProcessor, OutInv, Accounted, NEW p \in Processors, Select(p)
  PROVE  Accounted'
<1>1. sending[p].pc = "idle" /\ UNCHANGED <<outbox, got, unclear>>
  BY DEF Select
<1>2. \A r \in sending'[p].batch : r.id \in Outs /\ outbox[r.id].status = "WAITING"
  BY DEF Select, Pending, OutInv, OutTypeOK
<1>3. \A q \in Processors : q = p
  BY DEF OneProcessor
<1> QED BY <1>1, <1>2, <1>3, NoneInFlight DEF Accounted, Account

LEMMA AccountNoCredits ==
  ASSUME OneProcessor, OutInv, Accounted, NEW p \in Processors, NoCredits(p)
  PROVE  Accounted'
<1>1. sending[p].pc = "next" /\ UNCHANGED <<got, unclear>>
  BY DEF NoCredits
<1>2. At(p) \in sending[p].batch /\ At(p).id \in Outs
  BY <1>1, AtRow
<1>3. \A o \in Outs : o # At(p).id => outbox'[o] = outbox[o]
  BY DEF NoCredits, OutInv, OutTypeOK
<1>4. sending'[p].batch \subseteq sending[p].batch
  BY <1>1, RestOK DEF NoCredits, OutInv, OutTypeOK
<1>5. \A q \in Processors : q = p
  BY DEF OneProcessor
<1> QED BY <1>1, <1>2, <1>3, <1>4, <1>5, NoneInFlight DEF Accounted, Account

LEMMA AccountCall ==
  ASSUME OneProcessor, OutInv, Accounted, NEW p \in Processors, Call(p)
  PROVE  Accounted'
<1> DEFINE a == At(p).id
<1>1. sending[p].pc = "next" /\ UNCHANGED outbox
  BY DEF Call
<1>2. At(p) \in sending[p].batch /\ a \in Outs
  BY <1>1, AtRow
<1>3. sending'[p].batch = sending[p].batch /\ At(p)' = At(p)
  BY DEF Call, At, OutInv, OutTypeOK
<1>4. \A q \in Processors : q = p
  BY DEF OneProcessor
<1>5. \A o \in Outs : o # a => got'[o] = got[o]
  BY DEF Call, OutInv, OutTypeOK
<1>6. unclear \subseteq unclear'
  BY DEF Call
<1>7. a \notin unclear' => \/ got'[a] = got[a]
                           \/ got'[a] = got[a] + 1 /\ sending'[p].pc = "sent"
  BY <1>2 DEF Call, OutInv, OutTypeOK
<1>8. a \notin unclear' => got[a] = 0
  <2>1. a \notin unclear' => got[a] # 1
    BY <1>1, <1>2, <1>6, NoneInFlight
  <2>2. a \notin unclear' => got[a] <= 1 /\ got[a] \in Nat
    BY <1>2, <1>6 DEF Accounted, Account, OutInv, OutTypeOK
  <2> QED BY <2>1, <2>2
<1>9. ASSUME NEW o \in Outs \ unclear' PROVE Account(o)'
  <2>1. CASE o = a
    BY <2>1, <1>3, <1>4, <1>7, <1>8 DEF Account, InFlight
  <2>2. CASE o # a
    <3>1. o \in Outs \ unclear /\ got'[o] = got[o] /\ got[o] <= 1
      BY <2>2, <1>5, <1>6 DEF Accounted, Account
    <3>2. got[o] = 1 => outbox'[o].status = "SENT" /\ \A r \in sending'[p].batch : r.id # o
      BY <3>1, <1>1, <1>3, NoneInFlight
    <3> QED BY <3>1, <3>2, <1>4 DEF Account
  <2> QED BY <2>1, <2>2
<1> QED BY <1>9 DEF Accounted

LEMMA AccountSave ==
  ASSUME OneProcessor, OutInv, Accounted, NEW p \in Processors, Save(p)
  PROVE  Accounted'
<1> DEFINE a == At(p).id
<1>1. sending[p].pc \in {"sent", "failed"} /\ UNCHANGED <<got, unclear>>
  BY DEF Save
<1>2. At(p) \in sending[p].batch /\ a \in Outs /\ At(p).row \in Row
  BY <1>1, AtRow
<1>3. \A o \in Outs : o # a => outbox'[o] = outbox[o]
  BY DEF Save, OutInv, OutTypeOK
<1>4. sending'[p].batch = sending[p].batch \ {At(p)}
  BY <1>1, RestOK DEF Save, OutInv, OutTypeOK
<1>5. \A r \in sending'[p].batch : r.id # a
  BY <1>2, <1>4 DEF OutInv, Batches
<1>6. sending[p].pc = "sent" => outbox'[a].status = "SENT"
  <2>1. Tried(At(p).row) \in [status: {"NONE", "WAITING", "SENT"}, attempts: Nat, due: BOOLEAN]
    BY <1>2, OutsNumbered DEF Tried, Row
  <2> QED BY <1>2, <2>1 DEF Save, OutInv, OutTypeOK
<1>7. \A q \in Processors : q = p
  BY DEF OneProcessor
<1>8. ASSUME NEW o \in Outs \ unclear' PROVE Account(o)'
  <2>1. o \in Outs \ unclear /\ got'[o] = got[o] /\ Account(o)
    BY <1>1 DEF Accounted
  <2>2. CASE o = a
    BY <2>1, <2>2, <1>2, <1>5, <1>6, <1>7 DEF Account, InFlight
  <2>3. CASE o # a
    BY <2>1, <2>3, <1>3, <1>4, <1>7 DEF Account, InFlight
  <2> QED BY <2>2, <2>3
<1> QED BY <1>8 DEF Accounted

LEMMA AccountOthers ==
  ASSUME OneProcessor, OutInv, Accounted,
         \/ \E o \in Outs : ComesDue(o) \/ SupportFinds(o)
         \/ SupportResets
         \/ \E p \in Processors : ProcessorDies(p)
  PROVE  Accounted'
<1>1. ASSUME NEW o \in Outs, ComesDue(o) PROVE Accounted'
  <2>1. \A q \in Outs : outbox'[q].status = outbox[q].status
    BY <1>1 DEF ComesDue, OutInv, OutTypeOK
  <2> QED BY <1>1, <2>1 DEF ComesDue, Accounted, Account, InFlight, At
<1>2. ASSUME NEW o \in Outs, SupportFinds(o) PROVE Accounted'
  BY <1>2 DEF SupportFinds, Accounted, Account, InFlight, At
<1>3. CASE SupportResets
  <2>1. support \in Outs /\ UNCHANGED <<sending, got>> /\ unclear \subseteq unclear'
    BY <1>3 DEF SupportResets, OutInv, OutTypeOK
  <2>2. \A o \in Outs : o # support => outbox'[o] = outbox[o]
    BY <1>3 DEF SupportResets, OutInv, OutTypeOK
  <2>3. support \notin unclear' => /\ outbox[support].status # "SENT"
                                   /\ \A p \in Processors : \A r \in sending[p].batch : r.id # support
    BY <1>3 DEF SupportResets
  <2>4. \A p \in Processors : InFlight(p, support) => \E r \in sending[p].batch : r.id = support
    BY AtRow DEF InFlight
  <2>5. support \notin unclear' => got[support] # 1
    BY <2>1, <2>3, <2>4 DEF Accounted, Account
  <2> QED BY <2>1, <2>2, <2>5 DEF Accounted, Account, InFlight, At
<1>4. ASSUME NEW p \in Processors, ProcessorDies(p) PROVE Accounted'
  <2>1. sending'[p].batch = {} /\ UNCHANGED <<outbox, got>> /\ unclear \subseteq unclear'
    BY <1>4 DEF ProcessorDies, NoBatch, OutInv, OutTypeOK
  <2>2. sending[p].pc = "sent" => At(p).id \in unclear'
    BY <1>4 DEF ProcessorDies
  <2>3. \A q \in Processors : q = p
    BY DEF OneProcessor
  <2> QED BY <2>1, <2>2, <2>3 DEF Accounted, Account, InFlight
<1> QED BY <1>1, <1>2, <1>3, <1>4

LEMMA AccountedStep == OneProcessor /\ OutInv /\ Accounted /\ OutStep => Accounted'
<1> SUFFICES ASSUME OneProcessor, OutInv, Accounted, OutStep PROVE Accounted'
  OBVIOUS
<1>1. ASSUME NEW p \in Processors, Work(p) PROVE Accounted'
  BY <1>1, AccountSelect, AccountNoCredits, AccountCall, AccountSave DEF Work
<1>2. CASE OutNext
  BY <1>1, <1>2, AccountOthers DEF OutNext
<1>3. CASE UNCHANGED outVars
  BY <1>3 DEF outVars, Accounted, Account, InFlight, At
<1> QED BY <1>2, <1>3, AccountSendText DEF OutStep, Leaves

-----------------------------------------------------------------------------
(* The messages.  Each consumer takes from a queue of its own.             *)
Hands ==
  /\ doing["whatsapp"].item \in Messages \cup {Nobody}
  /\ doing["portal"].item \in Inputs \cup {Nobody}
  /\ doing["tables"].item = Nobody

\* Nothing was done about m yet.
Untouched(m) ==
  /\ \A i \in 1..Len(orders) : orders[i].by # m /\ orders[i].line # m
  /\ session.cart.line # m
  /\ \A c \in Channels : doing[c].item # m /\ doing[c].sess.cart.line # m

Single(q, e) == \A i, j \in 1..Len(q) : q[i] = e /\ q[j] = e => i = j

\* A WhatsApp message is in one place at a time, and until it is taken
\* nothing was done about it.
MessageOnce(m) ==
  /\ inbox[m] = "NONE" => m \notin publishing /\ ~Contains(queue, m)
  /\ m \in publishing => ~Contains(queue, m)
  /\ Single(queue, m)
  /\ inbox[m] = "NONE" \/ m \in publishing \/ Contains(queue, m) => Untouched(m)

MessagesOnce == \A m \in Messages \ again : MessageOnce(m)

\* So is a message of the portal, which has a text once it is taken.
InputOnce(n) ==
  /\ Contains(portal, n) => text[n] = "none"
  /\ Single(portal, n)
  /\ text[n] = "none" => Untouched(n)

InputsOnce == \A n \in Inputs \ again : InputOnce(n)

-----------------------------------------------------------------------------
(* What a text leads to.  The cart that comes of it is the one there was,  *)
(* none, or one the message itself began; a confirmation orders the whole  *)
(* of it and leaves none.                                                  *)
Requests == {"NONE", "PENDING", "APPROVED", "REJECTED"}

Outcome(s, m, out) ==
  /\ out.sess \in Sessions /\ out.request \in Requests /\ out.ordered \in 0..MaxUnits
  /\ out.sess.cart.line \in {s.cart.line, m, Nobody}
  /\ out.sess.cart.units > 0 => \/ s.cart.units > 0 /\ out.sess.cart.line = s.cart.line
                                \/ out.sess.cart.line = m
  /\ out.ordered > 0 /\ s.state = "CONFIRMING_ORDER" =>
       out.ordered = s.cart.units /\ out.sess.cart.units = 0

LEMMA SessionParts ==
  ASSUME NEW s \in Sessions
  PROVE  /\ s.live \in BOOLEAN /\ s.state \in States
         /\ s.cart.line \in Messages \cup Inputs \cup {Nobody} /\ s.cart.units \in 0..MaxUnits
BY DEF Sessions

LEMMA NoCartParts == NoCart.line = Nobody /\ NoCart.units = 0
BY DEF NoCart

LEMMA GoneParts == Gone \in Sessions /\ Gone.cart = NoCart /\ ~Gone.live /\ Gone.state = "WELCOME"
BY SomeUnits DEF Gone, Sessions, NoCart, States

LEMMA Moved ==
  ASSUME NEW s \in Sessions, NEW state \in States
  PROVE  /\ [s EXCEPT !.state = state] \in Sessions
         /\ [s EXCEPT !.state = state].cart = s.cart
         /\ [s EXCEPT !.state = state].state = state
BY DEF Sessions

LEMMA NewParts ==
  ASSUME NEW state \in States
  PROVE  New(state) \in Sessions /\ New(state).cart = NoCart /\ New(state).state = state /\ New(state).live
BY GoneParts DEF New, Sessions

LEMMA Emptying ==
  ASSUME NEW s \in Sessions, NEW state \in States
  PROVE  /\ [s EXCEPT !.cart = NoCart, !.state = state] \in Sessions
         /\ [s EXCEPT !.cart = NoCart, !.state = state].cart = NoCart
         /\ [s EXCEPT !.cart = NoCart, !.state = state].state = state
<1>1. NoCart \in [line: Messages \cup Inputs \cup {Nobody}, units: 0..MaxUnits]
  BY SomeUnits DEF NoCart
<1> QED BY <1>1 DEF Sessions

LEMMA StaysOutcome ==
  ASSUME NEW s \in Sessions, NEW m, NEW new \in Sessions, request \in Requests,
         new.cart = s.cart \/ new.cart = NoCart
  PROVE  Outcome(s, m, Stays(new))
<1>1. Stays(new).sess = new /\ Stays(new).request = request /\ Stays(new).ordered = 0
  BY DEF Stays
<1>2. 0 \in 0..MaxUnits
  BY SomeUnits
<1> QED BY <1>1, <1>2, NoCartParts DEF Outcome

LEMMA GoesToOutcome ==
  ASSUME NEW s \in Sessions, NEW m, NEW state \in States, request \in Requests
  PROVE  Outcome(s, m, GoesTo(s, state))
BY Moved, StaysOutcome DEF GoesTo

LEMMA BackToMenuOutcome ==
  ASSUME NEW s \in Sessions, NEW m, request \in Requests
  PROVE  Outcome(s, m, BackToMenu(s))
<1>1. "MAIN_MENU" \in States
  BY DEF States
<1>2. Emptied(s) \in Sessions /\ Emptied(s).cart = NoCart
  BY <1>1, Emptying DEF Emptied
<1> QED BY <1>2, StaysOutcome DEF BackToMenu

LEMMA ResetParts ==
  ASSUME NEW s \in Sessions
  PROVE  Reset(s) \in Sessions /\ Reset(s).cart = NoCart /\ Reset(s).state = "WELCOME"
<1>1. "WELCOME" \in States
  BY DEF States
<1> QED BY <1>1, Emptying DEF Reset

LEMMA StartOrderingOutcome ==
  ASSUME NEW s \in Sessions, NEW m, request \in Requests
  PROVE  Outcome(s, m, StartOrdering(s))
<1>1. {"ORDERING", "WELCOME"} \subseteq States
  BY DEF States
<1> QED BY <1>1, GoesToOutcome DEF StartOrdering

LEMMA HoldingParts ==
  ASSUME NEW s \in Sessions, NEW line \in Messages \cup Inputs \cup {Nobody}, NEW n \in 0..MaxUnits
  PROVE  /\ Holding(s, line, n) \in Sessions
         /\ Holding(s, line, n).cart.line = line /\ Holding(s, line, n).cart.units = n
<1> DEFINE cart == [line |-> line, units |-> n]
<1>1. cart \in [line: Messages \cup Inputs \cup {Nobody}, units: 0..MaxUnits]
  OBVIOUS
<1>2. "CONFIRMING_ORDER" \in States
  BY DEF States
<1>3. cart.line = line /\ cart.units = n
  OBVIOUS
<1> HIDE DEF cart
<1>4. [s EXCEPT !.cart = cart, !.state = "CONFIRMING_ORDER"] \in Sessions
  BY <1>1, <1>2 DEF Sessions
<1>5. [s EXCEPT !.cart = cart, !.state = "CONFIRMING_ORDER"].cart = cart
  BY DEF Sessions
<1>6. Holding(s, line, n) = [s EXCEPT !.cart = cart, !.state = "CONFIRMING_ORDER"]
  BY DEF Holding, cart
<1> QED BY <1>3, <1>4, <1>5, <1>6

\* Units are put into the cart there is, or into one the message begins.
LEMMA HoldingOutcome ==
  ASSUME NEW s \in Sessions, NEW m \in Messages \cup Inputs, request \in Requests,
         NEW line \in {s.cart.line, m}, line = s.cart.line => s.cart.units > 0 \/ line = m,
         NEW n \in 0..MaxUnits
  PROVE  Outcome(s, m, Stays(Holding(s, line, n)))
<1> DEFINE new == Holding(s, line, n)
<1>1. line \in Messages \cup Inputs \cup {Nobody}
  BY SessionParts
<1>2. new \in Sessions /\ new.cart.line = line /\ new.cart.units = n
  BY <1>1, HoldingParts
<1> HIDE DEF new
<1>3. Stays(new).sess = new /\ Stays(new).request = request /\ Stays(new).ordered = 0
  BY DEF Stays
<1>4. 0 \in 0..MaxUnits
  BY SomeUnits
<1>5. Outcome(s, m, Stays(new))
  BY <1>2, <1>3, <1>4 DEF Outcome
<1> QED BY <1>5 DEF new

LEMMA Units ==
  ASSUME NEW a \in Nat
  PROVE  Least(MaxUnits, a) \in 0..MaxUnits
BY SomeUnits DEF Least

LEMMA Numbers == \A t : AsNumber(t) \in Nat
BY DEF AsNumber

OrderRecord == [by: Messages \cup Inputs, cart: BOOLEAN, line: Messages \cup Inputs \cup {Nobody},
                units: 1..MaxUnits, shown: 0..MaxUnits, mixed: BOOLEAN]

ConvTypes == request \in Requests /\ orders \in Seq(OrderRecord)

LEMMA LastIn ==
  ASSUME NEW S, NEW q \in Seq(S), q # <<>>
  PROVE  q[Len(q)] \in S
<1>1. Len(q) \in 1..Len(q)
  OBVIOUS
<1> QED BY <1>1

LEMMA WelcomeMenuOutcome ==
  ASSUME ConvTypes, NEW s \in Sessions, NEW m, NEW t
  PROVE  Outcome(s, m, WelcomeMenu(s, t))
<1>1. {"WAITING_TAB_CODE", "WAITING_ADMIN_APPROVAL"} \subseteq States
  BY DEF States
<1> DEFINE new == [Reset(s) EXCEPT !.state = "WAITING_ADMIN_APPROVAL"]
           out == [Stays(new) EXCEPT !.request = "PENDING"]
<1>2. new \in Sessions /\ new.cart = NoCart
  BY <1>1, ResetParts, Moved
<1>3. Outcome(s, m, Stays(new))
  BY <1>2, StaysOutcome DEF ConvTypes
<1> HIDE DEF new
<1>4. out.sess = Stays(new).sess /\ out.ordered = Stays(new).ordered /\ out.request = "PENDING"
  BY DEF Stays
<1>5. Outcome(s, m, out)
  BY <1>3, <1>4 DEF Outcome, Requests
<1>6. Outcome(s, m, GoesTo(s, "WAITING_TAB_CODE")) /\ Outcome(s, m, GoesTo(s, "WAITING_ADMIN_APPROVAL"))
  BY <1>1, GoesToOutcome DEF ConvTypes
<1>7. Outcome(s, m, Stays(s))
  BY StaysOutcome DEF ConvTypes
<1> HIDE DEF out
<1>8. WelcomeMenu(s, t) \in {GoesTo(s, "WAITING_TAB_CODE"), GoesTo(s, "WAITING_ADMIN_APPROVAL"), out, Stays(s)}
  BY DEF WelcomeMenu, out, new
<1> QED BY <1>5, <1>6, <1>7, <1>8

LEMMA TabCodeOutcome ==
  ASSUME ConvTypes, NEW s \in Sessions, NEW m, NEW t
  PROVE  Outcome(s, m, TabCode(s, t))
<1>1. "MAIN_MENU" \in States
  BY DEF States
<1>2. TabCode(s, t) \in {Stays(Reset(s)), GoesTo(s, "MAIN_MENU"), Stays(s)}
  BY DEF TabCode
<1> QED BY <1>1, <1>2, ResetParts, GoesToOutcome, StaysOutcome DEF ConvTypes

LEMMA WaitingAdminApprovalOutcome ==
  ASSUME ConvTypes, NEW s \in Sessions, NEW m, NEW t
  PROVE  Outcome(s, m, WaitingAdminApproval(s, t))
<1>1. Outcome(s, m, Stays(Reset(s))) /\ Outcome(s, m, Stays(s))
  BY ResetParts, StaysOutcome DEF ConvTypes
<1>2. PICK new : new = Reset(s)
  OBVIOUS
<1> DEFINE out == [Stays(new) EXCEPT !.request = IF @ = "PENDING" THEN "REJECTED" ELSE @]
<1>3. out.sess = Stays(new).sess /\ out.ordered = Stays(new).ordered /\ out.request \in Requests
  BY DEF Stays, ConvTypes, Requests
<1>4. Outcome(s, m, out)
  BY <1>1, <1>2, <1>3 DEF Outcome
<1> QED BY <1>1, <1>2, <1>4 DEF WaitingAdminApproval

LEMMA MainMenuOutcome ==
  ASSUME ConvTypes, NEW s \in Sessions, s.state # "CONFIRMING_ORDER", NEW m, NEW t
  PROVE  Outcome(s, m, MainMenu(s, t))
<1>1. "WAITING_ADMIN_APPROVAL" \in States
  BY DEF States
<1> DEFINE round == [Stays(s) EXCEPT !.ordered = Last(orders).units]
<1>2. ASSUME orders # <<>> PROVE Outcome(s, m, round)
  <2>1. orders[Len(orders)].units \in 1..MaxUnits
    BY <1>2, LastIn DEF ConvTypes, OrderRecord
  <2>2. round.sess = s /\ round.request = request /\ round.ordered \in 0..MaxUnits
    BY <2>1, SomeUnits DEF Stays, Last
  <2> QED BY <2>2 DEF Outcome, ConvTypes
<1>3. Outcome(s, m, GoesTo(s, "WAITING_ADMIN_APPROVAL"))
  BY <1>1, GoesToOutcome DEF ConvTypes
<1>4. Outcome(s, m, StartOrdering(s))
  BY StartOrderingOutcome DEF ConvTypes
<1>5. Outcome(s, m, Stays(s)) /\ Outcome(s, m, Stays(Reset(s)))
  BY ResetParts, StaysOutcome DEF ConvTypes
<1> HIDE DEF round
<1>6. \/ orders # <<>> /\ MainMenu(s, t) = round
      \/ MainMenu(s, t) \in {GoesTo(s, "WAITING_ADMIN_APPROVAL"), StartOrdering(s), Stays(s), Stays(Reset(s))}
  BY DEF MainMenu, round
<1> QED BY <1>2, <1>3, <1>4, <1>5, <1>6

LEMMA OrderingOutcome ==
  ASSUME ConvTypes, NEW s \in Sessions, NEW m, NEW t
  PROVE  Outcome(s, m, Ordering(s, t))
<1>1. "SELECTING_QTY" \in States
  BY DEF States
<1>2. Ordering(s, t) \in {BackToMenu(s), GoesTo(s, "SELECTING_QTY"), Stays(s)}
  BY DEF Ordering
<1> QED BY <1>1, <1>2, BackToMenuOutcome, GoesToOutcome, StaysOutcome DEF ConvTypes

LEMMA QuantitySelectionOutcome ==
  ASSUME ConvTypes, NEW s \in Sessions, NEW m \in Messages \cup Inputs, NEW t
  PROVE  Outcome(s, m, QuantitySelection(s, t, m))
<1> DEFINE line == IF s.cart.units = 0 THEN m ELSE s.cart.line
           n == Least(MaxUnits, s.cart.units + AsNumber(t))
<1>1. s.cart.units \in 0..MaxUnits
  BY SessionParts
<1>2. n \in 0..MaxUnits
  BY <1>1, Units, Numbers, SomeUnits
<1>3. line \in {s.cart.line, m} /\ (line = s.cart.line => s.cart.units > 0 \/ line = m)
  BY <1>1
<1> HIDE DEF line, n
<1>4. Outcome(s, m, Stays(Holding(s, line, n)))
  BY <1>2, <1>3, HoldingOutcome DEF ConvTypes
<1>5. QuantitySelection(s, t, m) \in {BackToMenu(s), Stays(Holding(s, line, n)), Stays(s)}
  BY DEF QuantitySelection, line, n
<1> QED BY <1>4, <1>5, BackToMenuOutcome, StaysOutcome DEF ConvTypes

LEMMA OrderConfirmationOutcome ==
  ASSUME ConvTypes, NEW s \in Sessions, NEW m, NEW t
  PROVE  Outcome(s, m, OrderConfirmation(s, t))
<1>1. {"MAIN_MENU", "WELCOME", "REMOVING_ORDER_ITEM"} \subseteq States
  BY DEF States
<1>2. Emptied(s) \in Sessions /\ Emptied(s).cart = NoCart
  BY <1>1, Emptying DEF Emptied
<1>3. Outcome(s, m, GoesTo(Emptied(s), "WELCOME"))
  BY <1>1, <1>2, Moved, StaysOutcome DEF GoesTo, ConvTypes
<1>4. Outcome(s, m, OrderConfirmed(s))
  <2>1. PICK new : new = Emptied(s)
    OBVIOUS
  <2>2. PICK out : out = [Stays(new) EXCEPT !.ordered = s.cart.units]
    OBVIOUS
  <2>3. out.sess = new /\ out.request = request /\ out.ordered = s.cart.units
    BY <2>2 DEF Stays
  <2>4. Outcome(s, m, out)
    BY <1>2, <2>1, <2>3, SessionParts, NoCartParts DEF Outcome, ConvTypes
  <2> QED BY <2>1, <2>2, <2>4 DEF OrderConfirmed
<1>5. Outcome(s, m, GoesTo(s, "REMOVING_ORDER_ITEM"))
  BY <1>1, GoesToOutcome DEF ConvTypes
<1>6. OrderConfirmation(s, t) \in {BackToMenu(s), StartOrdering(s), GoesTo(s, "REMOVING_ORDER_ITEM"),
                                   OrderConfirmed(s), GoesTo(Emptied(s), "WELCOME"), Stays(s)}
  BY DEF OrderConfirmation
<1> QED BY <1>3, <1>4, <1>5, <1>6, BackToMenuOutcome, StartOrderingOutcome, StaysOutcome DEF ConvTypes

LEMMA ItemRemovalOutcome ==
  ASSUME ConvTypes, NEW s \in Sessions, NEW m, NEW t
  PROVE  Outcome(s, m, ItemRemoval(s, t))
<1>1. "ADJUSTING_ORDER_ITEM" \in States
  BY DEF States
<1>2. ItemRemoval(s, t) \in {BackToMenu(s), StartOrdering(s), GoesTo(s, "ADJUSTING_ORDER_ITEM"), Stays(s)}
  BY DEF ItemRemoval
<1> QED BY <1>1, <1>2, BackToMenuOutcome, StartOrderingOutcome, GoesToOutcome, StaysOutcome DEF ConvTypes

LEMMA ItemAdjustmentOutcome ==
  ASSUME ConvTypes, NEW s \in Sessions, NEW m \in Messages \cup Inputs, NEW t
  PROVE  Outcome(s, m, ItemAdjustment(s, t))
<1>1. {"SELECTING_CART_ITEM_QTY", "ORDERING", "WELCOME"} \subseteq States
  BY DEF States
<1> DEFINE none == [s EXCEPT !.cart = NoCart]
           more == Stays(Holding(s, s.cart.line, Least(MaxUnits, s.cart.units + 1)))
           less == Stays(Holding(s, s.cart.line, s.cart.units - 1))
<1>2. s.cart.units \in 0..MaxUnits /\ MaxUnits \in Nat
  BY SessionParts, SomeUnits
<1>3. Outcome(s, m, StartOrdering(none))
  <2>1. NoCart \in [line: Messages \cup Inputs \cup {Nobody}, units: 0..MaxUnits]
    BY SomeUnits DEF NoCart
  <2>2. none \in Sessions /\ none.cart = NoCart
    BY <2>1 DEF Sessions
  <2> HIDE DEF none
  <2>3. Outcome(s, m, GoesTo(none, "ORDERING")) /\ Outcome(s, m, GoesTo(none, "WELCOME"))
    BY <1>1, <2>2, Moved, StaysOutcome DEF GoesTo, ConvTypes
  <2> QED BY <2>3 DEF StartOrdering
<1>4. s.cart.units > 0 => Outcome(s, m, more)
  <2>1. Least(MaxUnits, s.cart.units + 1) \in 0..MaxUnits
    BY <1>2, Units
  <2> QED BY <2>1, HoldingOutcome DEF ConvTypes
<1>5. s.cart.units > 1 => Outcome(s, m, less)
  <2>1. s.cart.units > 1 => s.cart.units - 1 \in 0..MaxUnits /\ s.cart.units > 0
    BY <1>2
  <2> QED BY <2>1, HoldingOutcome DEF ConvTypes
<1> HIDE DEF none, more, less
<1>6. \/ s.cart.units > 0 /\ ItemAdjustment(s, t) = more
      \/ s.cart.units > 1 /\ ItemAdjustment(s, t) = less
      \/ ItemAdjustment(s, t) \in {BackToMenu(s), StartOrdering(s), GoesTo(s, "SELECTING_CART_ITEM_QTY"),
                                   StartOrdering(none), Stays(s)}
  BY DEF ItemAdjustment, none, more, less
<1> QED BY <1>1, <1>3, <1>4, <1>5, <1>6, BackToMenuOutcome, StartOrderingOutcome, GoesToOutcome, StaysOutcome
        DEF ConvTypes

LEMMA CartQuantityOutcome ==
  ASSUME ConvTypes, NEW s \in Sessions, NEW m \in Messages \cup Inputs, NEW t
  PROVE  Outcome(s, m, CartQuantity(s, t))
<1> DEFINE held == Stays(Holding(s, s.cart.line, Least(MaxUnits, AsNumber(t))))
<1>1. s.cart.units > 0 => Outcome(s, m, held)
  BY Units, Numbers, HoldingOutcome DEF ConvTypes
<1> HIDE DEF held
<1>2. \/ s.cart.units > 0 /\ CartQuantity(s, t) = held
      \/ CartQuantity(s, t) \in {BackToMenu(s), StartOrdering(s), Stays(s)}
  BY DEF CartQuantity, held
<1> QED BY <1>1, <1>2, BackToMenuOutcome, StartOrderingOutcome, StaysOutcome DEF ConvTypes

LEMMA ProcessedOutcome ==
  ASSUME ConvTypes, NEW s \in Sessions, NEW m \in Messages \cup Inputs, NEW t
  PROVE  Outcome(s, m, Processed(s, t, m))
<1>1. s.state \in States
  BY SessionParts
<1>2. CASE s.state = "WELCOME"
  BY <1>2, WelcomeMenuOutcome DEF Processed
<1>3. CASE s.state = "WAITING_TAB_CODE"
  BY <1>3, TabCodeOutcome DEF Processed
<1>4. CASE s.state = "WAITING_ADMIN_APPROVAL"
  BY <1>4, WaitingAdminApprovalOutcome DEF Processed
<1>5. CASE s.state = "MAIN_MENU"
  BY <1>5, MainMenuOutcome DEF Processed
<1>6. CASE s.state = "ORDERING"
  BY <1>6, OrderingOutcome DEF Processed
<1>7. CASE s.state = "SELECTING_QTY"
  BY <1>7, QuantitySelectionOutcome DEF Processed
<1>8. CASE s.state = "CONFIRMING_ORDER"
  BY <1>8, OrderConfirmationOutcome DEF Processed
<1>9. CASE s.state = "REMOVING_ORDER_ITEM"
  BY <1>9, ItemRemovalOutcome DEF Processed
<1>10. CASE s.state = "ADJUSTING_ORDER_ITEM"
  BY <1>10, ItemAdjustmentOutcome DEF Processed
<1>11. CASE s.state = "SELECTING_CART_ITEM_QTY"
  BY <1>11, CartQuantityOutcome DEF Processed
<1> QED BY <1>1, <1>2, <1>3, <1>4, <1>5, <1>6, <1>7, <1>8, <1>9, <1>10, <1>11 DEF States

-----------------------------------------------------------------------------
(* The conversation keeps its types.                                       *)
ConvInv == ConvTypeOK /\ Hands

LEMMA ConvTyped == ConvTypeOK => ConvTypes
BY DEF ConvTypeOK, ConvTypes, Requests, OrderRecord

\* What Process leaves.
LEMMA ProcessKeeps ==
  ASSUME ConvInv, NEW c \in Channels, NEW m \in Messages \cup Inputs, NEW t \in Texts, NEW s \in Sessions,
         Process(c, m, t, s)
  PROVE  /\ text' = [text EXCEPT ![m] = t] /\ text' \in [Messages \cup Inputs -> Texts \cup {"none", "past"}]
         /\ request' \in Requests /\ tab' \in {"NONE", "FREE", "MINE", "CLOSED"}
         /\ mixed' = (mixed \/ Overlaps(c))
         /\ \E sess \in Sessions :
              /\ doing' = [doing EXCEPT ![c] = [pc |-> "processed", item |-> m, sess |-> sess]]
              /\ sess.cart.line \in {s.cart.line, m, Nobody}
              /\ sess.cart.units > 0 => \/ s.cart.units > 0 /\ sess.cart.line = s.cart.line
                                        \/ sess.cart.line = m
              /\ \/ UNCHANGED orders
                 \/ \E o \in OrderRecord :
                      /\ orders' = Append(orders, o)
                      /\ o.by = m /\ o.line = s.cart.line /\ (o.mixed <=> mixed') /\ (o.cart <=> s.state = "CONFIRMING_ORDER")
                      /\ o.cart => o.units = s.cart.units /\ o.shown = shown /\ sess.cart.units = 0
                      /\ ~o.cart => o.shown = o.units
<1> DEFINE out == IF s.live THEN Processed(s, t, m) ELSE Stays(New("WELCOME"))
           confirms == s.state = "CONFIRMING_ORDER"
           o == [by |-> m, units |-> out.ordered, cart |-> confirms, line |-> s.cart.line,
                 shown |-> IF confirms THEN shown ELSE out.ordered, mixed |-> mixed']
<1>1. Outcome(s, m, out)
  <2>1. Outcome(s, m, Stays(New("WELCOME")))
    <3>1. "WELCOME" \in States
      BY DEF States
    <3> QED BY <3>1, NewParts, StaysOutcome, ConvTyped DEF ConvInv, ConvTypes
  <2> QED BY <2>1, ProcessedOutcome, ConvTyped DEF ConvInv
<1>2. /\ text' = [text EXCEPT ![m] = t]
      /\ doing' = [doing EXCEPT ![c] = [pc |-> "processed", item |-> m, sess |-> out.sess]]
      /\ request' = out.request
      /\ mixed' = (mixed \/ Overlaps(c))
      /\ orders' = IF out.ordered = 0 THEN orders ELSE Append(orders, o)
  BY DEF Process
<1>3. tab' \in {"NONE", "FREE", "MINE", "CLOSED"}
  BY DEF Process, ConvInv, ConvTypeOK
<1> HIDE DEF out
<1>4. text' \in [Messages \cup Inputs -> Texts \cup {"none", "past"}]
  BY <1>2 DEF ConvInv, ConvTypeOK
<1>5. ASSUME out.ordered # 0 PROVE o \in OrderRecord
  <2>1. out.ordered \in 1..MaxUnits
    BY <1>1, <1>5, SomeUnits DEF Outcome
  <2>2. mixed' \in BOOLEAN /\ confirms \in BOOLEAN
    BY <1>2 DEF ConvInv, ConvTypeOK
  <2>3. shown \in 0..MaxUnits /\ s.cart.line \in Messages \cup Inputs \cup {Nobody}
    BY SessionParts DEF ConvInv, ConvTypeOK
  <2>4. (IF confirms THEN shown ELSE out.ordered) \in 0..MaxUnits
    BY <2>1, <2>3, SomeUnits
  <2> HIDE DEF confirms
  <2> QED BY <2>1, <2>2, <2>3, <2>4 DEF OrderRecord
<1>6. /\ o.by = m /\ o.line = s.cart.line /\ (o.mixed <=> mixed') /\ (o.cart <=> s.state = "CONFIRMING_ORDER")
      /\ o.units = out.ordered /\ (o.cart => o.shown = shown) /\ (~o.cart => o.shown = o.units)
  OBVIOUS
<1> HIDE DEF o
<1>7. out.ordered # 0 /\ s.state = "CONFIRMING_ORDER" => out.ordered = s.cart.units /\ out.sess.cart.units = 0
  BY <1>1, SomeUnits DEF Outcome
<1>8. /\ out.sess \in Sessions /\ out.request \in Requests
      /\ out.sess.cart.line \in {s.cart.line, m, Nobody}
      /\ out.sess.cart.units > 0 => \/ s.cart.units > 0 /\ out.sess.cart.line = s.cart.line
                                    \/ out.sess.cart.line = m
  BY <1>1 DEF Outcome
<1>9. \/ UNCHANGED orders
      \/ \E q \in OrderRecord :
           /\ orders' = Append(orders, q)
           /\ q.by = m /\ q.line = s.cart.line /\ (q.mixed <=> mixed') /\ (q.cart <=> s.state = "CONFIRMING_ORDER")
           /\ q.cart => q.units = s.cart.units /\ q.shown = shown /\ out.sess.cart.units = 0
           /\ ~q.cart => q.shown = q.units
  <2>1. CASE out.ordered = 0
    BY <1>2, <2>1
  <2>2. CASE out.ordered # 0
    <3>1. orders' = Append(orders, o)
      BY <1>2, <2>2
    <3> QED BY <2>2, <3>1, <1>5, <1>6, <1>7
  <2> QED BY <2>1, <2>2
<1> QED BY <1>2, <1>3, <1>4, <1>8, <1>9

Hand == [pc: {"idle", "processed", "saved", "APPROVE", "REJECT"},
         item: Messages \cup Inputs \cup {Nobody}, sess: Sessions]

LEMMA IdleHand == Idle \in Hand /\ Idle.item = Nobody /\ Idle.pc = "idle" /\ Idle.sess = Gone
BY GoneParts DEF Idle, Hand

LEMMA ConvInitOK == Init => ConvInv
<1> SUFFICES ASSUME Init PROVE ConvInv
  OBVIOUS
<1>1. session \in Sessions
  <2>1. \A state \in States : New(state) \in Sessions
    BY NewParts
  <2>2. {"WELCOME", "WAITING_ADMIN_APPROVAL", "MAIN_MENU", "ORDERING", "SELECTING_QTY"} \cup InCart \subseteq States
    BY DEF States, InCart
  <2>3. \A state \in InCart, n \in 1..MaxUnits :
          [New(state) EXCEPT !.cart = [line |-> Nobody, units |-> n]] \in Sessions
    <3> SUFFICES ASSUME NEW state \in InCart, NEW n \in 1..MaxUnits, NEW cart, cart = [line |-> Nobody, units |-> n]
                 PROVE  [New(state) EXCEPT !.cart = cart] \in Sessions
      OBVIOUS
    <3>1. cart \in [line: Messages \cup Inputs \cup {Nobody}, units: 0..MaxUnits]
      BY SomeUnits
    <3>2. New(state) \in Sessions
      BY <2>1, <2>2
    <3> QED BY <3>1, <3>2 DEF Sessions
  <2> QED BY <2>1, <2>2, <2>3, GoneParts DEF Init
<1>2. doing \in [Channels -> Hand] /\ Hands
  BY IdleHand DEF Init, Channels, Hands
<1>3. shown \in 0..MaxUnits
  BY <1>1, SessionParts DEF Init
<1>4. tab \in {"NONE", "FREE", "MINE", "CLOSED"} /\ request \in {"NONE", "PENDING", "APPROVED", "REJECTED"}
  BY DEF Init
<1>5. /\ inbox \in [Messages -> {"NONE", "STORED", "PROCESSED", "FAILED"}]
      /\ text \in [Messages \cup Inputs -> Texts \cup {"none", "past"}]
  BY DEF Init
<1>6. /\ publishing = {} /\ queue = <<>> /\ portal = <<>> /\ answers = <<>> /\ orders = <<>>
      /\ releasing = FALSE /\ again = {} /\ mixed = FALSE /\ listening = TRUE /\ dropped = {}
  BY DEF Init
<1>7. \A S : <<>> \in Seq(S)
  OBVIOUS
<1> QED BY <1>1, <1>2, <1>3, <1>4, <1>5, <1>6, <1>7 DEF ConvInv, ConvTypeOK, Hand

LEMMA HeadTail ==
  ASSUME NEW S, NEW q \in Seq(S), q # <<>>
  PROVE  Head(q) \in S /\ Tail(q) \in Seq(S)
OBVIOUS

LEMMA Appended ==
  ASSUME NEW S, NEW q \in Seq(S), NEW e \in S
  PROVE  Append(q, e) \in Seq(S)
OBVIOUS

LEMMA ConvArrives ==
  ASSUME ConvInv,
         \/ \E m \in Messages : Webhook(m) \/ SupportRetries(m)
         \/ \E m \in Messages \cup {Nobody} : Publish(m) \/ PublishFails(m)
         \/ \E i \in Inputs : Write(i)
         \/ Unknown \/ TakeFails
  PROVE  ConvInv'
<1>1. ASSUME NEW m \in Messages, Webhook(m) PROVE ConvInv'
  BY <1>1 DEF Webhook, Store, service, broker, ConvInv, ConvTypeOK, Hands
<1>2. ASSUME NEW m \in Messages, SupportRetries(m) PROVE ConvInv'
  <2>1. queue' \in Seq(Messages \cup {Nobody}) /\ again' \subseteq Messages \cup Inputs
    BY <1>2, Appended DEF SupportRetries, ConvInv, ConvTypeOK
  <2> QED BY <1>2, <2>1 DEF SupportRetries, service, broker, ConvInv, ConvTypeOK, Hands
<1>3. ASSUME NEW m \in Messages \cup {Nobody}, Publish(m) \/ PublishFails(m) PROVE ConvInv'
  <2>1. queue' \in Seq(Messages \cup {Nobody})
    <3>1. queue' = Append(queue, m) \/ queue' = queue
      BY <1>3 DEF Publish, PublishFails
    <3>2. queue \in Seq(Messages \cup {Nobody})
      BY DEF ConvInv, ConvTypeOK
    <3> QED BY <3>1, <3>2, Appended
  <2>2. publishing' \subseteq Messages \cup {Nobody}
    BY <1>3 DEF Publish, PublishFails, ConvInv, ConvTypeOK
  <2> QED BY <1>3, <2>1, <2>2 DEF Publish, PublishFails, service, broker, ConvInv, ConvTypeOK, Hands
<1>4. ASSUME NEW i \in Inputs, Write(i) PROVE ConvInv'
  <2>1. portal' \in Seq(Inputs)
    BY <1>4, Appended DEF Write, ConvInv, ConvTypeOK
  <2> QED BY <1>4, <2>1 DEF Write, service, broker, ConvInv, ConvTypeOK, Hands
<1>5. CASE Unknown
  <2>1. queue' \in Seq(Messages \cup {Nobody})
    BY <1>5, HeadTail DEF Unknown, ConvInv, ConvTypeOK
  <2>2. inbox' \in [Messages -> {"NONE", "STORED", "PROCESSED", "FAILED"}]
    BY <1>5 DEF Unknown, MarkedFailed, ConvInv, ConvTypeOK
  <2> QED BY <1>5, <2>1, <2>2 DEF Unknown, service, broker, ConvInv, ConvTypeOK, Hands
<1>6. CASE TakeFails
  <2>1. queue' \in Seq(Messages \cup {Nobody})
    BY <1>6, HeadTail DEF TakeFails, ConvInv, ConvTypeOK
  <2>2. dropped' \subseteq Messages \cup {Nobody}
    BY <1>6 DEF TakeFails, Known, ConvInv, ConvTypeOK
  <2> QED BY <1>6, <2>1, <2>2 DEF TakeFails, service, ConvInv, ConvTypeOK, Hands
<1> QED BY <1>1, <1>2, <1>3, <1>4, <1>5, <1>6

\* A consumer takes what belongs to it.
LEMMA TakenHand ==
  ASSUME ConvInv, NEW c \in Channels, NEW m \in Messages \cup Inputs, NEW sess \in Sessions,
         (c = "whatsapp" /\ m \in Messages) \/ (c = "portal" /\ m \in Inputs),
         doing' = [doing EXCEPT ![c] = [pc |-> "processed", item |-> m, sess |-> sess]]
  PROVE  doing' \in [Channels -> Hand] /\ Hands'
<1>1. PICK h : h = [pc |-> "processed", item |-> m, sess |-> sess]
  OBVIOUS
<1>2. h \in Hand /\ h.item = m
  BY <1>1 DEF Hand
<1>3. doing \in [Channels -> Hand]
  BY DEF ConvInv, ConvTypeOK, Hand
<1>4. \A d \in Channels : doing'[d] = IF d = c THEN h ELSE doing[d]
  BY <1>1, <1>3
<1>5. doing' \in [Channels -> Hand]
  BY <1>1, <1>2, <1>3
<1> QED BY <1>2, <1>4, <1>5 DEF Hands, ConvInv, Channels

LEMMA ConvProcess ==
  ASSUME ConvInv, NEW c \in Channels, NEW m \in Messages \cup Inputs, NEW t \in Texts, NEW s \in Sessions,
         Process(c, m, t, s), (c = "whatsapp" /\ m \in Messages) \/ (c = "portal" /\ m \in Inputs)
  PROVE  /\ text' \in [Messages \cup Inputs -> Texts \cup {"none", "past"}]
         /\ request' \in Requests /\ tab' \in {"NONE", "FREE", "MINE", "CLOSED"} /\ mixed' \in BOOLEAN
         /\ doing' \in [Channels -> Hand] /\ Hands'
         /\ orders' \in Seq(OrderRecord)
<1>1. mixed' \in BOOLEAN
  BY ProcessKeeps
<1>2. PICK sess \in Sessions :
        /\ doing' = [doing EXCEPT ![c] = [pc |-> "processed", item |-> m, sess |-> sess]]
        /\ UNCHANGED orders \/ \E o \in OrderRecord : orders' = Append(orders, o)
  BY ProcessKeeps
<1>3. orders' \in Seq(OrderRecord)
  BY <1>2, Appended, ConvTyped DEF ConvInv, ConvTypes
<1> QED BY <1>1, <1>2, <1>3, TakenHand, ProcessKeeps

LEMMA ConvTake ==
  ASSUME ConvInv, Take
  PROVE  ConvInv'
<1>1. queue' \in Seq(Messages \cup {Nobody})
  BY HeadTail DEF Take, broker, ConvInv, ConvTypeOK
<1>2. CASE Known(Head(queue))
  <2>1. PICK t \in Texts : Process("whatsapp", Head(queue), t, session)
    BY <1>2 DEF Take
  <2>2. Head(queue) \in Messages /\ session \in Sessions /\ "whatsapp" \in Channels
    BY <1>2 DEF Known, Channels, ConvInv, ConvTypeOK
  <2>3. /\ text' \in [Messages \cup Inputs -> Texts \cup {"none", "past"}]
        /\ request' \in Requests /\ tab' \in {"NONE", "FREE", "MINE", "CLOSED"} /\ mixed' \in BOOLEAN
        /\ doing' \in [Channels -> Hand] /\ Hands'
        /\ orders' \in Seq(OrderRecord)
    BY <2>1, <2>2, ConvProcess
  <2> QED BY <1>1, <1>2, <2>3 DEF Take, broker, ConvInv, ConvTypeOK, Requests, OrderRecord, Hand
<1>3. CASE ~Known(Head(queue))
  BY <1>1, <1>3 DEF Take, broker, ConvInv, ConvTypeOK, Hands
<1> QED BY <1>2, <1>3

LEMMA PortalSessionOK == session \in Sessions => PortalSession \in Sessions
<1>1. "MAIN_MENU" \in States
  BY DEF States
<1> QED BY <1>1, NewParts, Moved DEF PortalSession

LEMMA ConvTakeInput ==
  ASSUME ConvInv, TakeInput
  PROVE  ConvInv'
<1>1. portal' \in Seq(Inputs) /\ Head(portal) \in Inputs
  BY HeadTail DEF TakeInput, broker, ConvInv, ConvTypeOK
<1>2. CASE tab = "MINE"
  <2>1. PICK t \in Texts : Process("portal", Head(portal), t, PortalSession)
    BY <1>2 DEF TakeInput
  <2>2. PortalSession \in Sessions /\ "portal" \in Channels
    BY PortalSessionOK DEF Channels, ConvInv, ConvTypeOK
  <2>3. /\ text' \in [Messages \cup Inputs -> Texts \cup {"none", "past"}]
        /\ request' \in Requests /\ tab' \in {"NONE", "FREE", "MINE", "CLOSED"} /\ mixed' \in BOOLEAN
        /\ doing' \in [Channels -> Hand] /\ Hands'
        /\ orders' \in Seq(OrderRecord)
    BY <1>1, <2>1, <2>2, ConvProcess
  <2> QED BY <1>1, <2>3 DEF TakeInput, broker, ConvInv, ConvTypeOK, Requests, OrderRecord, Hand
<1>3. CASE tab # "MINE"
  <2>1. text' \in [Messages \cup Inputs -> Texts \cup {"none", "past"}]
    BY <1>3 DEF TakeInput, broker, ConvInv, ConvTypeOK
  <2> QED BY <1>1, <1>3, <2>1 DEF TakeInput, broker, ConvInv, ConvTypeOK, Hands
<1> QED BY <1>2, <1>3

\* Then a hand is done with, or left as the code says.
LEMMA HandChanged ==
  ASSUME ConvInv, NEW c \in Channels, NEW h \in Hand, h.item = doing[c].item \/ h.item = Nobody,
         doing' = [doing EXCEPT ![c] = h]
  PROVE  doing' \in [Channels -> Hand] /\ Hands'
<1>1. doing \in [Channels -> Hand]
  BY DEF ConvInv, ConvTypeOK, Hand
<1>2. \A d \in Channels : doing'[d] = IF d = c THEN h ELSE doing[d]
  BY <1>1
<1> QED BY <1>1, <1>2 DEF Hands, ConvInv, Channels

LEMMA EndsOK ==
  ASSUME ConvInv, NEW c \in Channels, Ends(c)
  PROVE  /\ doing' \in [Channels -> Hand] /\ Hands'
         /\ text' \in [Messages \cup Inputs -> Texts \cup {"none", "past"}]
<1> DEFINE h == IF c = "whatsapp" THEN [doing[c] EXCEPT !.pc = "saved", !.sess = Gone] ELSE Idle
<1>1. doing \in [Channels -> Hand]
  BY DEF ConvInv, ConvTypeOK, Hand
<1>2. [doing[c] EXCEPT !.pc = "saved", !.sess = Gone] \in Hand
  BY <1>1, GoneParts DEF Hand
<1>3. [doing[c] EXCEPT !.pc = "saved", !.sess = Gone].item = doing[c].item
  BY <1>1 DEF Hand
<1>4. h \in Hand /\ (h.item = doing[c].item \/ h.item = Nobody)
  BY <1>2, <1>3, IdleHand
<1>5. doing' = [doing EXCEPT ![c] = h]
  BY <1>1 DEF Ends
<1> HIDE DEF h
<1>6. doing' \in [Channels -> Hand] /\ Hands'
  BY <1>4, <1>5, HandChanged
<1>7. text' \in [Messages \cup Inputs -> Texts \cup {"none", "past"}]
  BY DEF Ends, ConvInv, ConvTypeOK
<1> QED BY <1>6, <1>7

LEMMA ShowingOK == ConvInv => \A s \in Sessions : Showing(s) \in 0..MaxUnits
BY SessionParts DEF Showing, ConvInv, ConvTypeOK

LEMMA ConvSaves ==
  ASSUME ConvInv, NEW c \in Channels, SaveSession(c) \/ AnswerFails(c)
  PROVE  ConvInv'
<1>1. Ends(c)
  BY DEF SaveSession, AnswerFails
<1>2. doing[c].sess \in Sessions
  BY DEF ConvInv, ConvTypeOK
<1>3. shown' \in 0..MaxUnits /\ session' \in Sessions
  BY <1>2, ShowingOK DEF SaveSession, AnswerFails, Kept, ConvInv, ConvTypeOK
<1>4. mixed' \in BOOLEAN
  BY DEF SaveSession, AnswerFails, ConvInv, ConvTypeOK
<1> QED BY <1>1, <1>3, <1>4, EndsOK DEF SaveSession, AnswerFails, service, broker, ConvInv, ConvTypeOK, Hand

LEMMA ConvMarks ==
  ASSUME ConvInv, MarkAsProcessed \/ MarkFails
  PROVE  ConvInv'
<1>1. "whatsapp" \in Channels
  BY DEF Channels
<1>2. doing' \in [Channels -> Hand] /\ Hands'
  BY <1>1, IdleHand, HandChanged DEF MarkAsProcessed, MarkFails
<1>3. CASE MarkAsProcessed
  <2>1. inbox' \in [Messages -> {"NONE", "STORED", "PROCESSED", "FAILED"}]
    BY <1>3 DEF MarkAsProcessed, ConvInv, ConvTypeOK
  <2> QED BY <1>2, <1>3, <2>1 DEF MarkAsProcessed, service, broker, ConvInv, ConvTypeOK, Hand
<1>4. CASE MarkFails
  <2>1. dropped' \subseteq Messages \cup {Nobody}
    BY <1>4 DEF MarkFails, ConvInv, ConvTypeOK, Hands
  <2> QED BY <1>2, <1>4, <2>1 DEF MarkFails, service, ConvInv, ConvTypeOK, Hand
<1> QED BY <1>3, <1>4

LEMMA Prepended ==
  ASSUME NEW S, NEW q \in Seq(S), NEW e \in S
  PROVE  <<e>> \o q \in Seq(S)
OBVIOUS

LEMMA RedeliveredOK ==
  ASSUME ConvInv, Redelivered
  PROVE  /\ queue' \in Seq(Messages \cup {Nobody}) /\ portal' \in Seq(Inputs)
         /\ again' \subseteq Messages \cup Inputs
<1>1. queue' = (IF doing["whatsapp"].item = Nobody THEN queue ELSE <<doing["whatsapp"].item>> \o queue)
  BY DEF Redelivered, Back
<1>2. portal' = (IF doing["portal"].item = Nobody THEN portal ELSE <<doing["portal"].item>> \o portal)
  BY DEF Redelivered, Back
<1>3. queue \in Seq(Messages \cup {Nobody}) /\ portal \in Seq(Inputs)
  BY DEF ConvInv, ConvTypeOK
<1>4. again' \subseteq Messages \cup Inputs
  BY DEF Redelivered, ConvInv, ConvTypeOK, Hands
<1> QED BY <1>1, <1>2, <1>3, <1>4, Prepended DEF ConvInv, Hands

LEMMA ConvDies ==
  ASSUME ConvInv, WorkerDies \/ ConnectionLost \/ WorkerRestarts
  PROVE  ConvInv'
<1>1. NoneDoing => doing' \in [Channels -> Hand] /\ Hands'
  BY IdleHand DEF NoneDoing, Hands, Channels
<1>2. CASE WorkerDies
  <2>1. mixed' = TRUE /\ Redelivered /\ NoneDoing
    BY <1>2 DEF WorkerDies
  <2> QED BY <1>1, <1>2, <2>1, RedeliveredOK DEF WorkerDies, service, broker, ConvInv, ConvTypeOK, Hand
<1>3. CASE ConnectionLost
  <2>1. listening' = FALSE /\ Redelivered
    BY <1>3 DEF ConnectionLost
  <2> QED BY <1>3, <2>1, RedeliveredOK DEF ConnectionLost, service, ConvInv, ConvTypeOK, Hands
<1>4. CASE WorkerRestarts
  <2>1. mixed' \in BOOLEAN /\ listening' = TRUE /\ NoneDoing
    BY <1>4 DEF WorkerRestarts, ConvInv, ConvTypeOK
  <2> QED BY <1>1, <1>4, <2>1 DEF WorkerRestarts, arriving, service, ConvInv, ConvTypeOK, Hand
<1> QED BY <1>2, <1>3, <1>4

LEMMA ConvStaff ==
  ASSUME ConvInv,
         \/ \E answer \in {"APPROVE", "REJECT"} : AnswerRequest(answer)
         \/ TakeAnswer \/ TellAnswer \/ CloseTab \/ ReleaseSession \/ ReleaseFails
  PROVE  ConvInv'
<1>0. "tables" \in Channels /\ doing \in [Channels -> Hand]
  BY DEF Channels, ConvInv, ConvTypeOK, Hand
<1>1. ASSUME NEW answer \in {"APPROVE", "REJECT"}, AnswerRequest(answer) PROVE ConvInv'
  <2>1. answers' \in Seq({"APPROVE", "REJECT"})
    BY <1>1 DEF AnswerRequest
  <2> QED BY <1>1, <2>1 DEF AnswerRequest, arriving, broker, ConvInv, ConvTypeOK, Hands
<1>2. CASE TakeAnswer
  <2>1. answers[1] \in {"APPROVE", "REJECT"}
    BY <1>2 DEF TakeAnswer, ConvInv, ConvTypeOK
  <2>2. answers' \in Seq({"APPROVE", "REJECT"})
    BY <1>2 DEF TakeAnswer
  <2>3. CASE request = "PENDING"
    <3>1. PICK h : h = [doing["tables"] EXCEPT !.pc = answers[1]]
      OBVIOUS
    <3>2. h \in Hand /\ h.item = doing["tables"].item
      BY <1>0, <2>1, <3>1 DEF Hand
    <3>3. doing' = [doing EXCEPT !["tables"] = h]
      BY <1>2, <2>3, <3>1 DEF TakeAnswer
    <3>4. doing' \in [Channels -> Hand] /\ Hands'
      BY <1>0, <3>2, <3>3, HandChanged
    <3>5. request' \in Requests /\ tab' \in {"NONE", "FREE", "MINE", "CLOSED"}
      BY <1>2, <2>3 DEF TakeAnswer, Requests, ConvInv, ConvTypeOK
    <3> QED BY <1>2, <2>2, <3>4, <3>5 DEF TakeAnswer, arriving, broker, ConvInv, ConvTypeOK, Hand, Requests
  <2>4. CASE request # "PENDING"
    BY <1>2, <2>2, <2>4 DEF TakeAnswer, arriving, broker, ConvInv, ConvTypeOK, Hands
  <2> QED BY <2>3, <2>4
<1>3. CASE TellAnswer
  <2>1. "MAIN_MENU" \in States
    BY DEF States
  <2>2. session' \in Sessions
    BY <1>3, <2>1, Moved, ResetParts DEF TellAnswer, Admitted, ConvInv, ConvTypeOK
  <2>3. doing' \in [Channels -> Hand] /\ Hands'
    BY <1>0, <1>3, IdleHand, HandChanged DEF TellAnswer
  <2>4. mixed' \in BOOLEAN
    BY <1>3 DEF TellAnswer
  <2> QED BY <1>3, <2>2, <2>3, <2>4 DEF TellAnswer, arriving, service, broker, ConvInv, ConvTypeOK, Hand
<1>4. CASE CloseTab
  BY <1>4 DEF CloseTab, arriving, broker, ConvInv, ConvTypeOK, Hands
<1>5. CASE ReleaseSession
  <2>1. mixed' \in BOOLEAN
    BY <1>5 DEF ReleaseSession
  <2> QED BY <1>5, <2>1, GoneParts DEF ReleaseSession, arriving, broker, ConvInv, ConvTypeOK, Hands
<1>6. CASE ReleaseFails
  BY <1>6 DEF ReleaseFails, arriving, broker, ConvInv, ConvTypeOK, Hands
<1> QED BY <1>1, <1>2, <1>3, <1>4, <1>5, <1>6

LEMMA ConvStep == ConvInv /\ [Next]_vars => ConvInv'
<1> SUFFICES ASSUME ConvInv, [Next]_vars PROVE ConvInv'
  OBVIOUS
<1>1. CASE ConvNext
  BY <1>1, ConvArrives, ConvTake, ConvTakeInput, ConvSaves, ConvMarks, ConvDies, ConvStaff DEF ConvNext
<1>2. CASE UNCHANGED convVars
  BY <1>2 DEF convVars, ConvInv, ConvTypeOK, Hands
<1> QED BY <1>1, <1>2 DEF Next, vars

-----------------------------------------------------------------------------
(* What becomes of a queue.                                                *)
LEMMA TailHolds ==
  ASSUME NEW S, NEW q \in Seq(S), q # <<>>, NEW e
  PROVE  /\ Contains(Tail(q), e) => Contains(q, e)
         /\ Single(q, e) => Single(Tail(q), e)
         /\ Single(q, e) /\ Head(q) = e => ~Contains(Tail(q), e)
         /\ Contains(q, Head(q))
<1>1. Len(q) \in Nat /\ Len(q) > 0 /\ Len(Tail(q)) = Len(q) - 1
  OBVIOUS
<1>2. \A i \in 1..Len(Tail(q)) : Tail(q)[i] = q[i + 1] /\ i + 1 \in 1..Len(q) /\ i + 1 # 1
  BY <1>1
<1>3. Head(q) = q[1] /\ 1 \in 1..Len(q)
  BY <1>1
<1>4. \A i, j \in 1..Len(Tail(q)) : i + 1 = j + 1 => i = j
  BY <1>1
<1> QED BY <1>2, <1>3, <1>4 DEF Contains, Single

LEMMA AppendHolds ==
  ASSUME NEW S, NEW q \in Seq(S), NEW d \in S, NEW e
  PROVE  /\ Contains(Append(q, d), e) => Contains(q, e) \/ d = e
         /\ Single(q, e) /\ (d = e => ~Contains(q, e)) => Single(Append(q, d), e)
<1>1. Len(q) \in Nat /\ Len(Append(q, d)) = Len(q) + 1
  OBVIOUS
<1>2. \A i \in 1..Len(q) + 1 : Append(q, d)[i] = IF i = Len(q) + 1 THEN d ELSE q[i]
  OBVIOUS
<1>3. \A i \in 1..Len(q) + 1 : i = Len(q) + 1 \/ i \in 1..Len(q)
  BY <1>1
<1> QED BY <1>1, <1>2, <1>3 DEF Contains, Single

LEMMA PrependHolds ==
  ASSUME NEW S, NEW q \in Seq(S), NEW d \in S, NEW e, d # e
  PROVE  /\ Contains(<<d>> \o q, e) => Contains(q, e)
         /\ Single(q, e) => Single(<<d>> \o q, e)
<1>1. Len(q) \in Nat /\ Len(<<d>> \o q) = Len(q) + 1
  OBVIOUS
<1>2. \A i \in 1..Len(q) + 1 : (<<d>> \o q)[i] = IF i = 1 THEN d ELSE q[i - 1]
  OBVIOUS
<1>3. \A i \in 1..Len(q) + 1 : i = 1 \/ i - 1 \in 1..Len(q)
  BY <1>1
<1>4. \A i, j \in 1..Len(q) + 1 : i - 1 = j - 1 => i = j
  BY <1>1
<1> QED BY <1>1, <1>2, <1>3, <1>4 DEF Contains, Single

-----------------------------------------------------------------------------
(* Most steps order nothing, put nobody's cart into the session but a      *)
(* hand's, and give no hand a message.                                     *)
Quiet ==
  /\ UNCHANGED orders
  /\ \A c \in Channels : /\ doing'[c].item \in {doing[c].item, Nobody}
                         /\ doing'[c].sess.cart.line \in {doing[c].sess.cart.line, Nobody}
  /\ session'.cart.line \in {session.cart.line, Nobody} \cup {doing[c].sess.cart.line : c \in Channels}

LEMMA QuietUntouched ==
  ASSUME Quiet, NEW m \in Messages \cup Inputs, Untouched(m)
  PROVE  Untouched(m)'
BY MessagesDistinct DEF Quiet, Untouched

LEMMA QuietHand ==
  ASSUME ConvInv, NEW c \in Channels, NEW h, doing' = [doing EXCEPT ![c] = h],
         h.item \in {doing[c].item, Nobody}, h.sess.cart.line \in {doing[c].sess.cart.line, Nobody}
  PROVE  \A d \in Channels : /\ doing'[d].item \in {doing[d].item, Nobody}
                             /\ doing'[d].sess.cart.line \in {doing[d].sess.cart.line, Nobody}
<1>1. \A d \in Channels : doing'[d] = IF d = c THEN h ELSE doing[d]
  BY DEF ConvInv, ConvTypeOK
<1> QED BY <1>1

LEMMA EndsQuiet ==
  ASSUME ConvInv, NEW c \in Channels, Ends(c)
  PROVE  /\ \A d \in Channels : /\ doing'[d].item \in {doing[d].item, Nobody}
                                /\ doing'[d].sess.cart.line \in {doing[d].sess.cart.line, Nobody}
         /\ \A m \in Messages \cup Inputs : m # doing["portal"].item => text'[m] = text[m]
         /\ \A m \in Messages \cup Inputs : text'[m] = "none" => text[m] = "none"
<1> DEFINE h == IF c = "whatsapp" THEN [doing[c] EXCEPT !.pc = "saved", !.sess = Gone] ELSE Idle
<1>1. doing' = [doing EXCEPT ![c] = h]
  BY DEF Ends, ConvInv, ConvTypeOK
<1>2. Gone.cart.line = Nobody /\ Idle.sess.cart.line = Nobody /\ Idle.item = Nobody
  BY IdleHand, GoneParts, NoCartParts
<1>3. h.item \in {doing[c].item, Nobody} /\ h.sess.cart.line \in {doing[c].sess.cart.line, Nobody}
  <2>1. [doing[c] EXCEPT !.pc = "saved", !.sess = Gone].item = doing[c].item
    BY DEF ConvInv, ConvTypeOK
  <2>2. [doing[c] EXCEPT !.pc = "saved", !.sess = Gone].sess = Gone
    BY DEF ConvInv, ConvTypeOK
  <2> QED BY <1>2, <2>1, <2>2
<1> HIDE DEF h
<1>4. \A m \in Messages \cup Inputs : m # doing["portal"].item => text'[m] = text[m]
  BY DEF Ends, ConvInv, ConvTypeOK
<1>5. \A m \in Messages \cup Inputs : text'[m] = "none" => text[m] = "none"
  BY DEF Ends, ConvInv, ConvTypeOK
<1> QED BY <1>1, <1>3, <1>4, <1>5, QuietHand

LEMMA SavesQuiet ==
  ASSUME ConvInv, NEW c \in Channels, SaveSession(c) \/ AnswerFails(c)
  PROVE  Quiet
<1>1. Ends(c) /\ UNCHANGED orders /\ (session' = session \/ session' = doing[c].sess)
  BY DEF SaveSession, AnswerFails, Kept
<1> QED BY <1>1, EndsQuiet DEF Quiet

LEMMA MarksQuiet ==
  ASSUME ConvInv, MarkAsProcessed \/ MarkFails
  PROVE  Quiet
<1>1. doing' = [doing EXCEPT !["whatsapp"] = Idle] /\ UNCHANGED <<orders, session>>
  BY DEF MarkAsProcessed, MarkFails
<1>2. Idle.sess.cart.line = Nobody /\ Idle.item = Nobody
  BY IdleHand, GoneParts, NoCartParts
<1>3. "whatsapp" \in Channels
  BY DEF Channels
<1> QED BY <1>1, <1>2, <1>3, QuietHand DEF Quiet

LEMMA DiesQuiet ==
  ASSUME ConvInv, WorkerDies \/ ConnectionLost \/ WorkerRestarts
  PROVE  Quiet
<1>1. doing' = [c \in Channels |-> Idle] \/ UNCHANGED doing
  BY DEF WorkerDies, ConnectionLost, WorkerRestarts, NoneDoing
<1>3. UNCHANGED <<orders, session>>
  BY DEF WorkerDies, ConnectionLost, WorkerRestarts
<1>2. Idle.sess.cart.line = Nobody /\ Idle.item = Nobody
  BY IdleHand, GoneParts, NoCartParts
<1> QED BY <1>1, <1>2, <1>3 DEF Quiet

LEMMA StaffQuiet ==
  ASSUME ConvInv,
         \/ \E answer \in {"APPROVE", "REJECT"} : AnswerRequest(answer)
         \/ TakeAnswer \/ TellAnswer \/ CloseTab \/ ReleaseSession \/ ReleaseFails
  PROVE  Quiet /\ UNCHANGED <<arriving, again>>
<1>0. "tables" \in Channels /\ doing \in [Channels -> Hand]
  BY DEF Channels, ConvInv, ConvTypeOK, Hand
<1>1. CASE TakeAnswer
  <2>1. PICK h : h = [doing["tables"] EXCEPT !.pc = answers[1]]
    OBVIOUS
  <2>2. h.item = doing["tables"].item /\ h.sess = doing["tables"].sess
    BY <1>0, <2>1 DEF Hand
  <2>3. doing' = [doing EXCEPT !["tables"] = h] \/ UNCHANGED doing
    BY <1>1, <2>1 DEF TakeAnswer
  <2> QED BY <1>0, <1>1, <2>2, <2>3, QuietHand DEF TakeAnswer, Quiet, arriving
<1>2. CASE TellAnswer
  <2>1. Idle.sess.cart.line = Nobody /\ Idle.item = Nobody
    BY IdleHand, GoneParts, NoCartParts
  <2>2. session' \in {session, Admitted(session), Reset(session)}
    BY <1>2 DEF TellAnswer
  <2>3. "MAIN_MENU" \in States
    BY DEF States
  <2>4. session'.cart.line \in {session.cart.line, Nobody}
    <3>1. session \in Sessions
      BY DEF ConvInv, ConvTypeOK
    <3>2. Admitted(session).cart = session.cart
      BY <2>3, <3>1, Moved DEF Admitted
    <3>3. Reset(session).cart = NoCart
      BY <3>1, ResetParts
    <3> QED BY <2>2, <3>2, <3>3, NoCartParts
  <2>5. doing' = [doing EXCEPT !["tables"] = Idle] /\ UNCHANGED <<orders, arriving, again>>
    BY <1>2 DEF TellAnswer
  <2> QED BY <1>0, <2>1, <2>4, <2>5, QuietHand DEF Quiet
<1>3. CASE ReleaseSession
  BY <1>3, GoneParts, NoCartParts DEF ReleaseSession, Quiet, arriving
<1>4. CASE ReleaseFails \/ CloseTab \/ \E answer \in {"APPROVE", "REJECT"} : AnswerRequest(answer)
  BY <1>4 DEF ReleaseFails, CloseTab, AnswerRequest, Quiet, arriving
<1> QED BY <1>1, <1>2, <1>3, <1>4

-----------------------------------------------------------------------------
(* A message is in one place.                                              *)
LEMMA ArrivesOnce ==
  ASSUME ConvInv, MessagesOnce,
         \/ \E m \in Messages : Webhook(m) \/ SupportRetries(m)
         \/ \E m \in Messages \cup {Nobody} : Publish(m) \/ PublishFails(m)
         \/ \E i \in Inputs : Write(i)
         \/ Unknown \/ TakeFails
  PROVE  Quiet /\ MessagesOnce'
<1> DEFINE Others == UNCHANGED <<orders, session, doing>>
<1>0. Others => Quiet /\ \A m \in Messages \cup Inputs : Untouched(m) => Untouched(m)'
  <2>1. Others => Quiet
    BY DEF Quiet
  <2> QED BY <2>1, QuietUntouched
<1>q. queue \in Seq(Messages \cup {Nobody})
  BY DEF ConvInv, ConvTypeOK
<1>1. ASSUME NEW m \in Messages, Webhook(m) PROVE Quiet /\ MessagesOnce'
  <2>1. Others /\ UNCHANGED <<queue, again>>
    BY <1>1 DEF Webhook
  <2>2. \A x \in Messages : inbox'[x] = IF x = m /\ inbox[m] = "NONE" THEN "STORED" ELSE inbox[x]
    BY <1>1 DEF Webhook, Store, ConvInv, ConvTypeOK
  <2>3. \A x \in Messages : x \in publishing' => x \in publishing \/ (x = m /\ inbox[m] = "NONE")
    BY <1>1, MessagesDistinct DEF Webhook, Store
  <2> HIDE DEF Others
  <2>4. ASSUME NEW x \in Messages \ again PROVE MessageOnce(x)'
    BY <1>0, <2>1, <2>2, <2>3 DEF MessagesOnce, MessageOnce
  <2> QED BY <1>0, <2>1, <2>4 DEF MessagesOnce
<1>2. ASSUME NEW m \in Messages, SupportRetries(m) PROVE Quiet /\ MessagesOnce'
  <2>1. Others /\ queue' = Append(queue, m) /\ again' = again \cup {m} /\ UNCHANGED publishing
    BY <1>2 DEF SupportRetries
  <2>2. \A x \in Messages : x # m => inbox'[x] = inbox[x]
    BY <1>2 DEF SupportRetries, ConvInv, ConvTypeOK
  <2> HIDE DEF Others
  <2>3. ASSUME NEW x \in Messages \ again' PROVE MessageOnce(x)'
    <3>1. x # m /\ MessageOnce(x)
      BY <2>1 DEF MessagesOnce
    <3>2. /\ Contains(queue', x) => Contains(queue, x)
          /\ Single(queue, x) => Single(queue', x)
      BY <1>q, <2>1, <3>1, AppendHolds
    <3> QED BY <1>0, <2>1, <2>2, <3>1, <3>2 DEF MessageOnce
  <2> QED BY <1>0, <2>1, <2>3 DEF MessagesOnce
<1>3. ASSUME NEW m \in Messages \cup {Nobody}, Publish(m) PROVE Quiet /\ MessagesOnce'
  <2>1. /\ Others /\ queue' = Append(queue, m) /\ UNCHANGED <<inbox, again>>
        /\ m \in publishing /\ publishing' = publishing \ {m}
    BY <1>3 DEF Publish
  <2> HIDE DEF Others
  <2>2. ASSUME NEW x \in Messages \ again PROVE MessageOnce(x)'
    <3>1. MessageOnce(x)
      BY DEF MessagesOnce
    <3>2. /\ Contains(queue', x) => Contains(queue, x) \/ m = x
          /\ Single(queue, x) /\ (m = x => ~Contains(queue, x)) => Single(queue', x)
      BY <1>q, <2>1, AppendHolds
    <3> QED BY <1>0, <2>1, <3>1, <3>2 DEF MessageOnce
  <2> QED BY <1>0, <2>1, <2>2 DEF MessagesOnce
<1>4. ASSUME NEW m \in Messages \cup {Nobody}, PublishFails(m) PROVE Quiet /\ MessagesOnce'
  <2>1. Others /\ UNCHANGED <<queue, inbox, again>> /\ publishing' = publishing \ {m}
    BY <1>4 DEF PublishFails
  <2> HIDE DEF Others
  <2> QED BY <1>0, <2>1 DEF MessagesOnce, MessageOnce
<1>5. ASSUME NEW i \in Inputs, Write(i) PROVE Quiet /\ MessagesOnce'
  <2>1. Others /\ UNCHANGED <<queue, inbox, again, publishing>>
    BY <1>5 DEF Write
  <2> HIDE DEF Others
  <2> QED BY <1>0, <2>1 DEF MessagesOnce, MessageOnce
<1>6. CASE Unknown
  <2>1. /\ Others /\ queue # <<>> /\ queue' = Tail(queue) /\ UNCHANGED <<again, publishing>>
        /\ Head(queue) \in Messages
    BY <1>6 DEF Unknown, Known
  <2>2. \A x \in Messages : inbox'[x] = IF x = Head(queue) THEN "FAILED" ELSE inbox[x]
    BY <1>6 DEF Unknown, MarkedFailed, ConvInv, ConvTypeOK
  <2> HIDE DEF Others
  <2>3. ASSUME NEW x \in Messages \ again PROVE MessageOnce(x)'
    <3>1. MessageOnce(x)
      BY DEF MessagesOnce
    <3>2. /\ Contains(queue', x) => Contains(queue, x)
          /\ Single(queue, x) => Single(queue', x)
      BY <1>q, <2>1, TailHolds
    <3> QED BY <1>0, <2>1, <2>2, <3>1, <3>2 DEF MessageOnce
  <2> QED BY <1>0, <2>1, <2>3 DEF MessagesOnce
<1>7. CASE TakeFails
  <2>1. Others /\ queue # <<>> /\ queue' = Tail(queue) /\ UNCHANGED <<inbox, again, publishing>>
    BY <1>7 DEF TakeFails
  <2> HIDE DEF Others
  <2>2. ASSUME NEW x \in Messages \ again PROVE MessageOnce(x)'
    <3>1. MessageOnce(x)
      BY DEF MessagesOnce
    <3>2. /\ Contains(queue', x) => Contains(queue, x)
          /\ Single(queue, x) => Single(queue', x)
      BY <1>q, <2>1, TailHolds
    <3> QED BY <1>0, <2>1, <3>1, <3>2 DEF MessageOnce
  <2> QED BY <1>0, <2>1, <2>2 DEF MessagesOnce
<1> QED BY <1>1, <1>2, <1>3, <1>4, <1>5, <1>6, <1>7

LEMMA HandlesOnce ==
  ASSUME ConvInv, MessagesOnce,
         \/ \E c \in Channels : SaveSession(c) \/ AnswerFails(c)
         \/ MarkAsProcessed \/ MarkFails \/ WorkerDies \/ ConnectionLost \/ WorkerRestarts
         \/ \E answer \in {"APPROVE", "REJECT"} : AnswerRequest(answer)
         \/ TakeAnswer \/ TellAnswer \/ CloseTab \/ ReleaseSession \/ ReleaseFails
  PROVE  Quiet /\ MessagesOnce'
<1>0. Quiet /\ \A m \in Messages \cup Inputs : Untouched(m) => Untouched(m)'
  <2>1. Quiet
    BY SavesQuiet, MarksQuiet, DiesQuiet, StaffQuiet
  <2> QED BY <2>1, QuietUntouched
<1>1. ASSUME UNCHANGED <<inbox, publishing, queue, again>> PROVE MessagesOnce'
  BY <1>0, <1>1 DEF MessagesOnce, MessageOnce
<1>2. ASSUME NEW c \in Channels, SaveSession(c) \/ AnswerFails(c) PROVE MessagesOnce'
  BY <1>1, <1>2 DEF SaveSession, AnswerFails
<1>3. CASE MarkAsProcessed
  <2>1. UNCHANGED <<publishing, queue, again>>
    BY <1>3 DEF MarkAsProcessed
  <2>2. \A x \in Messages : inbox'[x] = "NONE" => inbox[x] = "NONE"
    BY <1>3 DEF MarkAsProcessed, ConvInv, ConvTypeOK
  <2> QED BY <1>0, <2>1, <2>2 DEF MessagesOnce, MessageOnce
<1>4. CASE WorkerDies \/ ConnectionLost
  <2> DEFINE d == doing["whatsapp"].item
  <2>1. /\ queue' = (IF d = Nobody THEN queue ELSE <<d>> \o queue)
        /\ d # Nobody => d \in again'
        /\ again \subseteq again' /\ UNCHANGED <<inbox, publishing>>
    BY <1>4 DEF WorkerDies, ConnectionLost, Redelivered, Back
  <2>2. queue \in Seq(Messages \cup {Nobody}) /\ d \in Messages \cup {Nobody}
    BY DEF ConvInv, ConvTypeOK, Hands
  <2> HIDE DEF d
  <2>3. ASSUME NEW x \in Messages \ again' PROVE MessageOnce(x)'
    <3>1. MessageOnce(x)
      BY <2>1 DEF MessagesOnce
    <3>2. /\ Contains(queue', x) => Contains(queue, x)
          /\ Single(queue, x) => Single(queue', x)
      <4>1. CASE d = Nobody
        BY <2>1, <4>1
      <4>2. CASE d # Nobody
        <5>1. d # x
          BY <2>1, <4>2
        <5> QED BY <2>1, <2>2, <4>2, <5>1, PrependHolds
      <4> QED BY <4>1, <4>2
    <3> QED BY <1>0, <2>1, <3>1, <3>2 DEF MessageOnce
  <2> QED BY <1>0, <2>3 DEF MessagesOnce
<1>5. CASE \/ \E answer \in {"APPROVE", "REJECT"} : AnswerRequest(answer)
           \/ TakeAnswer \/ TellAnswer \/ CloseTab \/ ReleaseSession \/ ReleaseFails
  BY <1>1, <1>5, StaffQuiet DEF arriving
<1>6. CASE MarkFails \/ WorkerRestarts
  <2>1. UNCHANGED <<inbox, publishing, queue, again>>
    BY <1>6 DEF MarkFails, WorkerRestarts, arriving
  <2> QED BY <1>0, <1>1, <2>1
<1> QED BY <1>0, <1>2, <1>3, <1>4, <1>5, <1>6

LEMMA InputsUnmoved ==
  ASSUME Quiet, InputsOnce, UNCHANGED <<text, portal>>, again \subseteq again'
  PROVE  InputsOnce'
<1>1. \A m \in Messages \cup Inputs : Untouched(m) => Untouched(m)'
  BY QuietUntouched
<1> QED BY <1>1 DEF InputsOnce, InputOnce

LEMMA InputsKept ==
  ASSUME ConvInv, Quiet, InputsOnce,
         \/ \E m \in Messages : Webhook(m) \/ SupportRetries(m)
         \/ \E m \in Messages \cup {Nobody} : Publish(m) \/ PublishFails(m)
         \/ \E i \in Inputs : Write(i)
         \/ Unknown \/ TakeFails
         \/ \E c \in Channels : SaveSession(c) \/ AnswerFails(c)
         \/ MarkAsProcessed \/ MarkFails \/ WorkerDies \/ ConnectionLost \/ WorkerRestarts
         \/ \E answer \in {"APPROVE", "REJECT"} : AnswerRequest(answer)
         \/ TakeAnswer \/ TellAnswer \/ CloseTab \/ ReleaseSession \/ ReleaseFails
  PROVE  InputsOnce'
<1>0. \A m \in Messages \cup Inputs : Untouched(m) => Untouched(m)'
  BY QuietUntouched
<1>p. portal \in Seq(Inputs)
  BY DEF ConvInv, ConvTypeOK
<1>1. ASSUME NEW m \in Messages, Webhook(m) \/ SupportRetries(m) PROVE InputsOnce'
  BY <1>1, InputsUnmoved DEF Webhook, SupportRetries
<1>2. ASSUME NEW m \in Messages \cup {Nobody}, Publish(m) \/ PublishFails(m) PROVE InputsOnce'
  BY <1>2, InputsUnmoved DEF Publish, PublishFails
<1>3. ASSUME NEW i \in Inputs, Write(i) PROVE InputsOnce'
  <2>1. portal' = Append(portal, i) /\ text[i] = "none" /\ ~Contains(portal, i) /\ UNCHANGED <<text, again>>
    BY <1>3 DEF Write
  <2>2. ASSUME NEW n \in Inputs \ again PROVE InputOnce(n)'
    <3>1. InputOnce(n)
      BY DEF InputsOnce
    <3>2. /\ Contains(portal', n) => Contains(portal, n) \/ i = n
          /\ Single(portal, n) /\ (i = n => ~Contains(portal, n)) => Single(portal', n)
      BY <1>p, <2>1, AppendHolds
    <3> QED BY <1>0, <2>1, <3>1, <3>2 DEF InputOnce
  <2> QED BY <2>1, <2>2 DEF InputsOnce
<1>4. CASE Unknown \/ TakeFails \/ MarkAsProcessed \/ MarkFails \/ WorkerRestarts
  BY <1>4, InputsUnmoved DEF Unknown, TakeFails, MarkAsProcessed, MarkFails, WorkerRestarts, arriving
<1>5. ASSUME NEW c \in Channels, SaveSession(c) \/ AnswerFails(c) PROVE InputsOnce'
  <2>1. Ends(c) /\ UNCHANGED <<portal, again>>
    BY <1>5 DEF SaveSession, AnswerFails
  <2>2. /\ \A m \in Messages \cup Inputs : m # doing["portal"].item => text'[m] = text[m]
        /\ \A m \in Messages \cup Inputs : text'[m] = "none" => text[m] = "none"
    BY <2>1, EndsQuiet
  <2>3. ASSUME NEW n \in Inputs \ again PROVE InputOnce(n)'
    <3>1. InputOnce(n)
      BY DEF InputsOnce
    <3>2. Contains(portal, n) => text'[n] = "none"
      BY <2>2, <3>1 DEF InputOnce, Untouched, Channels
    <3> QED BY <1>0, <2>1, <2>2, <3>1, <3>2 DEF InputOnce
  <2> QED BY <2>1, <2>3 DEF InputsOnce
<1>6. CASE WorkerDies \/ ConnectionLost
  <2> DEFINE d == doing["portal"].item
  <2>1. /\ portal' = (IF d = Nobody THEN portal ELSE <<d>> \o portal)
        /\ d # Nobody => d \in again'
        /\ again \subseteq again' /\ UNCHANGED text
    BY <1>6 DEF WorkerDies, ConnectionLost, Redelivered, Back
  <2>2. d \in Inputs \cup {Nobody}
    BY DEF ConvInv, Hands
  <2> HIDE DEF d
  <2>3. ASSUME NEW n \in Inputs \ again' PROVE InputOnce(n)'
    <3>1. InputOnce(n)
      BY <2>1 DEF InputsOnce
    <3>2. /\ Contains(portal', n) => Contains(portal, n)
          /\ Single(portal, n) => Single(portal', n)
      <4>1. CASE d = Nobody
        BY <2>1, <4>1
      <4>2. CASE d # Nobody
        <5>1. d # n
          BY <2>1, <4>2
        <5> QED BY <1>p, <2>1, <2>2, <4>2, <5>1, PrependHolds
      <4> QED BY <4>1, <4>2
    <3> QED BY <1>0, <2>1, <3>1, <3>2 DEF InputOnce
  <2> QED BY <2>3 DEF InputsOnce
<1>7. CASE \/ \E answer \in {"APPROVE", "REJECT"} : AnswerRequest(answer)
           \/ TakeAnswer \/ TellAnswer \/ CloseTab \/ ReleaseSession \/ ReleaseFails
  BY <1>7, StaffQuiet, InputsUnmoved DEF arriving
<1> QED BY <1>1, <1>2, <1>3, <1>4, <1>5, <1>6, <1>7

-----------------------------------------------------------------------------
(* A message that is taken orders at most once, and touches no other.      *)
LEMMA ProcessTouches ==
  ASSUME ConvInv, NEW c \in Channels, NEW m \in Messages \cup Inputs, NEW t \in Texts, NEW s \in Sessions,
         Process(c, m, t, s), s.cart.line \in {session.cart.line, Nobody}, UNCHANGED session,
         NEW x \in Messages \cup Inputs, x # m, Untouched(x)
  PROVE  Untouched(x)'
<1>1. PICK sess \in Sessions :
        /\ doing' = [doing EXCEPT ![c] = [pc |-> "processed", item |-> m, sess |-> sess]]
        /\ sess.cart.line \in {s.cart.line, m, Nobody}
        /\ \/ UNCHANGED orders
           \/ \E o \in OrderRecord : orders' = Append(orders, o) /\ o.by = m /\ o.line = s.cart.line
  BY ProcessKeeps
<1>2. \A d \in Channels : /\ doing'[d].item \in {doing[d].item, m}
                          /\ doing'[d].sess.cart.line \in {doing[d].sess.cart.line, session.cart.line, m, Nobody}
  BY <1>1 DEF ConvInv, ConvTypeOK
<1>3. orders \in Seq(OrderRecord)
  BY ConvTyped DEF ConvInv, ConvTypes
<1>4. ASSUME NEW i \in 1..Len(orders') PROVE orders'[i].by # x /\ orders'[i].line # x
  <2>1. CASE UNCHANGED orders
    BY <1>4, <2>1 DEF Untouched
  <2>2. ASSUME NEW o \in OrderRecord, orders' = Append(orders, o), o.by = m, o.line = s.cart.line
        PROVE  orders'[i].by # x /\ orders'[i].line # x
    <3>1. (i = Len(orders) + 1 /\ orders'[i] = o) \/ (i \in 1..Len(orders) /\ orders'[i] = orders[i])
      BY <1>3, <1>4, <2>2
    <3>2. o.by # x /\ o.line # x
      BY <2>2, MessagesDistinct DEF Untouched
    <3> QED BY <3>1, <3>2 DEF Untouched
  <2> QED BY <1>1, <2>1, <2>2
<1> QED BY <1>2, <1>4, MessagesDistinct DEF Untouched

LEMMA ProcessOrdersOnce ==
  ASSUME ConvInv, NEW c \in Channels, NEW m \in Messages \cup Inputs, NEW t \in Texts, NEW s \in Sessions,
         Process(c, m, t, s), UNCHANGED again, m \notin again => Untouched(m), OneOrderPerMessage
  PROVE  OneOrderPerMessage'
<1>1. UNCHANGED orders \/ \E o \in OrderRecord : orders' = Append(orders, o) /\ o.by = m
  BY ProcessKeeps
<1>2. orders \in Seq(OrderRecord)
  BY ConvTyped DEF ConvInv, ConvTypes
<1>3. CASE UNCHANGED orders
  BY <1>3 DEF OneOrderPerMessage
<1>4. ASSUME NEW o \in OrderRecord, orders' = Append(orders, o), o.by = m PROVE OneOrderPerMessage'
  <2>1. Len(orders') = Len(orders) + 1 /\ Len(orders) \in Nat
    BY <1>2, <1>4
  <2>2. \A i \in 1..Len(orders') : \/ i = Len(orders) + 1 /\ orders'[i] = o
                                   \/ i \in 1..Len(orders) /\ orders'[i] = orders[i]
    BY <1>2, <1>4
  <2>3. \A i \in 1..Len(orders) : orders[i].by = m => m \in again
    BY DEF Untouched
  <2> QED BY <1>4, <2>1, <2>2, <2>3 DEF OneOrderPerMessage
<1> QED BY <1>1, <1>3, <1>4

Once == MessagesOnce /\ InputsOnce /\ OneOrderPerMessage

LEMMA TakeOnce ==
  ASSUME ConvInv, Once, Take
  PROVE  Once'
<1>0. PICK m : m = Head(queue)
  OBVIOUS
<1>1. /\ queue # <<>> /\ queue' = Tail(queue) /\ queue \in Seq(Messages \cup {Nobody})
      /\ UNCHANGED <<inbox, publishing, portal, session, again>>
  BY DEF Take, ConvInv, ConvTypeOK
<1>2. \A x : /\ Contains(queue', x) => Contains(queue, x)
             /\ Single(queue, x) => Single(queue', x)
             /\ Single(queue, x) /\ m = x => ~Contains(queue', x)
  BY <1>0, <1>1, TailHolds
<1>3. Contains(queue, m)
  BY <1>0, <1>1, TailHolds
<1>4. CASE Known(m)
  <2>1. PICK t \in Texts : Process("whatsapp", m, t, session)
    BY <1>0, <1>4 DEF Take
  <2>2. m \in Messages /\ session \in Sessions /\ "whatsapp" \in Channels
    BY <1>0, <1>4 DEF Known, Channels, ConvInv, ConvTypeOK
  <2>3. \A x \in Messages \cup Inputs : x # m /\ Untouched(x) => Untouched(x)'
    BY <1>1, <2>1, <2>2, ProcessTouches
  <2>4. m \notin again => MessageOnce(m) /\ Untouched(m)
    BY <1>3, <2>2 DEF Once, MessagesOnce, MessageOnce
  <2>5. OneOrderPerMessage'
    BY <1>1, <2>1, <2>2, <2>4, ProcessOrdersOnce DEF Once
  <2>6. MessageOnce(m) /\ Contains(queue, m) => MessageOnce(m)'
    BY <1>1, <1>2 DEF MessageOnce
  <2>7. ASSUME NEW x \in Messages \ again, x # m PROVE MessageOnce(x)'
    BY <1>1, <1>2, <2>3, <2>7 DEF Once, MessagesOnce, MessageOnce
  <2>8. MessagesOnce'
    BY <1>1, <1>3, <2>4, <2>6, <2>7 DEF MessagesOnce
  <2>9. \A n \in Inputs : text'[n] = text[n] /\ n # m
    <3>1. text' = [text EXCEPT ![m] = t]
      BY <2>1, <2>2, ProcessKeeps
    <3> QED BY <2>2, <3>1, MessagesDistinct DEF ConvInv, ConvTypeOK
  <2>10. InputsOnce'
    BY <1>1, <2>3, <2>9 DEF Once, InputsOnce, InputOnce
  <2> QED BY <2>5, <2>8, <2>10 DEF Once
<1>5. CASE ~Known(m)
  <2>1. UNCHANGED <<text, doing, orders>>
    BY <1>0, <1>5 DEF Take
  <2>2. Quiet
    BY <1>1, <2>1 DEF Quiet
  <2>3. \A x \in Messages \cup Inputs : Untouched(x) => Untouched(x)'
    BY <2>2, QuietUntouched
  <2>4. MessagesOnce'
    BY <1>1, <1>2, <2>3 DEF Once, MessagesOnce, MessageOnce
  <2>5. InputsOnce'
    BY <1>1, <2>1, <2>2, InputsUnmoved DEF Once
  <2> QED BY <1>1, <2>1, <2>4, <2>5 DEF Once, OneOrderPerMessage
<1> QED BY <1>4, <1>5

LEMMA PortalLine ==
  ASSUME session \in Sessions
  PROVE  /\ PortalSession.cart.line \in {session.cart.line, Nobody}
         /\ PortalSession.cart.units > 0 => PortalSession.cart = session.cart
         /\ PortalSession.state = "CONFIRMING_ORDER" => session.state = "CONFIRMING_ORDER" /\ PortalSession = session
<1>1. "MAIN_MENU" \in States
  BY DEF States
<1>2. New("MAIN_MENU").cart = NoCart /\ New("MAIN_MENU").state = "MAIN_MENU"
  BY <1>1, NewParts
<1>3. /\ [session EXCEPT !.state = "MAIN_MENU"].cart = session.cart
      /\ [session EXCEPT !.state = "MAIN_MENU"].state = "MAIN_MENU"
  BY <1>1, Moved
<1> QED BY <1>2, <1>3, NoCartParts DEF PortalSession

LEMMA TakeInputOnce ==
  ASSUME ConvInv, Once, TakeInput
  PROVE  Once'
<1>0. PICK n : n = Head(portal)
  OBVIOUS
<1>1. /\ portal # <<>> /\ portal' = Tail(portal) /\ portal \in Seq(Inputs) /\ n \in Inputs
      /\ UNCHANGED <<inbox, publishing, queue, session, again>>
  BY <1>0, HeadTail DEF TakeInput, ConvInv, ConvTypeOK
<1>2. \A x : /\ Contains(portal', x) => Contains(portal, x)
             /\ Single(portal, x) => Single(portal', x)
             /\ Single(portal, x) /\ n = x => ~Contains(portal', x)
  BY <1>0, <1>1, TailHolds
<1>3. Contains(portal, n)
  BY <1>0, <1>1, TailHolds
<1>4. CASE tab = "MINE"
  <2>1. PICK t \in Texts : Process("portal", n, t, PortalSession)
    BY <1>0, <1>4 DEF TakeInput
  <2>2. session \in Sessions /\ PortalSession \in Sessions /\ "portal" \in Channels
    BY PortalSessionOK DEF Channels, ConvInv, ConvTypeOK
  <2>3. \A x \in Messages \cup Inputs : x # n /\ Untouched(x) => Untouched(x)'
    BY <1>1, <2>1, <2>2, PortalLine, ProcessTouches
  <2>4. n \notin again => InputOnce(n) /\ Untouched(n)
    BY <1>1, <1>3 DEF Once, InputsOnce, InputOnce
  <2>5. OneOrderPerMessage'
    BY <1>1, <2>1, <2>2, <2>4, ProcessOrdersOnce DEF Once
  <2>6. \A x \in Inputs : text'[x] = IF x = n THEN t ELSE text[x]
    <3>1. text' = [text EXCEPT ![n] = t]
      BY <1>1, <2>1, <2>2, ProcessKeeps
    <3> QED BY <3>1 DEF ConvInv, ConvTypeOK
  <2>7. t # "none"
    BY TextsSaid
  <2>8. InputOnce(n) => InputOnce(n)'
    BY <1>1, <1>2, <2>6, <2>7 DEF InputOnce
  <2>9. ASSUME NEW x \in Inputs \ again, x # n PROVE InputOnce(x)'
    BY <1>1, <1>2, <2>3, <2>6, <2>9 DEF Once, InputsOnce, InputOnce
  <2>10. InputsOnce'
    BY <1>1, <2>4, <2>8, <2>9 DEF InputsOnce
  <2>11. \A m \in Messages : m # n
    BY <1>1, MessagesDistinct
  <2>12. MessagesOnce'
    BY <1>1, <2>3, <2>11 DEF Once, MessagesOnce, MessageOnce
  <2> QED BY <2>5, <2>10, <2>12 DEF Once
<1>5. CASE tab # "MINE"
  <2>1. text' = [text EXCEPT ![n] = "past"] /\ UNCHANGED <<doing, orders>>
    BY <1>0, <1>5 DEF TakeInput
  <2>2. Quiet
    BY <1>1, <2>1 DEF Quiet
  <2>3. \A x \in Messages \cup Inputs : Untouched(x) => Untouched(x)'
    BY <2>2, QuietUntouched
  <2>4. MessagesOnce'
    BY <1>1, <2>3 DEF Once, MessagesOnce, MessageOnce
  <2>5. \A x \in Inputs : text'[x] = IF x = n THEN "past" ELSE text[x]
    BY <2>1 DEF ConvInv, ConvTypeOK
  <2>6. InputsOnce'
    BY <1>1, <1>2, <2>3, <2>5 DEF Once, InputsOnce, InputOnce
  <2> QED BY <1>1, <2>1, <2>4, <2>6 DEF Once, OneOrderPerMessage
<1> QED BY <1>4, <1>5

LEMMA OnceInit == Init => Once
<1> SUFFICES ASSUME Init PROVE Once
  OBVIOUS
<1>1. \A m \in Messages \cup Inputs : Untouched(m)
  <2>1. session.cart.line = Nobody
    <3>1. \A state \in States : New(state).cart.line = Nobody
      BY NewParts, NoCartParts
    <3>2. {"WELCOME", "WAITING_ADMIN_APPROVAL", "MAIN_MENU", "ORDERING", "SELECTING_QTY"} \cup InCart \subseteq States
      BY DEF States, InCart
    <3>3. \A state \in InCart, n \in 1..MaxUnits :
            [New(state) EXCEPT !.cart = [line |-> Nobody, units |-> n]].cart.line = Nobody
      BY <3>2, NewParts DEF Sessions
    <3> QED BY <3>1, <3>2, <3>3, GoneParts, NoCartParts DEF Init
  <2>2. \A c \in Channels : doing[c].item = Nobody /\ doing[c].sess.cart.line = Nobody
    BY IdleHand, GoneParts, NoCartParts DEF Init
  <2>3. orders = <<>>
    BY DEF Init
  <2> QED BY <2>1, <2>2, <2>3, MessagesDistinct DEF Untouched
<1>2. queue = <<>> /\ portal = <<>> /\ orders = <<>> /\ publishing = {}
  BY DEF Init
<1>3. \A e : ~Contains(<<>>, e) /\ Single(<<>>, e)
  BY DEF Contains, Single
<1> QED BY <1>1, <1>2, <1>3 DEF Once, MessagesOnce, MessageOnce, InputsOnce, InputOnce, OneOrderPerMessage

LEMMA OnceStep == ConvInv /\ Once /\ [Next]_vars => Once'
<1> SUFFICES ASSUME ConvInv, Once, [Next]_vars PROVE Once'
  OBVIOUS
<1>1. ASSUME Quiet, MessagesOnce', InputsOnce', again \subseteq again' PROVE Once'
  BY <1>1 DEF Once, OneOrderPerMessage, Quiet
<1>2. CASE \/ \E m \in Messages : Webhook(m) \/ SupportRetries(m)
           \/ \E m \in Messages \cup {Nobody} : Publish(m) \/ PublishFails(m)
           \/ \E i \in Inputs : Write(i)
           \/ Unknown \/ TakeFails
  <2>1. again \subseteq again'
    BY <1>2 DEF Webhook, SupportRetries, Publish, PublishFails, Write, Unknown, TakeFails
  <2> QED BY <1>1, <1>2, <2>1, ArrivesOnce, InputsKept DEF Once
<1>3. CASE \/ \E c \in Channels : SaveSession(c) \/ AnswerFails(c)
           \/ MarkAsProcessed \/ MarkFails \/ WorkerDies \/ ConnectionLost \/ WorkerRestarts
           \/ \E answer \in {"APPROVE", "REJECT"} : AnswerRequest(answer)
           \/ TakeAnswer \/ TellAnswer \/ CloseTab \/ ReleaseSession \/ ReleaseFails
  <2>1. again \subseteq again'
    BY <1>3 DEF SaveSession, AnswerFails, MarkAsProcessed, MarkFails, WorkerDies, ConnectionLost, WorkerRestarts,
                Redelivered, AnswerRequest, TakeAnswer, TellAnswer,
                CloseTab, ReleaseSession, ReleaseFails
  <2> QED BY <1>1, <1>3, <2>1, HandlesOnce, InputsKept DEF Once
<1>4. CASE ConvNext
  BY <1>2, <1>3, <1>4, TakeOnce, TakeInputOnce DEF ConvNext
<1>5. CASE UNCHANGED convVars
  BY <1>5 DEF convVars, Once, MessagesOnce, MessageOnce, InputsOnce, InputOnce, OneOrderPerMessage, Untouched
<1> QED BY <1>4, <1>5 DEF Next, vars

-----------------------------------------------------------------------------
(* The cart.                                                               *)

\* The cart of s was not ordered by a hand that was alone.
Unordered(s) ==
  s.cart.units > 0 =>
    \A i \in 1..Len(orders) :
      ~orders[i].mixed /\ orders[i].cart /\ orders[i].line = s.cart.line => s.cart.line \in again

\* As long as one hand at a time was on the session: the cart to come, the
\* session's or that of the hand's copy, was not ordered, and a cart that is to
\* be confirmed was shown.
Alone ==
  ~mixed =>
    /\ \A c, d \in Channels : Holds(c) /\ Holds(d) => c = d
    /\ \A c \in Channels : Holds(c) => Unordered(doing[c].sess)
    /\ (\A c \in Channels : ~Holds(c)) =>
         /\ Unordered(session)
         /\ session.state = "CONFIRMING_ORDER" => shown = session.cart.units

AloneInv == Alone /\ AloneOrderedOnce

\* Nothing is ordered, and no cart changes hands.
LEMMA AloneUnmoved ==
  ASSUME ConvInv, AloneInv, UNCHANGED <<orders, session, shown, mixed>>, again \subseteq again',
         \A c \in Channels : Holds(c)' <=> Holds(c),
         \A c \in Channels : Holds(c) => doing'[c].sess = doing[c].sess
  PROVE  AloneInv'
<1>1. Alone'
  BY DEF AloneInv, Alone, Unordered
<1>2. AloneOrderedOnce'
  BY DEF AloneInv, AloneOrderedOnce
<1> QED BY <1>1, <1>2 DEF AloneInv

LEMMA AloneMixed ==
  ASSUME AloneInv, UNCHANGED <<orders, again>> \/ (UNCHANGED orders /\ again \subseteq again'), mixed' = TRUE
  PROVE  AloneInv'
BY DEF AloneInv, Alone, AloneOrderedOnce

\* The hand that was alone writes the session.
LEMMA SaveAlone ==
  ASSUME ConvInv, AloneInv, NEW c \in Channels, SaveSession(c)
  PROVE  AloneInv'
<1>1. /\ Holds(c) /\ session' = doing[c].sess /\ shown' = Showing(doing[c].sess)
      /\ UNCHANGED <<orders, again, mixed>> /\ Ends(c)
  BY DEF SaveSession, Kept
<1>2. ~mixed => \A d \in Channels : Holds(d) => d = c
  BY <1>1 DEF AloneInv, Alone
<1>3. \A d \in Channels : Holds(d)' => d # c /\ Holds(d)
  <2>1. \A d \in Channels : d # c => doing'[d] = doing[d]
    BY <1>1 DEF Ends, ConvInv, ConvTypeOK
  <2>2. doing'[c].pc # "processed"
    BY <1>1, IdleHand DEF Ends, ConvInv, ConvTypeOK
  <2> QED BY <2>1, <2>2 DEF Holds
<1>4. ~mixed => Unordered(session)'
  BY <1>1 DEF AloneInv, Alone, Unordered
<1>5. session'.state = "CONFIRMING_ORDER" => shown' = session'.cart.units
  BY <1>1 DEF Showing
<1>6. Alone'
  BY <1>1, <1>2, <1>3, <1>4, <1>5 DEF Alone
<1>7. AloneOrderedOnce'
  BY <1>1 DEF AloneInv, AloneOrderedOnce
<1> QED BY <1>6, <1>7 DEF AloneInv

\* The staff's answer finds nobody's hand on the session, or it is mixed.
LEMMA TellAlone ==
  ASSUME ConvInv, AloneInv, TellAnswer
  PROVE  AloneInv'
<1>1. /\ session' \in {session, Admitted(session), Reset(session)} /\ mixed' = (mixed \/ Overlaps("tables"))
      /\ UNCHANGED <<orders, again, shown>> /\ doing["tables"].pc # "processed"
      /\ doing' = [doing EXCEPT !["tables"] = Idle]
  BY DEF TellAnswer
<1>2. session \in Sessions /\ "MAIN_MENU" \in States
  BY DEF ConvInv, ConvTypeOK, States
<1>3. Admitted(session).cart = session.cart /\ Admitted(session).state = "MAIN_MENU"
  BY <1>2, Moved DEF Admitted
<1>4. session'.cart.units > 0 => session'.cart = session.cart
  BY <1>1, <1>2, <1>3, ResetParts, NoCartParts
<1>5. session'.state = "CONFIRMING_ORDER" => session' = session
  BY <1>1, <1>2, <1>3, ResetParts
<1>6. ~mixed' => ~mixed /\ \A c \in Channels : ~Holds(c)
  BY <1>1 DEF Overlaps, Holds
<1>7. \A c \in Channels : Holds(c)' => Holds(c)
  BY <1>1, IdleHand DEF Holds, ConvInv, ConvTypeOK
<1>8. Alone'
  BY <1>1, <1>4, <1>5, <1>6, <1>7 DEF AloneInv, Alone, Unordered
<1>9. AloneOrderedOnce'
  BY <1>1 DEF AloneInv, AloneOrderedOnce
<1> QED BY <1>8, <1>9 DEF AloneInv

LEMMA ReleaseAlone ==
  ASSUME ConvInv, AloneInv, ReleaseSession
  PROVE  AloneInv'
<1>1. /\ session' = Gone /\ mixed' = (mixed \/ \E c \in Channels : Holds(c))
      /\ UNCHANGED <<orders, again, shown, doing>>
  BY DEF ReleaseSession
<1>2. Gone.cart.units = 0 /\ Gone.state = "WELCOME"
  BY GoneParts, NoCartParts
<1>3. \A c \in Channels : Holds(c)' <=> Holds(c)
  BY <1>1 DEF Holds
<1>4. ~mixed' => \A c \in Channels : ~Holds(c)'
  BY <1>1, <1>3
<1>5. session'.state # "CONFIRMING_ORDER" /\ session'.cart.units = 0
  BY <1>1, <1>2
<1>6. Unordered(session)'
  BY <1>5 DEF Unordered
<1>7. Alone'
  BY <1>4, <1>5, <1>6 DEF Alone
<1>8. AloneOrderedOnce'
  BY <1>1 DEF AloneInv, AloneOrderedOnce
<1> QED BY <1>7, <1>8 DEF AloneInv

\* A message is handled by a hand that is alone, or it is mixed: it orders the
\* cart the session has, which it then empties, and begins a cart of its own only
\* when it has ordered nothing yet.
LEMMA ProcessAlone ==
  ASSUME ConvInv, AloneInv, NEW c \in Channels, NEW m \in Messages \cup Inputs, NEW t \in Texts,
         NEW s \in Sessions, Process(c, m, t, s), UNCHANGED <<session, shown, again>>,
         doing[c] = Idle, m \notin again => Untouched(m),
         s.cart.units > 0 => s.cart = session.cart,
         s.state = "CONFIRMING_ORDER" => session.state = "CONFIRMING_ORDER" /\ s = session
  PROVE  AloneInv'
<1>1. mixed' = (mixed \/ Overlaps(c))
  BY ProcessKeeps
<1>2. PICK sess \in Sessions :
        /\ doing' = [doing EXCEPT ![c] = [pc |-> "processed", item |-> m, sess |-> sess]]
        /\ sess.cart.units > 0 => \/ s.cart.units > 0 /\ sess.cart.line = s.cart.line
                                  \/ sess.cart.line = m
        /\ \/ UNCHANGED orders
           \/ \E o \in OrderRecord :
                /\ orders' = Append(orders, o)
                /\ o.by = m /\ o.line = s.cart.line /\ (o.mixed <=> mixed') /\ (o.cart <=> s.state = "CONFIRMING_ORDER")
                /\ o.cart => o.units = s.cart.units /\ o.shown = shown /\ sess.cart.units = 0
                /\ ~o.cart => o.shown = o.units
  BY ProcessKeeps
<1>3. orders \in Seq(OrderRecord)
  BY ConvTyped DEF ConvInv, ConvTypes
<1>4. \A d \in Channels : /\ d # c => doing'[d] = doing[d]
                          /\ d = c => doing'[d].pc = "processed" /\ doing'[d].sess = sess
  BY <1>2 DEF ConvInv, ConvTypeOK
<1>5. ~Holds(c)
  BY IdleHand DEF Holds
<1>6. ~mixed' => ~mixed /\ \A d \in Channels : ~Holds(d)
  BY <1>1, <1>5 DEF Overlaps
<1>7. ~mixed' => Unordered(session) /\ (session.state = "CONFIRMING_ORDER" => shown = session.cart.units)
  BY <1>6 DEF AloneInv, Alone
<1>8. \A d \in Channels : Holds(d)' /\ ~mixed' => d = c
  BY <1>4, <1>6 DEF Holds
\* The copy's cart was not ordered.
<1>9. ~mixed' /\ sess.cart.units > 0 =>
        \A i \in 1..Len(orders) :
          ~orders[i].mixed /\ orders[i].cart /\ orders[i].line = sess.cart.line => sess.cart.line \in again
  BY <1>2, <1>7 DEF Unordered, Untouched
<1>10. CASE UNCHANGED orders
  <2>1. ~mixed' => Unordered(sess)'
    BY <1>9, <1>10 DEF Unordered
  <2>2. Alone'
    BY <1>4, <1>8, <2>1 DEF Alone, Unordered, Holds
  <2> QED BY <1>10, <2>2 DEF AloneInv, AloneOrderedOnce
<1>11. ASSUME NEW o \in OrderRecord, orders' = Append(orders, o),
              o.line = s.cart.line, o.mixed <=> mixed', o.cart <=> s.state = "CONFIRMING_ORDER",
              o.cart => o.units = s.cart.units /\ o.shown = shown /\ sess.cart.units = 0,
              ~o.cart => o.shown = o.units
       PROVE  AloneInv'
  <2>1. \A i \in 1..Len(orders') : \/ i = Len(orders) + 1 /\ orders'[i] = o
                                   \/ i \in 1..Len(orders) /\ orders'[i] = orders[i]
    BY <1>3, <1>11
  <2>2. sess.cart.units > 0 => ~o.cart
    BY <1>11
  <2>3. ~mixed' => Unordered(sess)'
    BY <1>9, <2>1, <2>2 DEF Unordered
  <2>4. Alone'
    BY <1>4, <1>8, <2>3 DEF Alone, Unordered, Holds
  <2>5. ~o.mixed => o.units = o.shown
    BY <1>7, <1>11
  <2>6. o.cart => s.cart = session.cart /\ session.cart.units > 0 /\ o.line = session.cart.line
    BY <1>11, SomeUnits DEF OrderRecord
  <2>7. ~o.mixed /\ o.cart =>
          \A i \in 1..Len(orders) : ~orders[i].mixed /\ orders[i].cart /\ orders[i].line = o.line => o.line \in again
    BY <1>7, <1>11, <2>6 DEF Unordered
  <2>8. AloneOrderedOnce'
    BY <2>1, <2>5, <2>7 DEF AloneInv, AloneOrderedOnce
  <2> QED BY <2>4, <2>8 DEF AloneInv
<1> QED BY <1>2, <1>10, <1>11

LEMMA TakeAlone ==
  ASSUME ConvInv, Once, AloneInv, Take
  PROVE  AloneInv'
<1>0. PICK m : m = Head(queue)
  OBVIOUS
<1>1. /\ queue # <<>> /\ queue \in Seq(Messages \cup {Nobody})
      /\ UNCHANGED <<session, shown, again>> /\ doing["whatsapp"] = Idle
  BY DEF Take, ConvInv, ConvTypeOK
<1>2. Contains(queue, m)
  BY <1>0, <1>1, TailHolds
<1>3. CASE Known(m)
  <2>1. PICK t \in Texts : Process("whatsapp", m, t, session)
    BY <1>0, <1>3 DEF Take
  <2>2. m \in Messages /\ session \in Sessions /\ "whatsapp" \in Channels
    BY <1>3 DEF Known, Channels, ConvInv, ConvTypeOK
  <2>3. m \notin again => Untouched(m)
    BY <1>2, <2>2 DEF Once, MessagesOnce, MessageOnce
  <2> QED BY <1>1, <2>1, <2>2, <2>3, ProcessAlone
<1>4. CASE ~Known(m)
  BY <1>0, <1>1, <1>4, AloneUnmoved DEF Take, Holds
<1> QED BY <1>3, <1>4

LEMMA TakeInputAlone ==
  ASSUME ConvInv, Once, AloneInv, TakeInput
  PROVE  AloneInv'
<1>0. PICK n : n = Head(portal)
  OBVIOUS
<1>1. /\ portal # <<>> /\ portal \in Seq(Inputs) /\ n \in Inputs
      /\ UNCHANGED <<session, shown, again>> /\ doing["portal"] = Idle
  BY <1>0, HeadTail DEF TakeInput, ConvInv, ConvTypeOK
<1>2. Contains(portal, n)
  BY <1>0, <1>1, TailHolds
<1>3. CASE tab = "MINE"
  <2>1. PICK t \in Texts : Process("portal", n, t, PortalSession)
    BY <1>0, <1>3 DEF TakeInput
  <2>2. session \in Sessions /\ PortalSession \in Sessions /\ "portal" \in Channels
    BY PortalSessionOK DEF Channels, ConvInv, ConvTypeOK
  <2>3. n \notin again => Untouched(n)
    BY <1>1, <1>2 DEF Once, InputsOnce, InputOnce
  <2> QED BY <1>1, <2>1, <2>2, <2>3, PortalLine, ProcessAlone
<1>4. CASE tab # "MINE"
  BY <1>1, <1>4, AloneUnmoved DEF TakeInput, Holds
<1> QED BY <1>3, <1>4

LEMMA AloneInit == Init => AloneInv
<1> SUFFICES ASSUME Init PROVE AloneInv
  OBVIOUS
<1>1. orders = <<>> /\ shown = session.cart.units /\ \A c \in Channels : doing[c] = Idle
  BY DEF Init
<1> QED BY <1>1, IdleHand DEF AloneInv, Alone, AloneOrderedOnce, Unordered, Holds

LEMMA AloneStep == ConvInv /\ Once /\ AloneInv /\ [Next]_vars => AloneInv'
<1> SUFFICES ASSUME ConvInv, Once, AloneInv, [Next]_vars PROVE AloneInv'
  OBVIOUS
<1>1. ASSUME UNCHANGED <<orders, session, shown, mixed, doing>>, again \subseteq again' PROVE AloneInv'
  BY <1>1, AloneUnmoved DEF Holds
<1>2. CASE \/ \E m \in Messages : Webhook(m) \/ SupportRetries(m)
           \/ \E m \in Messages \cup {Nobody} : Publish(m) \/ PublishFails(m)
           \/ \E i \in Inputs : Write(i)
           \/ Unknown \/ TakeFails
  <2>1. again \subseteq again'
    BY <1>2 DEF Webhook, SupportRetries, Publish, PublishFails, Write, Unknown, TakeFails
  <2>2. UNCHANGED <<orders, session, shown, mixed, doing>>
    BY <1>2 DEF Webhook, SupportRetries, Publish, PublishFails, Write, Unknown, TakeFails
  <2> QED BY <1>1, <2>1, <2>2
<1>3. ASSUME NEW c \in Channels, AnswerFails(c) PROVE AloneInv'
  BY <1>3, AloneMixed DEF AnswerFails
<1>4. CASE WorkerDies
  <2>1. UNCHANGED orders /\ again \subseteq again' /\ mixed' = TRUE
    BY <1>4 DEF WorkerDies, Redelivered
  <2> QED BY <2>1, AloneMixed
<1>l. CASE ConnectionLost
  BY <1>1, <1>l DEF ConnectionLost, Redelivered
<1>r. CASE WorkerRestarts
  <2>1. UNCHANGED <<orders, session, shown, again>> /\ mixed' = (mixed \/ \E c \in Channels : doing[c] # Idle)
    BY <1>r DEF WorkerRestarts
  <2>2. doing' = [c \in Channels |-> Idle]
    BY <1>r DEF WorkerRestarts, NoneDoing
  <2>3. CASE \E c \in Channels : doing[c] # Idle
    BY <2>1, <2>3, AloneMixed
  <2>4. CASE \A c \in Channels : doing[c] = Idle
    <3>1. mixed' = mixed
      BY <2>1, <2>4 DEF ConvInv, ConvTypeOK
    <3>2. \A c \in Channels : doing'[c] = doing[c]
      BY <2>2, <2>4
    <3> QED BY <2>1, <3>1, <3>2, AloneUnmoved DEF Holds
  <2> QED BY <2>3, <2>4
<1>5. CASE MarkAsProcessed \/ MarkFails
  <2>1. /\ UNCHANGED <<orders, session, shown, mixed, again>>
        /\ doing["whatsapp"].pc = "saved" /\ doing' = [doing EXCEPT !["whatsapp"] = Idle]
    BY <1>5 DEF MarkAsProcessed, MarkFails
  <2>2. \A c \in Channels : (Holds(c)' <=> Holds(c)) /\ (Holds(c) => doing'[c].sess = doing[c].sess)
    BY <2>1, IdleHand DEF Holds, ConvInv, ConvTypeOK
  <2> QED BY <2>1, <2>2, AloneUnmoved
<1>6. CASE TakeAnswer
  <2>1. /\ UNCHANGED <<orders, session, shown, mixed, again>> /\ doing["tables"] = Idle
        /\ \/ UNCHANGED doing
           \/ /\ doing' = [doing EXCEPT !["tables"].pc = answers[1]]
              /\ answers[1] \in {"APPROVE", "REJECT"}
    BY <1>6 DEF TakeAnswer, ConvInv, ConvTypeOK
  <2>2. \A c \in Channels : (Holds(c)' <=> Holds(c)) /\ (Holds(c) => doing'[c].sess = doing[c].sess)
    BY <2>1, IdleHand DEF Holds, ConvInv, ConvTypeOK
  <2> QED BY <2>1, <2>2, AloneUnmoved
<1>7. CASE CloseTab \/ ReleaseFails \/ \E answer \in {"APPROVE", "REJECT"} : AnswerRequest(answer)
  BY <1>1, <1>7 DEF CloseTab, ReleaseFails, AnswerRequest
<1>8. CASE ConvNext
  BY <1>2, <1>3, <1>4, <1>5, <1>6, <1>7, <1>8, <1>l, <1>r, SaveAlone, TellAlone, ReleaseAlone, TakeAlone, TakeInputAlone
     DEF ConvNext
<1>9. CASE UNCHANGED convVars
  BY <1>1, <1>9 DEF convVars
<1> QED BY <1>8, <1>9 DEF Next, vars

-----------------------------------------------------------------------------
(* The conversation and its outbox keep their types.                       *)
THEOREM TypeCorrect == Spec => []TypeOK
<1>1. Init => ConvInv /\ OutInv
  BY ConvInitOK, OutInitOK DEF Init
<1>2. ConvInv /\ OutInv /\ [Next]_vars => ConvInv' /\ OutInv'
  BY ConvStep, OutStepOK, NextOutStep, StutterOutStep
<1>3. ConvInv /\ OutInv => TypeOK
  BY DEF ConvInv, OutInv, TypeOK
<1> QED BY <1>1, <1>2, <1>3, PTL DEF Spec

(* A message of the guest orders once, whatever copies of its webhook      *)
(* come and however the channels overlap, unless the worker died over it   *)
(* or the support asked for it again (Store, Take, TakeInput).  A message  *)
(* is in one place - about to be published, queued, in hand - and until it *)
(* is taken nothing bears its name.                                        *)
THEOREM OrdersOnce == Spec => []OneOrderPerMessage
<1>1. Init => ConvInv /\ Once
  BY ConvInitOK, OnceInit
<1>2. ConvInv /\ Once /\ [Next]_vars => ConvInv' /\ Once'
  BY ConvStep, OnceStep
<1>3. Once => OneOrderPerMessage
  BY DEF Once
<1> QED BY <1>1, <1>2, <1>3, PTL DEF Spec

(* A cart is ordered once, and as it was shown, as long as one hand at a   *)
(* time was on the session (Process, SaveSession): the hand that orders it *)
(* leaves none, and the next cart bears the name of a message nothing was  *)
(* done about.                                                             *)
THEOREM CartsOnce == Spec => []AloneOrderedOnce
<1>1. Init => ConvInv /\ Once /\ AloneInv
  BY ConvInitOK, OnceInit, AloneInit
<1>2. ConvInv /\ Once /\ AloneInv /\ [Next]_vars => ConvInv' /\ Once' /\ AloneInv'
  BY ConvStep, OnceStep, AloneStep
<1>3. AloneInv => AloneOrderedOnce
  BY DEF AloneInv
<1> QED BY <1>1, <1>2, <1>3, PTL DEF Spec

(* With one process at the outbox, a text reaches the phone once, unless   *)
(* it could not be known whether it was sent or the support asked for it   *)
(* again while it was (Select, Call, Save): what was sent is at hand until *)
(* its row says so, and no batch has it as one still to be sent.           *)
THEOREM TextsOnce == OneProcessor => (Spec => []SentOnce)
<1> SUFFICES ASSUME OneProcessor PROVE Spec => []SentOnce
  OBVIOUS
<1>1. Init => OutInv /\ Accounted
  <2>1. Init => OutInv
    BY OutInitOK DEF Init
  <2>2. Init => Accounted
    BY DEF Init, OutInit, Accounted, Account
  <2> QED BY <2>1, <2>2
<1>2. OutInv /\ Accounted /\ [Next]_vars => OutInv' /\ Accounted'
  BY OutStepOK, AccountedStep, NextOutStep, StutterOutStep
<1>3. Accounted => SentOnce
  BY DEF Accounted, Account, SentOnce
<1> QED BY <1>1, <1>2, <1>3, PTL DEF Spec
=============================================================================
